-------------------------- MODULE ResultsPaneProofs --------------------------
(***************************************************************************)
(* Marks, Visual Mode and the scroll window of the Results Pane, for       *)
(* Result Sets, pages and terminals of any size.                           *)
(***************************************************************************)
EXTENDS ResultsPane, TLAPS

(****************************** arithmetic ********************************)

\* The page of the last row begins at or before it.
LEMMA PageBegins ==
  ASSUME NEW n \in Nat \ {0}, NEW s \in Nat \ {0}, NEW p \in Nat, p <= (n - 1) \div s
  PROVE  p * s <= n - 1
<1> DEFINE q == (n - 1) \div s
<1>1. q \in Nat /\ q * s <= n - 1
  BY Z3
<1>2. PICK d \in Nat : q = p + d
  <2>1. q - p \in Nat /\ q = p + (q - p)
    BY <1>1
  <2> QED BY <2>1
<1>3. q * s = p * s + d * s
  BY <1>1, <1>2, Z3
<1>4. d * s \in Nat /\ p * s \in Nat
  OBVIOUS
<1> QED BY <1>1, <1>3, <1>4

(****************************** the invariant *****************************)

\* What the arithmetic of pages and windows needs.
PaneTypes ==
  /\ result \in RowCounts \cup {NoResult}
  /\ page \in Nat /\ row \in Nat /\ anchor \in Nat /\ top \in Nat
  /\ terminal \in Terminals

\* Outside an error, Visual Mode has rows and was entered at one of them; unless it was entered
\* astray, its range and the marks are rows.
MarksInv ==
  /\ visual /\ result # NoResult => HasRows /\ origin # "none"
  /\ origin # "astray" => marked \subseteq Rows
  /\ origin # "astray" /\ visual /\ HasRows => anchor \in Rows /\ row \in Rows

PInv == PaneTypes /\ MarksInv

\* The page that is shown lies in the Result Set.
LEMMA PageInResult ==
  ASSUME PaneTypes, HasRows
  PROVE  /\ result \in Nat \ {0}
         /\ First \in Nat /\ Last \in Nat /\ First <= Last /\ Last <= result - 1
         /\ PageRows \in Nat \ {0}
<1> USE ResultsPaneAssumptions
<1>1. result \in Nat \ {0} /\ PageSize \in Nat \ {0}
  BY DEF PaneTypes, HasRows
<1>2. LastPage(result) = (result - 1) \div PageSize /\ LastPage(result) \in Nat
  BY <1>1, Z3 DEF LastPage
<1>3. ClampPage(page) \in Nat /\ ClampPage(page) <= (result - 1) \div PageSize
  BY <1>2 DEF ClampPage, Between, Least, Greatest, PaneTypes, HasRows
<1>4. ClampPage(page) * PageSize <= result - 1 /\ ClampPage(page) * PageSize \in Nat
  BY <1>1, <1>3, PageBegins
<1>5. First \in Nat /\ First <= result - 1
  BY <1>4 DEF First
<1> QED BY <1>1, <1>5 DEF Last, Least, PageRows

LEMMA SyncedInPage ==
  ASSUME PaneTypes, HasRows, NEW r \in Nat
  PROVE  SyncedRow(r) \in First .. Last /\ SyncedRow(r) \in Nat
BY PageInResult DEF SyncedRow, OffPage

LEMMA PageIsRows ==
  ASSUME PaneTypes, HasRows, NEW r \in First .. Last
  PROVE  r \in Rows /\ r \in Nat
BY PageInResult DEF Rows

LEMMA HeightIsInt ==
  ASSUME PaneTypes
  PROVE  Height \in Int /\ Height \div 2 \in Int
<1> USE ResultsPaneAssumptions
<1>1. terminal \in Nat /\ SplitPercent \in Nat /\ MinHeight \in Nat
  BY DEF PaneTypes
<1> DEFINE content == Greatest(2, terminal - 1)
<1>2. content \in Nat
  BY <1>1 DEF Greatest
<1>3. (content * SplitPercent) \div 100 \in Int
  BY <1>1, <1>2, Z3
<1>4. PaneLines \in Int
  BY <1>1, <1>2, <1>3 DEF PaneLines, Greatest
<1>5. Height \in Int
  BY <1>1, <1>4 DEF Height, Greatest
<1> QED BY <1>5, Z3

\* The window lies in the page.
LEMMA WindowInPage ==
  ASSUME PaneTypes, HasRows
  PROVE  VisibleRows \in Nat \ {0} /\ VisibleRows <= PageRows
BY HeightIsInt, PageInResult DEF VisibleRows, Greatest, Least

LEMMA ClampIsNat ==
  ASSUME PaneTypes, NEW p \in Int
  PROVE  ClampPage(p) \in Nat
<1>1. CASE result = NoResult
  BY <1>1 DEF ClampPage
<1>2. CASE result # NoResult
  <2>1. result \in Nat /\ PageSize \in Nat \ {0}
    BY <1>2, ResultsPaneAssumptions DEF PaneTypes
  <2>2. LastPage(result) \in Nat
    BY <2>1, Z3 DEF LastPage
  <2> QED BY <1>2, <2>2 DEF ClampPage, Between, Greatest, Least
<1> QED BY <1>1, <1>2

LEMMA ScrollOffIsNat ==
  ASSUME PaneTypes, HasRows, NEW r \in Int, NEW vp \in Int
  PROVE  ScrollOffViewport(r, vp) \in Nat
<1>1. VisibleRows \div 2 \in Int /\ ScrollOff \in Int
  BY WindowInPage, ResultsPaneAssumptions, Z3
<1>2. Least(ScrollOff, VisibleRows \div 2) \in Int
  BY <1>1 DEF Least
<1> QED BY <1>2, WindowInPage, PageInResult DEF ScrollOffViewport, Greatest, Least

\* Clicks land on rows.
LEMMA ClickedInResult ==
  ASSUME PaneTypes, NEW k \in Int, Clicked(k) # NoRow
  PROVE  HasRows /\ Clicked(k) \in Rows /\ Clicked(k) \in Nat
<1>1. HasRows /\ k \in 0 .. WindowRows - 1 /\ Clicked(k) = First + WindowStart(top) + k
  BY DEF Clicked, RowAtOffset
<1>2. top \in Nat /\ ClipThreshold \in Nat
  BY ResultsPaneAssumptions DEF PaneTypes
<1>3. WindowStart(top) \in Nat /\ WindowRows \in Nat /\ WindowStart(top) + WindowRows <= PageRows
  BY <1>1, <1>2, WindowInPage, PageInResult
     DEF WindowStart, WindowRows, Between, Greatest, Least
<1>4. Clicked(k) \in First .. Last
  BY <1>1, <1>3, PageInResult DEF PageRows
<1> QED BY <1>1, <1>4, PageIsRows

(******************************** the steps *******************************)

LEMMA PaneInit == RInit => PInv
BY ResultsPaneAssumptions DEF RInit, PInv, PaneTypes, MarksInv, HasRows, Rows

\* The cursor may go to any row.
LEMMA CursorMoves ==
  ASSUME PInv, UNCHANGED <<result, page, marked, visual, anchor, origin, terminal>>,
         row' = row \/ (row' = 0 /\ ~HasRows) \/ (row' \in Nat /\ row' \in Rows),
         top' \in Nat
  PROVE  PInv'
<1>1. PaneTypes'
  BY DEF PInv, PaneTypes
<1>2. HasRows' = HasRows /\ Rows' = Rows
  BY DEF HasRows, Rows
<1>3. MarksInv'
  BY <1>2 DEF PInv, MarksInv
<1> QED BY <1>1, <1>3 DEF PInv

LEMMA MovesInPage ==
  ASSUME PInv, HasRows, NEW r \in First .. Last, NEW vp \in Int, MoveTo(r, vp)
  PROVE  row' \in Rows /\ row' \in Nat /\ top' \in Nat
<1>1. PaneTypes
  BY DEF PInv
<1>2. r - First \in Int
  BY <1>1, PageInResult
<1> QED BY <1>1, <1>2, PageIsRows, ScrollOffIsNat DEF MoveTo

LEMMA SyncedTopIsNat ==
  ASSUME PInv, NEW r
  PROVE  SyncedTop(r) \in Nat
BY DEF PInv, PaneTypes, SyncedTop

LEMMA JumpsStay ==
  ASSUME PInv, JumpTop \/ JumpBottom
  PROVE  /\ row' = row \/ (row' \in Nat /\ row' \in Rows)
         /\ top' \in Nat
<1>0. PaneTypes /\ top \in Nat
  BY DEF PInv, PaneTypes
<1>1. CASE ~HasRows
  BY <1>0, <1>1 DEF JumpTop, JumpBottom, cursorVars
<1>2. CASE HasRows
  <2>1. First \in First .. Last /\ Last \in First .. Last
    BY <1>0, <1>2, PageInResult
  <2> QED BY <1>0, <1>2, <2>1, PageIsRows, MovesInPage, SyncedTopIsNat DEF JumpTop, JumpBottom
<1> QED BY <1>1, <1>2

\* Moves and scrolling, by keys and by the wheel.
LEMMA CursorSteps ==
  ASSUME PInv, CursorStep
  PROVE  PInv'
<1> USE DEF OnlyCursor, StillPane, resultVars, visualVars, screenVars, cursorVars
<1>0. PaneTypes /\ row \in Nat /\ top \in Nat
  BY DEF PInv, PaneTypes
<1>1. CASE NavigateRow
  <2>1. CASE HasRows
    <3>1. PICK delta \in {-1, 1} : MoveTo(Between(First, SyncedRow(row) + delta, Last), SyncedTop(row))
      BY <1>1, <2>1 DEF NavigateRow
    <3>2. Between(First, SyncedRow(row) + delta, Last) \in First .. Last
      BY <1>0, <2>1, PageInResult, SyncedInPage DEF Between, Greatest, Least
    <3> QED BY <1>1, <2>1, <3>1, <3>2, MovesInPage, SyncedTopIsNat, CursorMoves DEF NavigateRow
  <2>2. CASE ~HasRows
    BY <1>0, <1>1, <2>2, CursorMoves DEF NavigateRow
  <2> QED BY <2>1, <2>2
<1>2. CASE NavigateColumn
  <2>1. CASE HasRows
    BY <1>0, <1>2, <2>1, SyncedInPage, PageIsRows, SyncedTopIsNat, CursorMoves DEF NavigateColumn
  <2>2. CASE ~HasRows
    BY <1>0, <1>2, <2>2, CursorMoves DEF NavigateColumn
  <2> QED BY <2>1, <2>2
<1>3. CASE Scroll
  <2>1. CASE HasRows
    <3> DEFINE amount == Greatest(1, Height \div 2)
    <3>1. \/ MoveTo(Least(SyncedRow(row) + amount, Last), SyncedTop(row) + amount)
          \/ MoveTo(Greatest(SyncedRow(row) - amount, First), SyncedTop(row) - amount)
      BY <1>3, <2>1 DEF Scroll
    <3>2. amount \in Nat
      BY <1>0, <2>1, HeightIsInt DEF Greatest
    <3>3. /\ Least(SyncedRow(row) + amount, Last) \in First .. Last
          /\ Greatest(SyncedRow(row) - amount, First) \in First .. Last
          /\ SyncedTop(row) + amount \in Int /\ SyncedTop(row) - amount \in Int
      BY <1>0, <2>1, <3>2, PageInResult, SyncedInPage, SyncedTopIsNat DEF Greatest, Least
    <3>4. row' \in Rows /\ row' \in Nat /\ top' \in Nat
      BY <2>1, <3>1, <3>3, MovesInPage
    <3> QED BY <1>3, <3>4, CursorMoves DEF Scroll
  <2>2. CASE ~HasRows
    BY <1>0, <1>3, <2>2, CursorMoves DEF Scroll
  <2> QED BY <2>1, <2>2
<1>4. CASE PressPage
  <2>1. page' \in Nat
    BY <1>0, <1>4, ClampIsNat DEF PressPage, ChangePage, PaneTypes
  <2>2. PaneTypes'
    BY <1>0, <1>4, <2>1 DEF PressPage, ChangePage, PaneTypes
  <2>3. MarksInv'
    BY <1>4 DEF PInv, MarksInv, PressPage, ChangePage, HasRows, Rows
  <2> QED BY <2>2, <2>3 DEF PInv
<1>5. CASE Pressg
  <2>1. CASE JumpTop
    BY <1>5, <2>1, JumpsStay, CursorMoves DEF Pressg
  <2>2. CASE UNCHANGED cursorVars
    BY <1>0, <1>5, <2>2, CursorMoves DEF Pressg
  <2> QED BY <1>5, <2>1, <2>2 DEF Pressg
<1>6. CASE PressG
  BY <1>6, JumpsStay, CursorMoves DEF PressG
<1>7. CASE Wheel
  <2>1. PICK r \in Nat : MoveTo(SyncedRow(r), SyncedTop(r))
    <3>1. First \in Nat /\ Last \in Nat /\ WheelStep \in Nat
      BY <1>0, <1>7, PageInResult, ResultsPaneAssumptions DEF Wheel
    <3>2. Greatest(First, row - WheelStep) \in Nat /\ Least(Last, row + WheelStep) \in Nat
      BY <1>0, <3>1 DEF Greatest, Least
    <3> QED BY <1>7, <3>2 DEF Wheel
  <2>2. row' \in Rows /\ row' \in Nat /\ top' \in Nat
    BY <1>0, <1>7, <2>1, SyncedInPage, SyncedTopIsNat, MovesInPage DEF Wheel
  <2> QED BY <1>7, <2>2, CursorMoves DEF Wheel
<1> QED BY <1>1, <1>2, <1>3, <1>4, <1>5, <1>6, <1>7 DEF CursorStep

\* What leaves the Result Set, the cursor, the marks and Visual Mode alone.
LEMMA PaneUntouched ==
  ASSUME PInv, UNCHANGED <<resultVars, page, marked, cursorVars, visualVars>>, terminal' \in Terminals
  PROVE  PInv'
BY DEF PInv, PaneTypes, MarksInv, HasRows, Rows, resultVars, cursorVars, visualVars

\* Marking, Visual Mode, composing and the modals.
LEMMA KeySteps ==
  ASSUME PInv, KeyStep
  PROVE  PInv'
<1> USE DEF OnlyMarks, OnlyCompose, OnlyModals, StillPane, resultVars, cursorVars, visualVars, screenVars
<1>0. PaneTypes /\ MarksInv /\ terminal \in Terminals
  BY DEF PInv, PaneTypes
<1>1. CASE PressSpace
  <2>1. CASE visual
    <3>1. PaneTypes'
      BY <1>0, <1>1, <2>1 DEF PressSpace, ConfirmVisualSelection, EndVisual, PaneTypes
    <3>2. ASSUME origin' # "astray" PROVE marked' \subseteq Rows'
      <4>1. origin # "astray" /\ Rows' = Rows
        BY <1>1, <2>1, <3>2 DEF PressSpace, ConfirmVisualSelection, EndVisual, Rows, HasRows
      <4>2. CASE result = NoResult
        BY <1>0, <1>1, <2>1, <4>1, <4>2 DEF PressSpace, ConfirmVisualSelection, MarksInv
      <4>3. CASE result # NoResult
        <5>1. HasRows /\ anchor \in Rows /\ row \in Rows
          BY <1>0, <2>1, <4>1, <4>3 DEF MarksInv
        <5>2. result \in Nat
          BY <1>0, <5>1, ResultsPaneAssumptions DEF PaneTypes, HasRows
        <5>3. (Least(anchor, row) .. Greatest(anchor, row)) \subseteq Rows
          BY <5>1, <5>2 DEF Rows, Least, Greatest
        <5> QED BY <1>0, <1>1, <2>1, <4>1, <4>3, <5>3 DEF PressSpace, ConfirmVisualSelection, MarksInv
      <4> QED BY <4>2, <4>3
    <3>3. ~visual'
      BY <1>1, <2>1 DEF PressSpace, ConfirmVisualSelection, EndVisual
    <3> QED BY <3>1, <3>2, <3>3 DEF PInv, MarksInv
  <2>2. CASE ~visual /\ HasRows
    <3>1. SyncedRow(row) \in Nat /\ SyncedRow(row) \in Rows /\ SyncedTop(row) \in Nat
      BY <1>0, <2>2, SyncedInPage, PageIsRows, SyncedTopIsNat DEF PaneTypes
    <3>2. PaneTypes'
      BY <1>0, <1>1, <2>2, <3>1 DEF PressSpace, ToggleSelectedRow, PaneTypes
    <3>3. Rows' = Rows /\ ~visual' /\ origin' = origin /\ marked' = Toggled(SyncedRow(row))
      BY <1>1, <2>2 DEF PressSpace, ToggleSelectedRow, Rows, HasRows
    <3>4. MarksInv'
      BY <1>0, <3>1, <3>3 DEF MarksInv, Toggled
    <3> QED BY <3>2, <3>4 DEF PInv
  <2>3. CASE ~visual /\ ~HasRows
    BY <1>0, <1>1, <2>3, CursorMoves DEF PressSpace, ToggleSelectedRow, PaneTypes
  <2> QED BY <2>1, <2>2, <2>3
<1>2. CASE Pressu \/ HelpClears
  <2>1. UNCHANGED <<result, page, row, anchor, top, visual, origin, terminal>> /\ marked' = {}
    BY <1>2 DEF Pressu, HelpClears
  <2> QED BY <1>0, <2>1 DEF PInv, PaneTypes, MarksInv, HasRows, Rows
<1>3. CASE PressV
  <2>1. UNCHANGED <<result, page, row, top, marked, terminal>> /\ HasRows' = HasRows /\ Rows' = Rows
    BY <1>3 DEF PressV, HasRows, Rows
  <2>2. CASE ~visual /\ HasRows
    <3>1. visual' /\ anchor' = row /\ origin' # "none"
      BY <1>3, <2>2 DEF PressV
    <3>2. ASSUME origin' # "astray" PROVE origin # "astray" /\ row \in Rows
      BY <1>0, <1>3, <2>2, <3>2, SyncedInPage, PageIsRows DEF PressV, ShownRow, PaneTypes
    <3> QED BY <1>0, <2>1, <2>2, <3>1, <3>2 DEF PInv, PaneTypes, MarksInv
  <2>3. CASE visual \/ ~HasRows
    <3>1. /\ origin' = origin /\ anchor' \in {anchor, 0}
          /\ visual' => visual /\ anchor' = anchor
      BY <1>3, <2>3 DEF PressV, EndVisual
    <3> QED BY <1>0, <2>1, <3>1 DEF PInv, PaneTypes, MarksInv
  <2> QED BY <2>2, <2>3
<1>4. CASE PressOther
  <2>1. CASE EndVisual
    BY <1>0, <1>4, <2>1 DEF PressOther, EndVisual, PInv, PaneTypes, MarksInv, HasRows, Rows
  <2>2. CASE UNCHANGED visualVars
    BY <1>0, <1>4, <2>2, PaneUntouched DEF PressOther
  <2> QED BY <1>4, <2>1, <2>2 DEF PressOther
<1>5. CASE HelpJumps
  BY <1>5, JumpsStay, CursorMoves DEF HelpJumps
<1>6. CASE PressCompose \/ HelpComposes
  BY <1>0, <1>6, PaneUntouched DEF PressCompose, HelpComposes
<1>7. CASE PressExport \/ WizardKey \/ CommandPaneKey \/ ArrangePanes \/ ToggleHelp
  BY <1>0, <1>7, PaneUntouched DEF PressExport, WizardKey, CommandPaneKey, ArrangePanes, ToggleHelp
<1> QED BY <1>1, <1>2, <1>3, <1>4, <1>5, <1>6, <1>7 DEF KeyStep

LEMMA ClickSteps ==
  ASSUME PInv, ClickStep
  PROVE  PInv'
<1> USE DEF resultVars, cursorVars, visualVars
<1>0. PaneTypes /\ MarksInv /\ terminal \in Terminals
  BY DEF PInv, PaneTypes
<1>1. CASE ClickCommand
  BY <1>0, <1>1, PaneUntouched DEF ClickCommand
<1>2. ASSUME NEW k \in NoRow .. PageSize, NEW second \in BOOLEAN, ClickResults(k, second)
      PROVE  PInv'
  <2>1. CASE Clicked(k) = NoRow
    BY <1>0, <1>2, <2>1, PaneUntouched DEF ClickResults
  <2>2. CASE Clicked(k) # NoRow
    <3>1. Clicked(k) \in Rows /\ Clicked(k) \in Nat
      BY <1>0, <2>2, ClickedInResult
    <3>2. /\ UNCHANGED <<result, page, top, anchor, visual, origin, terminal>>
          /\ row' = Clicked(k) /\ marked' \in {marked, Toggled(Clicked(k))}
      BY <1>2, <2>2 DEF ClickResults
    <3>3. HasRows' = HasRows /\ Rows' = Rows
      BY <3>2 DEF HasRows, Rows
    <3>4. PaneTypes'
      BY <1>0, <3>1, <3>2 DEF PaneTypes
    <3>5. MarksInv'
      BY <1>0, <3>1, <3>2, <3>3 DEF MarksInv, Toggled
    <3> QED BY <3>4, <3>5 DEF PInv
  <2> QED BY <2>1, <2>2
<1> QED BY <1>1, <1>2 DEF ClickStep

\* Results, errors, another Session, another size.
LEMMA EventSteps ==
  ASSUME PInv, EventStep
  PROVE  PInv'
<1> USE DEF resultVars, cursorVars, visualVars, screenVars, SetLatestResult
<1>0. PaneTypes /\ terminal \in Terminals
  BY DEF PInv, PaneTypes
<1>1. CASE ResultArrives
  BY <1>0, <1>1 DEF ResultArrives, Succeeded, ResultStep, PInv, PaneTypes, MarksInv
<1>2. CASE ResultFails
  BY <1>0, <1>2 DEF ResultFails, ResultStep, PInv, PaneTypes, MarksInv, HasRows
<1>3. CASE SessionReplaced
  BY <1>0, <1>3 DEF SessionReplaced, PInv, PaneTypes, MarksInv
<1>4. CASE Resize
  BY <1>4, PaneUntouched DEF Resize
<1> QED BY <1>1, <1>2, <1>3, <1>4 DEF EventStep

LEMMA PaneStep == PInv /\ [RNext]_rvars => PInv'
<1> SUFFICES ASSUME PInv, [RNext]_rvars PROVE PInv'
  OBVIOUS
<1>1. CASE UNCHANGED rvars
  BY <1>1, PaneUntouched DEF rvars, screenVars, PInv, PaneTypes
<1> QED BY <1>1, CursorSteps, KeySteps, ClickSteps, EventSteps DEF RNext

LEMMA PaneInvariant == RSpec => []PInv
BY PaneInit, PaneStep, PTL DEF RSpec

(*************************** the cursor's window **************************)

\* A pane that shows no cursor has it on the first row.
StartInv == ~active => row = 0

LEMMA StartStep == StartInv /\ [RNext]_rvars => StartInv'
<1> SUFFICES ASSUME StartInv, [RNext]_rvars PROVE StartInv'
  OBVIOUS
<1> USE DEF StartInv, cursorVars
<1>1. CASE CursorStep
  BY <1>1 DEF CursorStep, NavigateRow, NavigateColumn, Scroll, PressPage, ChangePage, Pressg, PressG, Wheel,
              MoveTo, JumpTop, JumpBottom
<1>2. CASE KeyStep
  BY <1>2 DEF KeyStep, PressSpace, ConfirmVisualSelection, ToggleSelectedRow, Pressu, PressV, PressOther,
              PressCompose, PressExport, WizardKey, CommandPaneKey, ArrangePanes, ToggleHelp, HelpClears,
              HelpJumps, HelpComposes, OnlyCompose, OnlyModals, JumpTop, JumpBottom, MoveTo, EndVisual
<1>3. CASE ClickStep
  BY <1>3 DEF ClickStep, ClickResults, ClickCommand
<1>4. CASE EventStep
  BY <1>4 DEF EventStep, ResultArrives, ResultFails, ResultStep, SessionReplaced, Resize
<1> QED BY <1>1, <1>2, <1>3, <1>4 DEF RNext, rvars

LEMMA StartInvariant == RSpec => []StartInv
<1>1. RInit => StartInv
  BY DEF RInit, StartInv
<1> QED BY <1>1, StartStep, PTL DEF RSpec

\* The size of the page and of the pane, and what the pane holds.
SameScreen == UNCHANGED <<result, page, terminal, layout>>

LEMMA SameArithmetic ==
  ASSUME SameScreen
  PROVE  /\ HasRows' = HasRows /\ First' = First /\ Last' = Last /\ PageRows' = PageRows
         /\ PaneLines' = PaneLines /\ Height' = Height /\ VisibleRows' = VisibleRows
BY DEF SameScreen, HasRows, First, Last, PageRows, ClampPage, LastPage, PaneLines, Height, VisibleRows

LEMMA PaneLinesIsInt ==
  ASSUME PaneTypes
  PROVE  PaneLines \in Int
<1>1. terminal \in Nat /\ SplitPercent \in Nat
  BY ResultsPaneAssumptions DEF PaneTypes
<1> DEFINE content == Greatest(2, terminal - 1)
<1>2. content \in Nat
  BY <1>1 DEF Greatest
<1>3. (content * SplitPercent) \div 100 \in Int
  BY <1>1, <1>2, Z3
<1> QED BY <1>1, <1>2, <1>3 DEF PaneLines, Greatest

\* The window the pane goes to holds the cursor, and the pane holds the window.
OnScreen ==
  PaneLines < MinHeight \/ PageRows <= ClipThreshold \/ ShownRow \in ShownRows

LEMMA InWindow ==
  ASSUME PaneTypes, HasRows, SameScreen, NEW r \in First .. Last, NEW w \in Nat,
         ShownRow' = r, PageRows > ClipThreshold => WindowStart(SyncedTop(row))' = w,
         w <= r - First, r - First < w + VisibleRows
  PROVE  OnScreen'
<1> SUFFICES ASSUME ~(PaneLines < MinHeight), ~(PageRows <= ClipThreshold)
             PROVE  ShownRow' \in ShownRows'
  BY SameArithmetic DEF OnScreen
<1>1. PaneLines \in Int /\ MinHeight \in Nat /\ MinHeight > 2 /\ ClipThreshold \in Nat
  BY PaneLinesIsInt, ResultsPaneAssumptions
<1>2. First \in Nat /\ Last \in Nat /\ PageRows \in Nat /\ VisibleRows \in Nat \ {0}
  BY PageInResult, WindowInPage
<1>3. Height = PaneLines
  BY <1>1 DEF Height, Greatest
<1>4. VisibleRows <= PaneLines - 2
  BY <1>1, <1>2, <1>3 DEF VisibleRows, Greatest, Least
<1>5. ShownFirst' = First + w
  BY <1>1, <1>2, SameArithmetic DEF ShownFirst
<1>6. ShownRows' = (First + w) .. Least(First + w + PaneLines - 3, Last)
  BY <1>5, SameArithmetic DEF ShownRows
<1>7. r >= First + w /\ r <= First + w + PaneLines - 3 /\ r <= Last
  BY <1>1, <1>2, <1>4
<1> QED BY <1>1, <1>2, <1>6, <1>7 DEF Least

\* scrolloffViewport returns a window of the page that has the row in it.
LEMMA ScrolledIntoView ==
  ASSUME PaneTypes, HasRows, NEW p \in 0 .. PageRows - 1, NEW vp \in Int
  PROVE  /\ ScrollOffViewport(p, vp) \in Nat /\ ScrollOffViewport(p, vp) <= p
         /\ p < ScrollOffViewport(p, vp) + VisibleRows
         /\ ScrollOffViewport(p, vp) + VisibleRows <= PageRows
<1> DEFINE so == Least(ScrollOff, VisibleRows \div 2)
<1>1. PageRows \in Nat /\ VisibleRows \in Nat \ {0} /\ VisibleRows <= PageRows
  BY PageInResult, WindowInPage
<1>2. VisibleRows \div 2 \in Nat /\ VisibleRows \div 2 < VisibleRows
  BY <1>1, Z3
<1>3. so \in Nat /\ so < VisibleRows
  BY <1>1, <1>2, ResultsPaneAssumptions DEF Least
<1>4. ScrollOffViewport(p, vp) =
        Greatest(0, Least(IF p < vp + so THEN p - so
                          ELSE IF p >= vp + VisibleRows - so THEN p + 1 - VisibleRows + so
                          ELSE vp, PageRows - VisibleRows))
  BY DEF ScrollOffViewport
<1> HIDE DEF so
<1> QED BY <1>1, <1>3, <1>4 DEF Greatest, Least

\* A window that fits the page is shown as it is stored.
LEMMA StoredWindowIsShown ==
  ASSUME PaneTypes, HasRows, SameScreen, active', NEW r \in First .. Last, row' = r,
         top' \in Nat, top' <= r - First, r - First < top' + VisibleRows,
         top' + VisibleRows <= PageRows
  PROVE  OnScreen'
<1>1. First \in Nat /\ Last \in Nat /\ PageRows \in Nat /\ VisibleRows \in Nat \ {0}
  BY PageInResult, WindowInPage
<1>2. ~OffPage(row)' /\ HasRows'
  BY <1>1, SameArithmetic DEF OffPage
<1>3. ShownRow' = r /\ SyncedTop(row)' = top'
  BY <1>2 DEF ShownRow, SyncedRow, SyncedTop
<1>4. PageRows > ClipThreshold => WindowStart(SyncedTop(row))' = top'
  <2>1. /\ PageRows' = PageRows /\ VisibleRows' = VisibleRows /\ ClipThreshold \in Nat
    BY <1>2, SameArithmetic, ResultsPaneAssumptions
  <2> DEFINE last == PageRows - VisibleRows
  <2>2. last \in Nat /\ top' <= last
    <3>1. \A a, b \in Nat, c \in Nat : c + b <= a => a - b \in Nat /\ c <= a - b
      OBVIOUS
    <3> QED BY <1>1, <3>1
  <2>3. PageRows > ClipThreshold => WindowStart(top)' = IF last <= 0 THEN 0 ELSE Between(0, top', last)
    BY <1>1, <2>1 DEF WindowStart
  <2> HIDE DEF last
  <2>4. PageRows > ClipThreshold => WindowStart(top)' = top'
    BY <2>2, <2>3 DEF Between, Greatest, Least
  <2> QED BY <1>3, <2>4 DEF WindowStart
<1> QED BY <1>3, <1>4, InWindow

LEMMA MoveIsShown ==
  ASSUME PaneTypes, HasRows, SameScreen, NEW r \in First .. Last, NEW vp \in Int, MoveTo(r, vp)
  PROVE  OnScreen'
<1>1. First \in Nat /\ Last \in Nat /\ PageRows = Last - First + 1
  BY PageInResult DEF PageRows
<1>2. r - First \in 0 .. PageRows - 1
  BY <1>1
<1>3. row' = r /\ top' = ScrollOffViewport(r - First, vp) /\ active'
  BY DEF MoveTo
<1> QED BY <1>2, <1>3, ScrolledIntoView, StoredWindowIsShown

LEMMA FirstRowIsShown ==
  ASSUME PaneTypes, HasRows, SameScreen, active', row' = First, top' = 0
  PROVE  OnScreen'
<1>1. /\ First \in Nat /\ Last \in Nat /\ First <= Last /\ VisibleRows \in Nat \ {0}
      /\ VisibleRows <= PageRows /\ PageRows \in Nat
  BY PageInResult, WindowInPage
<1> QED BY <1>1, StoredWindowIsShown

\* What stores the cursor as it is shown: on the page it is where it was.
LEMMA SyncIsShown ==
  ASSUME PaneTypes, HasRows, SameScreen, StartInv, active',
         row' = SyncedRow(row), top' = SyncedTop(row), cursorVars' # cursorVars
  PROVE  (~active /\ top # 0 /\ top' = top) \/ OnScreen'
<1>1. CASE OffPage(row)
  BY <1>1, FirstRowIsShown DEF SyncedRow, SyncedTop
<1>2. CASE ~OffPage(row)
  <2>1. row' = row /\ top' = top /\ ~active
    BY <1>2 DEF SyncedRow, SyncedTop, cursorVars
  <2>2. row = 0
    BY <2>1 DEF StartInv
  <2>3. First = 0
    BY <1>2, <2>2, PageInResult DEF OffPage
  <2> QED BY <2>1, <2>2, <2>3, FirstRowIsShown
<1> QED BY <1>1, <1>2

\* V brings the cursor up and stores neither row nor window.
LEMMA VisualIsShown ==
  ASSUME PaneTypes, HasRows, SameScreen, StartInv, active', ~active, UNCHANGED <<row, top>>
  PROVE  top # 0 \/ OnScreen'
<1> SUFFICES ASSUME top = 0 PROVE OnScreen'
  OBVIOUS
<1>1. row = 0 /\ row' = 0 /\ top' = 0
  BY DEF StartInv
<1>2. /\ First \in Nat /\ Last \in Nat /\ First <= Last /\ VisibleRows \in Nat \ {0}
      /\ VisibleRows <= PageRows /\ PageRows \in Nat
  BY PageInResult, WindowInPage
<1>3. ShownRow' = First /\ SyncedTop(row)' = 0
  BY <1>1, <1>2, SameArithmetic DEF ShownRow, SyncedRow, SyncedTop, OffPage
<1>4. WindowStart(SyncedTop(row))' = 0
  BY <1>1, <1>2, SameArithmetic, ResultsPaneAssumptions
     DEF SyncedTop, OffPage, WindowStart, Between, Greatest, Least
<1> QED BY <1>2, <1>3, <1>4, InWindow

\* A click lands on a row the window holds, and the window stays.
LEMMA ClickIsShown ==
  ASSUME PaneTypes, SameScreen, NEW k \in Int, Clicked(k) # NoRow, k <= PaneLines - 3,
         row' = Clicked(k), active', top' = top
  PROVE  (~active /\ top # 0) \/ OnScreen'
<1> SUFFICES ASSUME active \/ top = 0, PageRows > ClipThreshold PROVE OnScreen'
  BY PageInResult, SameArithmetic, ResultsPaneAssumptions DEF OnScreen, Clicked
<1>1. HasRows /\ k \in 0 .. WindowRows - 1 /\ row' = First + WindowStart(top) + k
  BY DEF Clicked, RowAtOffset
<1>2. /\ First \in Nat /\ Last \in Nat /\ PageRows \in Nat /\ PageRows = Last - First + 1
      /\ VisibleRows \in Nat \ {0} /\ VisibleRows <= PageRows /\ top \in Nat /\ ClipThreshold \in Nat
  BY <1>1, PageInResult, WindowInPage, ResultsPaneAssumptions DEF PageRows, PaneTypes
<1> DEFINE w == WindowStart(top)
<1>3. WindowRows = VisibleRows /\ w \in Nat /\ w + VisibleRows <= PageRows
  BY <1>2 DEF WindowRows, WindowStart, Between, Greatest, Least
<1>4. WindowStart(top)' = w
  BY <1>2, SameArithmetic DEF WindowStart, Between, Greatest, Least
<1> HIDE DEF w
<1>5. row' \in First .. Last /\ w <= row' - First /\ row' - First < w + VisibleRows
  BY <1>1, <1>2, <1>3 DEF w
<1>6. ~OffPage(row)' /\ HasRows'
  BY <1>1, <1>2, <1>5, SameArithmetic DEF OffPage
<1>7. ShownRow' = row' /\ SyncedTop(row)' = top'
  BY <1>6 DEF ShownRow, SyncedRow, SyncedTop
<1>8. WindowStart(SyncedTop(row))' = w
  BY <1>2, <1>3, <1>6, SameArithmetic DEF SyncedTop, WindowStart, Between, Greatest, Least, w
<1> QED BY <1>1, <1>3, <1>5, <1>7, <1>8, InWindow

\* What MovesKeepCursorOnScreen says of a step.
KeepsCursorOnScreen ==
  cursorVars' # cursorVars /\ HasRows' => (~active /\ top # 0 /\ top' = top) \/ OnScreen'

LEMMA JumpsShow ==
  ASSUME PaneTypes, SameScreen, JumpTop \/ JumpBottom
  PROVE  KeepsCursorOnScreen
<1>1. CASE ~HasRows
  BY <1>1, SameArithmetic DEF KeepsCursorOnScreen
<1>2. CASE HasRows
  <2>1. First \in Nat /\ Last \in Nat /\ First <= Last /\ SyncedTop(row) \in Int
    BY <1>2, PageInResult DEF SyncedTop, PaneTypes
  <2>2. CASE JumpTop
    BY <1>2, <2>2, FirstRowIsShown DEF JumpTop, KeepsCursorOnScreen
  <2>3. CASE JumpBottom
    BY <1>2, <2>1, <2>3, MoveIsShown DEF JumpBottom, KeepsCursorOnScreen
  <2> QED BY <2>2, <2>3
<1> QED BY <1>1, <1>2

LEMMA CursorStepsShow ==
  ASSUME PaneTypes, StartInv, CursorStep
  PROVE  KeepsCursorOnScreen
<1> USE DEF OnlyCursor, StillPane, resultVars, visualVars, screenVars
<1>1. CASE PressPage
  BY <1>1 DEF PressPage, ChangePage, KeepsCursorOnScreen
<1>2. CASE ~PressPage
  <2>0. SameScreen
    BY <1>2 DEF CursorStep, NavigateRow, NavigateColumn, Scroll, Pressg, PressG, Wheel, SameScreen
  <2>1. CASE ~HasRows
    BY <2>0, <2>1, SameArithmetic DEF KeepsCursorOnScreen
  <2>2. CASE HasRows
    <3>0. /\ First \in Nat /\ Last \in Nat /\ First <= Last /\ row \in Nat
          /\ SyncedRow(row) \in First .. Last /\ SyncedTop(row) \in Int
      BY <2>2, PageInResult, SyncedInPage DEF SyncedTop, PaneTypes
    <3>1. CASE NavigateRow
      <4>1. PICK delta \in {-1, 1} : MoveTo(Between(First, SyncedRow(row) + delta, Last), SyncedTop(row))
        BY <2>2, <3>1 DEF NavigateRow
      <4>2. Between(First, SyncedRow(row) + delta, Last) \in First .. Last
        BY <3>0 DEF Between, Greatest, Least
      <4> QED BY <2>0, <2>2, <3>0, <4>1, <4>2, MoveIsShown DEF KeepsCursorOnScreen
    <3>2. CASE NavigateColumn
      BY <2>0, <2>2, <3>2, SyncIsShown DEF NavigateColumn, KeepsCursorOnScreen
    <3>3. CASE Scroll
      <4> DEFINE amount == Greatest(1, Height \div 2)
      <4>1. \/ MoveTo(Least(SyncedRow(row) + amount, Last), SyncedTop(row) + amount)
            \/ MoveTo(Greatest(SyncedRow(row) - amount, First), SyncedTop(row) - amount)
        BY <2>2, <3>3 DEF Scroll
      <4>2. amount \in Nat
        BY HeightIsInt DEF Greatest
      <4> HIDE DEF amount
      <4>3. /\ Least(SyncedRow(row) + amount, Last) \in First .. Last
            /\ Greatest(SyncedRow(row) - amount, First) \in First .. Last
            /\ SyncedTop(row) + amount \in Int /\ SyncedTop(row) - amount \in Int
        BY <3>0, <4>2 DEF Greatest, Least
      <4> QED BY <2>0, <2>2, <4>1, <4>3, MoveIsShown DEF KeepsCursorOnScreen
    <3>4. CASE Pressg
      BY <2>0, <3>4, JumpsShow DEF Pressg, KeepsCursorOnScreen
    <3>5. CASE PressG
      BY <2>0, <3>5, JumpsShow DEF PressG
    <3>6. CASE Wheel
      <4>1. PICK r \in Nat : MoveTo(SyncedRow(r), SyncedTop(r))
        <5>1. WheelStep \in Nat
          BY ResultsPaneAssumptions
        <5>2. Greatest(First, row - WheelStep) \in Nat /\ Least(Last, row + WheelStep) \in Nat
          BY <3>0, <5>1 DEF Greatest, Least
        <5> QED BY <3>6, <5>2 DEF Wheel
      <4>2. SyncedRow(r) \in First .. Last /\ SyncedTop(r) \in Int
        BY <2>2, SyncedInPage DEF SyncedTop, PaneTypes
      <4> QED BY <2>0, <2>2, <4>1, <4>2, MoveIsShown DEF KeepsCursorOnScreen
    <3> QED BY <1>2, <3>1, <3>2, <3>3, <3>4, <3>5, <3>6 DEF CursorStep
  <2> QED BY <2>1, <2>2
<1> QED BY <1>1, <1>2

LEMMA OtherStepsShow ==
  ASSUME PaneTypes, StartInv, KeyStep \/ ClickStep \/ EventStep
  PROVE  KeepsCursorOnScreen
<1> USE DEF OnlyMarks, OnlyCompose, OnlyModals, StillPane, resultVars, visualVars, screenVars
<1>0. CASE UNCHANGED cursorVars
  BY <1>0 DEF KeepsCursorOnScreen
<1>1. CASE PressSpace
  <2>1. CASE visual
    BY <1>0, <1>1, <2>1 DEF PressSpace, ConfirmVisualSelection
  <2>2. CASE ~visual
    <3>1. SameScreen /\ ToggleSelectedRow
      BY <1>1, <2>2 DEF PressSpace, SameScreen
    <3>2. CASE HasRows
      BY <3>1, <3>2, SyncIsShown DEF ToggleSelectedRow, KeepsCursorOnScreen
    <3>3. CASE ~HasRows
      BY <3>1, <3>3, SameArithmetic DEF KeepsCursorOnScreen
    <3> QED BY <3>2, <3>3
  <2> QED BY <2>1, <2>2
<1>2. CASE PressV
  <2>1. SameScreen /\ UNCHANGED <<row, top>>
    BY <1>2 DEF PressV, SameScreen
  <2>2. CASE active' = active
    BY <1>0, <2>1, <2>2 DEF cursorVars
  <2>3. CASE active' # active
    <3>1. HasRows /\ active' = TRUE
      BY <1>2, <2>3 DEF PressV
    <3>2. ~active
      BY <2>3, <3>1
    <3> QED BY <2>1, <3>1, <3>2, VisualIsShown DEF KeepsCursorOnScreen
  <2> QED BY <2>2, <2>3
<1>3. CASE HelpJumps
  <2>1. SameScreen
    BY <1>3 DEF HelpJumps, SameScreen
  <2> QED BY <1>3, <2>1, JumpsShow DEF HelpJumps
<1>4. ASSUME NEW k \in NoRow .. PageSize, NEW second \in BOOLEAN, ClickResults(k, second)
      PROVE  KeepsCursorOnScreen
  <2>1. CASE Clicked(k) = NoRow
    BY <1>0, <1>4, <2>1 DEF ClickResults
  <2>2. CASE Clicked(k) # NoRow
    <3>1. k \in Int
      BY DEF NoRow
    <3>2. k # NoRow
      BY <2>2, <3>1 DEF Clicked, NoRow
    <3>3. /\ SameScreen /\ k <= PaneLines - 3 /\ row' = Clicked(k) /\ active' /\ top' = top
      BY <1>4, <2>2, <3>2, PaneLinesIsInt DEF ClickResults, FocusResults, OverResults, SameScreen
    <3> QED BY <2>2, <3>1, <3>3, ClickIsShown DEF KeepsCursorOnScreen
  <2> QED BY <2>1, <2>2
<1>5. CASE SessionReplaced
  BY <1>5 DEF SessionReplaced, SetLatestResult, HasRows, KeepsCursorOnScreen
<1>6. CASE Pressu \/ PressOther \/ PressCompose \/ PressExport \/ WizardKey \/ CommandPaneKey \/ ArrangePanes
  BY <1>0, <1>6 DEF Pressu, PressOther, PressCompose, PressExport, WizardKey, CommandPaneKey, ArrangePanes
<1>7. CASE ToggleHelp \/ HelpClears \/ HelpComposes \/ ClickCommand \/ ResultArrives \/ ResultFails \/ Resize
  BY <1>0, <1>7 DEF ToggleHelp, HelpClears, HelpComposes, ClickCommand, ResultArrives, ResultFails, ResultStep,
                    Resize
<1> QED BY <1>1, <1>2, <1>3, <1>4, <1>5, <1>6, <1>7 DEF KeyStep, ClickStep, EventStep

(******************************** theorems ********************************)

\* Whatever key, click or wheel moves the cursor leaves it in the window and the window in the pane,
\* for pages and terminals of any size (scrolloffViewport, resultsPaneVisibleRowWindow, syncPaneSizes),
\* but for a click on a pane that shows no cursor and keeps an older window.
THEOREM CursorStaysOnScreen == RSpec => MovesKeepCursorOnScreen
<1> DEFINE Kept == cursorVars' # cursorVars /\ HasRows'
                     => \/ PaneLines' < MinHeight \/ PageRows' <= ClipThreshold
                        \/ ~active /\ top # 0 /\ top' = top
                        \/ ShownRow' \in ShownRows'
<1>1. PInv /\ StartInv /\ [RNext]_rvars => [Kept]_rvars
  BY CursorStepsShow, OtherStepsShow DEF KeepsCursorOnScreen, OnScreen, RNext, PInv
<1>2. RSpec => [][Kept]_rvars
  BY <1>1, PaneInvariant, StartInvariant, PTL DEF RSpec
<1> QED BY <1>2 DEF MovesKeepCursorOnScreen

\* Marks are rows of the Result Set that is shown, whatever its size, as long as V was not pressed
\* on a cursor that was not the row shown (ConfirmVisualSelection, SetLatestResultContext).
THEOREM MarksStayInResult == RSpec => []MarksAreRows
<1>1. PInv => MarksAreRows
  BY DEF PInv, MarksInv, MarksAreRows
<1> QED BY <1>1, PaneInvariant, PTL

\* Visual Mode never outlives the Result Set it was entered in into another one
\* (handleStatementExecuted, resetPanesToInit).
THEOREM VisualModeEndsWithResult == RSpec => []VisualModeOfThisResult
<1>1. PInv => VisualModeOfThisResult
  BY DEF PInv, MarksInv, VisualModeOfThisResult, HasRows
<1> QED BY <1>1, PaneInvariant, PTL

==============================================================================
