----------------------------- MODULE ResultsPane -----------------------------
(***************************************************************************)
(* The Results Pane: the Row Cursor, pages, the scroll window, Visual Mode *)
(* and Marked Rows, what is composed and exported from them, and the       *)
(* events that replace the Result Set, the layout or the size under it     *)
(* (internal/app/results_pane_mode.go, the pane's handlers in model.go and *)
(* mouse.go, results_pane_export.go, export_wizard_modal.go, and the page  *)
(* and window arithmetic of internal/tui/results_pane.go).                 *)
(*                                                                         *)
(* Rows are counted from 0 in the Result Set, as in the code.  View works  *)
(* on a copy of the pane: what it clamps is shown and not stored, so what  *)
(* the user sees (ShownRow, ShownFirst) and what is stored (row, top) are  *)
(* two things here too.  Columns move sideways only and are left out.      *)
(***************************************************************************)
EXTENDS Integers, Sequences, FiniteSets

CONSTANTS
  PageSize,       \* tui.ResultsPanePageSize
  ScrollOff,      \* tui.ResultsPaneScrollOff
  ClipThreshold,  \* resultsPaneViewportClipThreshold
  WheelStep,      \* mouseWheelRowStep
  MinHeight,      \* minimumResultsPaneHeight
  SplitPercent,   \* splitRatio, in percent
  Terminals,      \* heights the terminal may have
  RowCounts,      \* sizes of the Result Sets
  Statements,     \* what can be composed: INSERT, UPDATE, DELETE
  Offered,        \* what the rows of some Result Set can compose (StatementExpansion)
  NoResult        \* LatestResult, or its PreservedResult, is nil

ASSUME ResultsPaneAssumptions ==
  /\ {PageSize, WheelStep, MinHeight} \subseteq Nat \ {0}
  /\ {ScrollOff, ClipThreshold, SplitPercent} \subseteq Nat
  /\ MinHeight > 2
  /\ Terminals \subseteq Nat
  /\ RowCounts \subseteq Nat
  /\ NoResult \notin RowCounts
  /\ Offered \subseteq SUBSET Statements
  /\ Statements \cap {"none", "goto_top", "export"} = {}

VARIABLES
  result,     \* LatestResult: its number of rows
  composes,   \* what can be composed from its rows
  page,       \* ResultsPanePage
  marked,     \* MarkedRows
  row,        \* selectedRow
  top,        \* viewportStart, counted from the page's first row
  active,     \* selectionActive
  visual,     \* visualMode
  anchor,     \* visualAnchor; 0 when not in Visual Mode
  pending,    \* pendingAction
  terminal,   \* height of the terminal
  layout,     \* Layout
  pane,       \* ActivePane
  modals,     \* the modal stack: the Export Wizard, the Keybindings modal
  out,        \* what this step composed or exported (history)
  origin      \* how V was pressed in this Result Set (history): not, at the row shown, or astray

resultVars == <<result, composes>>
cursorVars == <<row, top, active>>
visualVars == <<visual, anchor, origin>>
screenVars == <<terminal, layout, pane>>
rvars == <<resultVars, page, marked, cursorVars, visualVars, pending, screenVars, modals, out>>

(****************************** arithmetic ********************************)

Least(a, b) == IF a < b THEN a ELSE b
Greatest(a, b) == IF a < b THEN b ELSE a
Between(a, x, b) == Greatest(a, Least(x, b))

HasRows == result # NoResult /\ result > 0
Rows == IF HasRows THEN 0 .. result - 1 ELSE {}

LastPage(n) == IF n <= 0 THEN 0 ELSE (n - 1) \div PageSize
ClampPage(p) == IF result = NoResult THEN 0 ELSE Between(0, p, LastPage(result))

\* syncPaneSizes: the lines inside the pane's border; SetSize stores at least MinHeight.
PaneLines ==
  LET content == Greatest(2, terminal - 1)
      outer == Greatest(3, (content * SplitPercent) \div 100)
      command == Greatest(3, content - outer)
      fitted == IF outer + command > content THEN content - command ELSE outer
  IN IF layout = "split" THEN Greatest(0, fitted - 2) ELSE content - 2
Height == Greatest(MinHeight, PaneLines)

\* The page shown, for a Result Set with rows: its first and last row, its size.
First == ClampPage(page) * PageSize
Last == Least(First + PageSize, result) - 1
PageRows == Last - First + 1
VisibleRows == Greatest(1, Least(Height - 2, PageRows))

\* scrolloffViewport: the window that keeps the cursor away from its edges.
ScrollOffViewport(pageRow, vp) ==
  LET visible == VisibleRows
      so == Least(ScrollOff, visible \div 2)
      moved == IF pageRow < vp + so THEN pageRow - so
               ELSE IF pageRow >= vp + visible - so THEN pageRow + 1 - visible + so
               ELSE vp
  IN Greatest(0, Least(moved, PageRows - visible))

\* Variant: the window stays when the cursor is brought back.
SyncedTopKept(r) == top

\* syncSelection brings the cursor back onto the page, and the window with it.
OffPage(r) == r < First \/ r > Last
SyncedRow(r) == IF OffPage(r) THEN First ELSE r

SyncedTop(r) == IF OffPage(r) THEN 0 ELSE top

\* What View shows: the highlighted row, and the rows the window and the pane hold.
ShownRow == IF HasRows THEN SyncedRow(row) ELSE 0
WindowStart(vp) ==
  LET last == PageRows - VisibleRows
  IN IF ~active \/ last <= 0 \/ PageRows <= ClipThreshold THEN 0 ELSE Between(0, vp, last)
WindowRows == IF PageRows <= ClipThreshold THEN PageRows ELSE VisibleRows
ShownFirst == First + WindowStart(SyncedTop(row))
ShownRows == LET from == ShownFirst IN from .. Least(from + PaneLines - 3, Last)
RowAtOffset(k) == First + WindowStart(top) + k

(*************************** states and types *****************************)

Stacks == {<<>>, <<"export">>, <<"help">>, <<"export", "help">>}
MaxRow == CHOOSE n \in RowCounts : \A m \in RowCounts : m <= n
RowIndices == 0 .. MaxRow
NoRow == -1
Silent == [kind |-> "none", rows |-> {}]

\* The type of every variable of ResultsPane.  The cursor and the window never leave
\* the rows a Result Set may have, however stale they are.
RTypeOK ==
  /\ result \in RowCounts \cup {NoResult}
  /\ composes \in Offered \cup {{}}
  /\ page \in 0 .. LastPage(MaxRow)
  /\ marked \subseteq RowIndices
  /\ row \in RowIndices /\ anchor \in RowIndices
  /\ top \in 0 .. PageSize
  /\ {active, visual} \subseteq BOOLEAN
  /\ origin \in {"none", "shown", "astray"}
  /\ pending \in {"none", "goto_top"} \cup Statements
  /\ terminal \in Terminals
  /\ layout \in {"command", "split", "results"}
  /\ pane \in {"command", "results"}
  /\ modals \in Stacks
  /\ out \in [kind : {"none", "export"} \cup Statements, rows : SUBSET RowIndices]

RInit ==
  /\ result = NoResult /\ composes = {}
  /\ page = 0 /\ marked = {}
  /\ row = 0 /\ top = 0 /\ active = FALSE
  /\ visual = FALSE /\ anchor = 0 /\ origin = "none"
  /\ pending = "none"
  /\ terminal \in Terminals
  /\ layout = "split"
  /\ pane = "command"
  /\ modals = <<>>
  /\ out = Silent

Quiet == out' = Silent
TopModal == IF modals = <<>> THEN "none" ELSE modals[Len(modals)]
Pop(stack) == IF stack = <<>> THEN stack ELSE SubSeq(stack, 1, Len(stack) - 1)

(************************* the cursor and the window **********************)

\* A key reaches the pane; every key of the pane ends the pending action it does not continue.
PaneKey == modals = <<>> /\ pane = "results"
StillPane == UNCHANGED <<screenVars, modals>>
OnlyCursor == UNCHANGED <<resultVars, page, marked, visualVars>> /\ StillPane /\ Quiet

MoveTo(r, vp) == row' = r /\ top' = ScrollOffViewport(r - First, vp) /\ active' = TRUE

\* Navigate up or down; SetResultsPanePage changes nothing, the page is valid.
NavigateRow ==
  /\ PaneKey
  /\ pending' = "none"
  /\ IF HasRows
     THEN \E delta \in {-1, 1} :
            MoveTo(Between(First, SyncedRow(row) + delta, Last), SyncedTop(row))
     ELSE row' = 0 /\ active' = FALSE /\ UNCHANGED top
  /\ OnlyCursor

\* Navigate left or right: the cursor is brought onto the page, the window is not moved.
NavigateColumn ==
  /\ PaneKey
  /\ pending' = "none"
  /\ IF HasRows
     THEN row' = SyncedRow(row) /\ top' = SyncedTop(row) /\ active' = TRUE
     ELSE row' = 0 /\ active' = FALSE /\ UNCHANGED top
  /\ OnlyCursor

\* ctrl+u and ctrl+d: cursor and window move together by half the pane.
Scroll ==
  /\ PaneKey
  /\ pending' = "none"
  /\ IF HasRows
     THEN LET amount == Greatest(1, Height \div 2)
          IN \/ MoveTo(Least(SyncedRow(row) + amount, Last), SyncedTop(row) + amount)
             \/ MoveTo(Greatest(SyncedRow(row) - amount, First), SyncedTop(row) - amount)
     ELSE UNCHANGED cursorVars
  /\ OnlyCursor

\* ctrl+p and ctrl+n change the page and leave the cursor where it was.
ChangePage(delta) == page' = ClampPage(page + delta) /\ UNCHANGED cursorVars

PressPage ==
  /\ PaneKey
  /\ pending' = "none"
  /\ IF result = NoResult THEN UNCHANGED <<page, cursorVars>> ELSE \E delta \in {-1, 1} : ChangePage(delta)
  /\ UNCHANGED <<resultVars, marked, visualVars>> /\ StillPane /\ Quiet

JumpTop ==
  IF HasRows THEN row' = First /\ top' = 0 /\ active' = TRUE ELSE UNCHANGED cursorVars
JumpBottom ==
  IF HasRows THEN MoveTo(Last, SyncedTop(row)) ELSE UNCHANGED cursorVars

PressG ==
  /\ PaneKey
  /\ pending' = "none"
  /\ JumpBottom
  /\ OnlyCursor

\* The first g waits for the second.
Pressg ==
  /\ PaneKey
  /\ IF pending = "goto_top"
     THEN pending' = "none" /\ JumpTop
     ELSE pending' = "goto_top" /\ UNCHANGED cursorVars
  /\ OnlyCursor

(************************** marks and Visual Mode *************************)

OnlyMarks == UNCHANGED <<resultVars, page>> /\ StillPane /\ Quiet
EndVisual == visual' = FALSE /\ anchor' = 0 /\ UNCHANGED origin
Toggled(r) == IF r \in marked THEN marked \ {r} ELSE marked \cup {r}

\* ToggleSelectedRow stores the cursor as it is shown and marks that row.
ToggleSelectedRow ==
  IF HasRows
  THEN /\ row' = SyncedRow(row) /\ top' = SyncedTop(row) /\ active' = TRUE
       /\ marked' = Toggled(SyncedRow(row))
  ELSE row' = 0 /\ active' = FALSE /\ UNCHANGED <<top, marked>>

\* ConfirmVisualSelection adds the range between the anchor and the stored cursor.
ConfirmVisualSelection ==
  /\ marked' = IF result = NoResult THEN marked
               ELSE marked \cup (Least(anchor, row) .. Greatest(anchor, row))
  /\ EndVisual
  /\ UNCHANGED cursorVars

PressSpace ==
  /\ PaneKey
  /\ pending' = "none"
  /\ IF visual THEN ConfirmVisualSelection ELSE ToggleSelectedRow /\ UNCHANGED visualVars
  /\ OnlyMarks

Pressu ==
  /\ PaneKey
  /\ pending' = "none"
  /\ marked' = {}
  /\ UNCHANGED <<cursorVars, visualVars>> /\ OnlyMarks

\* V enters Visual Mode at the stored cursor, or leaves it.
PressV ==
  /\ PaneKey
  /\ pending' = "none"
  /\ IF visual THEN EndVisual /\ UNCHANGED active
     ELSE IF ~HasRows THEN UNCHANGED <<visualVars, active>>
     ELSE /\ visual' = TRUE /\ anchor' = row /\ active' = TRUE
          /\ origin' = IF origin = "astray" \/ row # ShownRow THEN "astray" ELSE "shown"
  /\ UNCHANGED <<row, top, marked>> /\ OnlyMarks

\* Esc leaves Visual Mode; Esc and the keys of no other action end the pending action.
PressOther ==
  /\ PaneKey
  /\ pending' = "none"
  /\ EndVisual \/ UNCHANGED visualVars
  /\ UNCHANGED <<cursorVars, marked>> /\ OnlyMarks

(*************************** composing Statements *************************)

LayoutFor(from) ==
  IF layout = "split" THEN "split"
  ELSE IF layout = "results" \/ from = "results" THEN "command" ELSE "results"

\* The rows a composition is about; it fails when one of them cannot be composed.
ComposedRows == IF marked # {} THEN marked ELSE {row}
Composable(statement) == HasRows /\ statement \in composes /\ ComposedRows \subseteq Rows

\* applyComposition closes a modal of the stack and gives the keyboard to the Command Pane.
Compose(statement, stack) ==
  IF Composable(statement)
  THEN /\ out' = [kind |-> statement, rows |-> ComposedRows]
       /\ modals' = Pop(stack)
       /\ layout' = LayoutFor("results")
       /\ pane' = "command"
  ELSE Quiet /\ modals' = stack /\ UNCHANGED <<layout, pane>>
OnlyCompose == UNCHANGED <<resultVars, page, marked, cursorVars, visualVars, terminal>>

\* yy, cc, dd: refused in Visual Mode, the first press waits for the second.
PressCompose ==
  /\ PaneKey
  /\ \E statement \in Statements :
       IF visual THEN pending' = "none" /\ Quiet /\ UNCHANGED <<modals, layout, pane>>
       ELSE IF pending = statement THEN pending' = "none" /\ Compose(statement, modals)
       ELSE pending' = statement /\ Quiet /\ UNCHANGED <<modals, layout, pane>>
  /\ OnlyCompose

(***************************** Export Wizard ******************************)

OnlyModals == UNCHANGED <<resultVars, page, marked, cursorVars, visualVars, screenVars>>

\* ctrl+e; it is no key of the pane for the pending action.
PressExport ==
  /\ PaneKey
  /\ HasRows
  /\ modals' = <<"export">>
  /\ OnlyModals /\ UNCHANGED pending /\ Quiet

\* selectedRowsForExport: marks out of range are skipped, and no mark means every row.
ExportedRows == IF marked \cap Rows = {} THEN Rows ELSE marked \cap Rows

\* The last key of the wizard: the path is confirmed and the file or the clipboard is
\* written or fails, or the wizard is left.
WizardKey ==
  /\ TopModal = "export"
  /\ modals' = Pop(modals)
  /\ \/ Quiet
     \/ HasRows /\ out' = [kind |-> "export", rows |-> ExportedRows]
  /\ OnlyModals /\ UNCHANGED pending

(************************** intents and the Help **************************)

\* An intent is delivered at once here; Switching keeps such messages in the mail.
FocusResults ==
  /\ modals' = Pop(modals)
  /\ layout' = IF layout = "command" THEN "split" ELSE layout
  /\ pane' = "results"
FocusCommand ==
  /\ modals' = Pop(modals)
  /\ layout' = IF layout = "results" THEN "split" ELSE layout
  /\ pane' = "command"

\* applyModeSwitch: to the Results Pane alone only when there is something to show.
SwitchPane ==
  IF pane = "results"
  THEN modals' = Pop(modals) /\ layout' = LayoutFor(pane) /\ pane' = "command"
  ELSE IF result = NoResult /\ LayoutFor(pane) # "split" THEN UNCHANGED <<modals, layout, pane>>
  ELSE modals' = Pop(modals) /\ layout' = LayoutFor(pane) /\ pane' = "results"

\* handleToggleZoom: the focused pane alone, or both.
ToggleZoom ==
  /\ layout' = IF layout # "split" THEN "split" ELSE pane
  /\ UNCHANGED <<pane, modals>>

ArrangePanes ==
  /\ TopModal \in {"none", "help"}
  /\ pending' = IF modals = <<>> THEN "none" ELSE pending
  /\ SwitchPane \/ ToggleZoom \/ FocusResults \/ FocusCommand
  /\ UNCHANGED <<resultVars, page, marked, cursorVars, visualVars, terminal>> /\ Quiet

ToggleHelp ==
  /\ modals' = IF TopModal = "help" THEN Pop(modals) ELSE Append(modals, "help")
  /\ pending' = IF modals = <<>> THEN "none" ELSE pending
  /\ OnlyModals /\ Quiet

\* A row of the Keybindings modal is run: the modal is closed, and the pane's handler is
\* called whatever its mode.
HelpClears ==
  /\ TopModal = "help" /\ modals' = Pop(modals)
  /\ marked' = {}
  /\ UNCHANGED <<resultVars, page, cursorVars, visualVars, pending, screenVars>> /\ Quiet
HelpJumps ==
  /\ TopModal = "help" /\ modals' = Pop(modals)
  /\ JumpTop \/ JumpBottom
  /\ pending' = "none"
  /\ UNCHANGED <<resultVars, page, marked, visualVars, screenVars>> /\ Quiet
HelpComposes ==
  /\ TopModal = "help"
  /\ \E statement \in Statements : Compose(statement, Pop(modals))
  /\ pending' = "none"
  /\ OnlyCompose

\* A key of the Command Pane.
CommandPaneKey ==
  /\ modals = <<>> /\ pane = "command"
  /\ pending' = "none"
  /\ UNCHANGED <<resultVars, page, marked, cursorVars, visualVars, screenVars, modals>> /\ Quiet

(********************************* mouse **********************************)

OverResults == modals = <<>> /\ layout # "command"
OverCommand == modals = <<>> /\ layout # "results"

\* The row of the window at an offset from its first line, read before any clamping.
Clicked(k) == IF HasRows /\ k \in 0 .. WindowRows - 1 THEN RowAtOffset(k) ELSE NoRow

\* A click may come in time after another on the same row, and then toggles its mark.
ClickResults(k, second) ==
  LET r == Clicked(k) IN
  /\ OverResults
  /\ k \in 0 .. PaneLines - 3 \/ k = NoRow
  /\ FocusResults
  /\ second => r # NoRow
  /\ IF r = NoRow THEN UNCHANGED <<cursorVars, marked>>
     ELSE /\ row' = r /\ active' = TRUE /\ UNCHANGED top
          /\ marked' = IF second THEN Toggled(r) ELSE marked
  /\ UNCHANGED <<resultVars, page, visualVars, pending, terminal>> /\ Quiet

ClickCommand ==
  /\ OverCommand
  /\ FocusCommand
  /\ UNCHANGED <<resultVars, page, marked, cursorVars, visualVars, pending, terminal>> /\ Quiet

\* The wheel moves the stored cursor first and brings it onto the page afterwards.
Wheel ==
  /\ OverResults /\ HasRows
  /\ LET Moved(r) == MoveTo(SyncedRow(r), SyncedTop(r))
     IN Moved(Greatest(First, row - WheelStep)) \/ Moved(Least(Last, row + WheelStep))
  /\ UNCHANGED pending /\ OnlyCursor

(*************************** what is under the pane ***********************)

\* SetLatestResultContext: first page, no marks; the cursor stays.
SetLatestResult(n) ==
  /\ result' = n
  /\ composes' \in IF n = NoResult \/ n = 0 THEN {{}} ELSE Offered
  /\ page' = 0 /\ marked' = {}
ResultStep == UNCHANGED <<cursorVars, pending, screenVars>> /\ Quiet

\* Variant: Visual Mode is left as it is.
SucceededKeepsVisual(n) == SetLatestResult(n) /\ UNCHANGED <<visual, anchor>> /\ origin' = "none"
\* Variant: the marks are left as they are.
SucceededKeepsMarks(n) ==
  /\ result' = n /\ composes' \in Offered /\ page' = 0
  /\ visual' = FALSE /\ anchor' = 0 /\ origin' = "none" /\ UNCHANGED marked

\* A Statement or a slash command succeeded with a Result Set, or without one.
Succeeded(n) == SetLatestResult(n) /\ visual' = FALSE /\ anchor' = 0 /\ origin' = "none"

ResultArrives ==
  /\ \E n \in RowCounts \cup {NoResult} : Succeeded(n)
  /\ UNCHANGED modals /\ ResultStep

\* A failure takes the Result Set away and leaves Visual Mode; a slash command's also closes a modal.
ResultFails ==
  /\ SetLatestResult(NoResult)
  /\ origin' = "none" /\ UNCHANGED <<visual, anchor>>
  /\ modals' \in {modals, Pop(modals)}
  /\ ResultStep

\* resetPanesToInit.
SessionReplaced ==
  /\ SetLatestResult(NoResult)
  /\ row' = 0 /\ top' = 0 /\ active' = FALSE
  /\ visual' = FALSE /\ anchor' = 0 /\ origin' = "none"
  /\ pending' = "none"
  /\ layout' = "split" /\ pane' = "command"
  /\ UNCHANGED <<terminal, modals>> /\ Quiet

Resize ==
  /\ terminal' \in Terminals
  /\ UNCHANGED <<resultVars, page, marked, cursorVars, visualVars, pending, layout, pane, modals>> /\ Quiet

(****************************** specification *****************************)

CursorStep == NavigateRow \/ NavigateColumn \/ Scroll \/ PressPage \/ Pressg \/ PressG \/ Wheel

KeyStep ==
  \/ PressSpace \/ Pressu \/ PressV \/ PressOther \/ PressCompose \/ PressExport \/ WizardKey
  \/ CommandPaneKey \/ ArrangePanes \/ ToggleHelp \/ HelpClears \/ HelpJumps \/ HelpComposes

ClickStep ==
  \/ \E k \in NoRow .. PageSize, second \in BOOLEAN : ClickResults(k, second)
  \/ ClickCommand

EventStep == ResultArrives \/ ResultFails \/ SessionReplaced \/ Resize

RNext == CursorStep \/ KeyStep \/ ClickStep \/ EventStep

RSpec == RInit /\ [][RNext]_rvars

(******************************* properties *******************************)

\* While a Result Set with rows is shown, Visual Mode was entered in it: a Result Set
\* that replaces another, directly or after errors, never inherits a range
\* (model.go:805 and 843).
VisualModeOfThisResult == visual /\ HasRows => origin # "none"

\* Marked Rows are rows of the Result Set, through replacements, errors and ranges that
\* span pages, unless V was pressed in this Result Set while the stored cursor was not
\* the row the pane showed (results_pane_mode.go:309).
MarksAreRows == origin = "astray" \/ marked \subseteq Rows

\* A step that moves the cursor, or brings it up, leaves the highlighted row on the screen,
\* whatever pages, sizes and Result Sets came before, in a pane that is as high as it takes
\* itself to be (results_pane_mode.go:77), except on a page short enough to be rendered whole
\* (results_pane.go:292), which the pane may cut off, and unless the pane showed no cursor and
\* has kept the window of an earlier Result Set (mouse.go:142 and results_pane_mode.go:302).
MovesKeepCursorOnScreen ==
  [][cursorVars' # cursorVars /\ HasRows'
       => \/ PaneLines' < MinHeight \/ PageRows' <= ClipThreshold
          \/ ~active /\ top # 0 /\ top' = top
          \/ ShownRow' \in ShownRows']_rvars

\* A composition is about the marked rows or, without marks, the row the pane highlights.
\* CONTEXT.md:62 "The single highlighted row in the Results Pane that is currently active
\* for navigation and single-row actions".
ComposesWhatIsHighlighted ==
  [][out'.kind \in Statements /\ active
       => out'.rows = IF marked # {} THEN marked ELSE {ShownRow}]_rvars

=============================================================================
