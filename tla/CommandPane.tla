---------------------------- MODULE CommandPane ----------------------------
(***************************************************************************)
(* The editor of the Command Pane: its buffer, the suggestion menu and the *)
(* cycling through it, History navigation with its draft, the scrolled     *)
(* transcript, and everything that writes into the editor from outside     *)
(* (internal/app/command_mode.go, sql_input.go, internal/tui/editor_       *)
(* widget.go and the handlers of model.go that set or clear the editor).   *)
(*                                                                         *)
(* A text is a sequence of words; a completion replaces the word before    *)
(* the cursor by one or more words.  A newline is a word, so that lines    *)
(* and rows can be counted; no line is long enough to wrap.  What the      *)
(* journal and the Adapter do is in Execution: here a Statement runs, and  *)
(* its answer arrives.  Keys are those pressed with the pane in focus and  *)
(* no modal open; an intent is handled at once.                            *)
(***************************************************************************)
EXTENDS Integers, Sequences, FiniteSets, SequencesExt

CONSTANTS
  Typed,        \* words that may be typed or pasted
  Newline, Semicolon, Slash,
  Offers,       \* by what suggestions are made from: what each word before the cursor, taken
                \* with what precedes it on its line as one, is completed to
  BareCatalog,  \* keywords and Slash Commands alone: no Schema, no Result Set
  Arriving,     \* texts that are put into the editor from outside
  Heights,      \* inner heights of the pane
  None,
  MaxWords,     \* bound: words typed into a text
  MaxHistory,   \* bound: entries of History
  MaxTranscript \* bound: rows of the transcript

ASSUME CommandPaneAssumptions ==
  /\ Heights \subseteq Nat \ {0}
  /\ {MaxWords, MaxHistory, MaxTranscript} \subseteq Nat
  /\ BareCatalog \in DOMAIN Offers
  /\ \A c \in DOMAIN Offers : \A w \in DOMAIN Offers[c] :
       /\ Offers[c][w] \in Seq(Range(Offers[c][w]))
       /\ \A i \in DOMAIN Offers[c][w] : Offers[c][w][i] \in Seq(Range(Offers[c][w][i]))
  /\ \A t \in Arriving : t \in Seq(Range(t))

VARIABLES
  pane,        \* the editor and the state of its menu and of History navigation
  catalog,     \* what suggestions are made from: the Schema and the latest Result Set
  history,     \* the Statements of the Session, oldest first
  running,     \* the Statement that was submitted and not yet answered, Slash, or None
  height,      \* rows of the pane
  transcript,  \* rows of the transcript
  scroll,      \* rows it is scrolled up: scrollOffset
  own,         \* the text the user last put into the editor (history)
  overwritten, \* ... while navigating, other than by a key (history)
  stale        \* the catalog changed since the menu on the screen was computed (history)

Catalogs == DOMAIN Offers
outside == <<catalog, history, running>>
view == <<height, transcript, scroll>>
ghosts == <<own, overwritten, stale>>
pvars == <<pane, outside, view, ghosts>>

(******************************** the editor ******************************)

NoWords == <<>>
NoNav == <<>>  \* no cycle through the menu
Fresh == [text |-> NoWords, at |-> 0, opened |-> FALSE, suppressed |-> None, nav |-> NoNav,
          selected |-> 0, cached |-> NoWords, index |-> -1, draft |-> NoWords]

Buffer(p) == [text |-> p.text, at |-> p.at]
Holding(p, b) == [p EXCEPT !.text = b.text, !.at = b.at]
AtEnd(t) == [text |-> t, at |-> Len(t)]

Before(b) == SubSeq(b.text, 1, b.at)
After(b) == SubSeq(b.text, b.at + 1, Len(b.text))
Lines(words) == Cardinality({i \in DOMAIN words : words[i] = Newline})
OnFirstLine(p) == Lines(Before(Buffer(p))) = 0
OnLastLine(p) == Lines(After(Buffer(p))) = 0

Inserted(b, words) ==
  [text |-> Before(b) \o words \o After(b), at |-> b.at + Len(words)]
Erased(b) == [text |-> RemoveAt(b.text, b.at), at |-> b.at - 1]
\* applySuggestion, applyNavSuggestion: the completion takes the place of the word before the cursor.
Completed(b, words) == Inserted(Erased(b), words)

\* isCompleteSQLStatement: content, and a semicolon after it; a Slash Command needs none.
Words(t) == SelectSeq(t, LAMBDA w : w # Newline)
IsSlash(t) == Words(t) # NoWords /\ Head(Words(t)) = Slash
IsStatement(t) ==
  LET words == Words(t) IN
  /\ words # NoWords /\ Last(words) = Semicolon
  /\ \E i \in DOMAIN words : words[i] # Semicolon
IsComplete(t) == IsStatement(t) \/ IsSlash(t)

(****************************** the menu **********************************)

\* buildAutocompleteItems: nothing at the start of the text, nor between two Statements.  A
\* completion after a Newline, where there is no word to replace, has the Newline in it.
Offered(c, b) ==
  IF /\ b.at > 0 /\ b.text[b.at] \in DOMAIN Offers[c]
     /\ Words(Before(b)) # NoWords /\ Last(Words(Before(b))) # Semicolon
    THEN Offers[c][b.text[b.at]] ELSE NoWords

\* computeSuggestions
SuggestionsFrom(c, p) ==
  IF p.nav # NoNav THEN p.nav.list
  ELSE IF ~p.opened \/ p.suppressed = Buffer(p) THEN NoWords
  ELSE Offered(c, Buffer(p))
Suggestions(p) == SuggestionsFrom(catalog, p)

\* ClampSuggestionSelection keeps -1, the restore slot.
Clamped(i, count) ==
  IF count = 0 THEN 0 ELSE IF i < count THEN i ELSE count - 1
\* SelectedSuggestionIndex, as an index of a sequence
Highlighted(p, count) == IF p.selected < 0 THEN 1 ELSE Clamped(p.selected, count) + 1

Refreshed(p) ==
  LET list == Suggestions(p) IN
  [p EXCEPT !.cached = list, !.selected = Clamped(p.selected, Len(list))]

NavCleared(p) == IF p.nav = NoNav THEN p ELSE [p EXCEPT !.nav = NoNav, !.selected = 0]
\* Mutant of NavStarted: each step of the cycle starts it anew.
NavStartedAnew(p) == [p EXCEPT !.nav = [orig |-> Buffer(p), list |-> Suggestions(p)]]
NavStarted(p) ==
  IF p.nav # NoNav THEN p
  ELSE [p EXCEPT !.nav = [orig |-> Buffer(p), list |-> Suggestions(p)]]

\* SelectNextSuggestion, SelectPrevSuggestion
NextOf(i, count) == IF i >= count - 1 THEN -1 ELSE i + 1
PrevOf(i, count) == IF i = -1 THEN count - 1 ELSE i - 1

\* The cycle always completes the text it started from.
Cycled(p, Step(_, _)) ==
  LET q == NavStarted(p)
      i == Step(q.selected, Len(q.nav.list))
  IN Holding([q EXCEPT !.selected = i],
             IF i < 0 THEN q.nav.orig ELSE Completed(q.nav.orig, q.nav.list[i + 1]))

\* Tab, and Enter on an incomplete text, when there are suggestions
Accepted(p) ==
  LET list == Suggestions(p) IN
  IF p.nav # NoNav THEN [NavCleared(p) EXCEPT !.opened = FALSE]
  ELSE [Holding(p, Completed(Buffer(p), list[Highlighted(p, Len(list))]))
          EXCEPT !.selected = 0, !.opened = FALSE]

\* A snapshot of a text that no catalog completes hides nothing and is not kept.
Dismissed(p) ==
  LET q == IF p.nav = NoNav THEN p ELSE Holding(NavCleared(p), p.nav.orig) IN
  [q EXCEPT !.suppressed = IF \A c \in Catalogs : Offered(c, Buffer(q)) = NoWords
                             THEN None ELSE Buffer(q),
            !.selected = 0, !.cached = NoWords, !.opened = FALSE]

\* SetEditorValue leaves the History position and its draft as they are, Clear does not.
EditorSet(p, t) ==
  [Holding(p, AtEnd(t)) EXCEPT !.selected = 0, !.cached = NoWords, !.opened = FALSE,
                               !.suppressed = None, !.nav = NoNav]
\* Mutant of Cleared: it, too, leaves them.
ClearedButPosition(p) == [Fresh EXCEPT !.index = p.index, !.draft = p.draft]
Cleared(p) == Fresh

(*************************** History navigation ***************************)

\* deduplicatedHistory: newest first, each Statement at its latest occurrence
Latest == {i \in DOMAIN history : \A j \in DOMAIN history : j > i => history[j] # history[i]}
Recall ==
  [k \in 1 .. Cardinality(Latest) |->
     history[CHOOSE i \in Latest : Cardinality({j \in Latest : j >= i}) = k]]

Older(p) ==
  IF p.index = -1
    THEN IF Recall = <<>> THEN p
         ELSE EditorSet([p EXCEPT !.draft = p.text, !.index = 0], Recall[1])
  ELSE IF p.index < Len(Recall) - 1
    THEN EditorSet([p EXCEPT !.index = @ + 1], Recall[p.index + 2])
  ELSE p

Newer(p) ==
  IF p.index = -1 THEN p
  ELSE IF p.index > 0
    THEN LET q == [p EXCEPT !.index = @ - 1] IN
         IF q.index < Len(Recall) THEN EditorSet(q, Recall[q.index + 1]) ELSE q
  ELSE EditorSet([p EXCEPT !.index = -1, !.draft = NoWords], p.draft)

(*************************** rows on the screen ***************************)

AtLeastZero(n) == IF n < 0 THEN 0 ELSE n
Lesser(m, n) == IF m < n THEN m ELSE n

EditorRows == Lines(pane.text) + 1
Content == transcript + EditorRows
TopPadding == AtLeastZero(height - Content)
CursorRow == TopPadding + transcript + Lines(Before(Buffer(pane)))
AllRows == TopPadding + Content
NaturalTop == AtLeastZero(AllRows - height)

\* editorAdjustedScrollTop
FollowingCursor(top) ==
  LET up == Lesser(top, CursorRow)
      down == IF CursorRow >= up + height THEN CursorRow - height + 1 ELSE up
  IN AtLeastZero(Lesser(down, AllRows - height))
ScrollTop ==
  LET raw == AtLeastZero(NaturalTop - scroll) IN
  IF scroll = 0 THEN Lesser(FollowingCursor(raw), NaturalTop) ELSE Lesser(raw, NaturalTop)
CursorOnScreen == ScrollTop <= CursorRow /\ CursorRow < ScrollTop + height

HalfPage == IF height >= 4 THEN height \div 2 ELSE 1

(******************************** keys ************************************)

\* What the user wrote: kept for the properties.
Wrote(text) == own' = text /\ overwritten' = FALSE
Unwritten == UNCHANGED <<own, overwritten>>
\* Whether the menu on the screen, while Enter takes from one, was made from another catalog; a
\* list that the cycle has frozen is made from none any more.
Completes(p) == p.opened \/ p.nav # NoNav
MenuAfter(replaced) == stale' = (Completes(pane') /\ (stale \/ replaced))
MenuStays == MenuAfter(FALSE)
MenuComputed == stale' = FALSE
MadeFrom(c) == catalog' = c /\ MenuAfter(c # catalog /\ pane.nav = NoNav)
Navigates(p) == p.index >= 0 \/ p.nav # NoNav
\* The editor is written, other than by a key.
Arrived ==
  /\ overwritten' = Navigates(pane')
  /\ own' = IF Navigates(pane') THEN NoWords ELSE pane'.text

\* Mutants of Keyed: the position in History is kept, the menu is not computed again.
KeyedInHistory(p, b) ==
  LET q == Holding(p, b) IN
  Refreshed([NavCleared(q) EXCEPT !.opened = (b.text # p.text)])
KeyedWithOldMenu(p, b) ==
  [NavCleared(Holding(p, b)) EXCEPT !.opened = (b.text # p.text), !.index = -1, !.draft = NoWords]
\* The end of Update for a key the editor takes: it becomes b.
Keyed(p, b) ==
  LET q == Holding(p, b) IN
  Refreshed(IF b.text # p.text
              THEN [NavCleared(q) EXCEPT !.opened = TRUE, !.index = -1, !.draft = NoWords]
              ELSE [q EXCEPT !.opened = FALSE])

\* Mutant of Snapped
NeverSnapped(b) == UNCHANGED scroll
\* SnapToBottom, when the key changed the text or moved the cursor
Snapped(b) == scroll' = IF b # Buffer(pane) THEN 0 ELSE scroll

EditorKey(b) ==
  /\ pane' = Keyed(pane, b)
  /\ Snapped(b)
  /\ IF b.text = pane.text THEN Unwritten ELSE Wrote(b.text)
  /\ MenuComputed
  /\ UNCHANGED <<outside, height, transcript>>

Room == Len(pane.text) < MaxWords
Type == Room /\ \E w \in Typed \ {Newline} : EditorKey(Inserted(Buffer(pane), <<w>>))
Erase == pane.at > 0 /\ EditorKey(Erased(Buffer(pane)))
Move == \E i \in {pane.at - 1, pane.at + 1} \cap (0 .. Len(pane.text)) :
          EditorKey([Buffer(pane) EXCEPT !.at = i])

MenuKey == MenuStays /\ UNCHANGED <<outside, view>>
CanAccept == Suggestions(pane) # NoWords
Accept ==
  /\ pane' = Accepted(pane)
  /\ Wrote(pane'.text)
  /\ MenuKey

\* A Tab that accepts nothing reaches the editor, which ignores it.
Tab == IF CanAccept THEN Accept ELSE EditorKey(Buffer(pane))

Following ==
  /\ pane' = IF CanAccept THEN Cycled(pane, NextOf) ELSE Newer(pane)
  /\ Unwritten /\ MenuKey
Preceding ==
  /\ pane' = IF CanAccept THEN Cycled(pane, PrevOf) ELSE Older(pane)
  /\ Unwritten /\ MenuKey

\* Where the cursor may be on the line above or below.
LineAt(n) == {i \in 0 .. Len(pane.text) : Lines(SubSeq(pane.text, 1, i)) = n}
ThisLine == Lines(Before(Buffer(pane)))
ToLine(n) ==
  \/ LineAt(n) = {} /\ EditorKey(Buffer(pane))
  \/ \E i \in LineAt(n) : EditorKey([Buffer(pane) EXCEPT !.at = i])
Up ==
  IF ~CanAccept /\ OnFirstLine(pane)
    THEN pane' = Older(pane) /\ Unwritten /\ MenuKey
    ELSE ToLine(ThisLine - 1)
Down ==
  IF ~CanAccept /\ OnLastLine(pane)
    THEN pane' = Newer(pane) /\ Unwritten /\ MenuKey
    ELSE ToLine(ThisLine + 1)

Scroll ==
  /\ \/ scroll' = Lesser(scroll + HalfPage, NaturalTop)
     \/ scroll' = AtLeastZero(scroll - HalfPage)
  /\ pane' = [pane EXCEPT !.opened = FALSE]
  /\ Unwritten /\ MenuStays
  /\ UNCHANGED <<outside, height, transcript>>

\* Esc cancels what runs; only then does it close the menu.
Escape ==
  /\ running = None
  /\ pane.cached # NoWords \/ CanAccept
  /\ pane' = Dismissed(pane)
  /\ Unwritten /\ MenuKey

\* ctrl+c on a text that is not blank
ClearInput ==
  /\ Words(pane.text) # NoWords
  /\ pane' = Cleared(pane)
  /\ Wrote(NoWords)
  /\ MenuKey

\* handleSubmitIntent, when no completion is to be retried first
Submit ==
  /\ running' = IF running # None \/ ~IsComplete(pane.text) THEN running
                ELSE IF IsSlash(pane.text) THEN Slash
                ELSE IF Len(history) < MaxHistory THEN pane.text ELSE None
  /\ UNCHANGED <<pane, catalog, history, view, ghosts>>

Enter ==
  IF IsComplete(pane.text) THEN Submit
  ELSE IF CanAccept THEN Accept
  ELSE Room /\ EditorKey(Inserted(Buffer(pane), <<Newline>>))

(********************* messages that write the editor *********************)

Write(p) == pane' = p /\ Arrived
TranscriptGrown ==
  /\ transcript' = Lesser(transcript + 2, MaxTranscript)
  /\ scroll' = 0
  /\ UNCHANGED height

\* handleStatementExecuted: whatever the editor holds by now is cleared, unless the Audit Log
\* refused the submission.  The latest Result Set, of which suggestions are made, changes.
StatementExecuted ==
  /\ running \notin {None, Slash}
  /\ running' = None
  /\ \/ /\ history' = Append(history, running)
        /\ Write(Cleared(pane)) /\ TranscriptGrown
        /\ \E c \in Catalogs : MadeFrom(c)
     \/ UNCHANGED <<catalog, history, pane, view, ghosts>>

\* handleSlashCommandExecuted
SlashExecuted ==
  /\ running = Slash
  /\ running' = None
  /\ \/ Write(Cleared(pane)) /\ TranscriptGrown
     \/ (\E t \in Arriving : Write(EditorSet(pane, t))) /\ UNCHANGED view
  /\ \E c \in Catalogs : MadeFrom(c)
  /\ UNCHANGED history

\* A composition of the Results Pane, a choice of History Search, what an external editor
\* left, the text a retried completion submits: each comes when it comes.
TextArrives ==
  /\ \E t \in Arriving \cup Range(history) : Write(EditorSet(pane, t))
  /\ MenuStays /\ UNCHANGED <<outside, view>>

\* Any other message: the editor takes it, and the menu is computed anew.
Updated(b) ==
  /\ pane' = Refreshed(Holding(pane, b))
  /\ MenuComputed
  /\ UNCHANGED <<outside, view>>
Paste ==
  /\ Room
  /\ \E w \in Typed : Updated(Inserted(Buffer(pane), <<w>>)) /\ Arrived
Blink == Updated(Buffer(pane)) /\ Unwritten

Refocus ==
  /\ pane' = [pane EXCEPT !.opened = FALSE]
  /\ Unwritten /\ MenuKey

\* autocompleteSchemaLoadedMsg, pickerSchemaReadyMsg: of the Connection, of the one before it, or
\* nil, each when it comes.  The editor does not see these messages.
SchemaLoaded ==
  /\ UNCHANGED <<pane, history, running, view>>
  /\ Unwritten
  /\ \E c \in Catalogs : MadeFrom(c)

Resize ==
  /\ height' \in Heights
  /\ UNCHANGED <<pane, outside, transcript, scroll, ghosts>>

\* resetPanesToInit and the History of the new Session; its Schema is loaded later.
SessionAdopted ==
  /\ running = None
  /\ pane' = Fresh /\ Arrived
  /\ history' \in {<<>>} \cup {<<t>> : t \in Range(history)}
  /\ MadeFrom(BareCatalog) /\ transcript' = 0 /\ scroll' = 0
  /\ UNCHANGED <<running, height>>

(***************************** the specification **************************)

PInit ==
  /\ pane = Fresh /\ history = <<>>
  /\ catalog = BareCatalog /\ height \in Heights
  /\ running = None /\ transcript = 0 /\ scroll = 0
  /\ own = NoWords /\ overwritten = FALSE /\ stale = FALSE

PNext ==
  \/ Type \/ Erase \/ Move \/ Tab \/ Enter \/ Submit \/ Following \/ Preceding \/ Up \/ Down
  \/ Scroll \/ Escape \/ ClearInput
  \/ StatementExecuted \/ SlashExecuted \/ TextArrives
  \/ Paste \/ Blink \/ Refocus \/ SchemaLoaded \/ Resize \/ SessionAdopted

PSpec == PInit /\ [][PNext]_pvars

(******************************* properties *******************************)

\* Going through History or through the menu loses nothing the user wrote: until something
\* else than a key writes the editor, the text is there, in the draft, or in the restore
\* slot of the cycle (navigateHistoryPrev, Update, DismissAutocomplete).
KeysLoseNothing ==
  \/ overwritten
  \/ own = pane.text
  \/ pane.index >= 0 /\ own = pane.draft
  \/ pane.nav # NoNav /\ own = pane.nav.orig.text

\* However long the user cycles, the buffer is what was typed with one completion of the
\* frozen list in place of the typed word (ADR 0016), never a completion of a completion.
CyclingNeverCompounds ==
  pane.nav # NoNav /\ ~overwritten =>
    /\ pane.selected < Len(pane.nav.list)
    /\ pane.text = IF pane.selected < 0 THEN own
                   ELSE Completed(pane.nav.orig, pane.nav.list[pane.selected + 1]).text

\* At a position of History the editor shows the Statement of that position, also when
\* Statements are added to History or another Session brings its own.
PositionIsShown ==
  pane.index >= 0 /\ ~overwritten =>
    pane.index < Len(Recall) /\ pane.text = Recall[pane.index + 1]

\* What Enter, Tab and the cycle take from is the menu on the screen (cachedSuggestions against
\* computeSuggestions), through edits, cycles, dismissals and texts that arrive.  One case is
\* excepted: a Schema or a Result Set came since that menu was computed, and no list was frozen.
\* Even then the menu is one for the text that is completed, from some catalog, and is never
\* left over from another text.
Completing == IF pane.nav = NoNav THEN Buffer(pane) ELSE pane.nav.orig
MenuIsForThisText ==
  CanAccept =>
    IF stale THEN \E c \in Catalogs : pane.cached = Offered(c, Completing)
             ELSE pane.cached = Suggestions(pane)

\* While what is typed is being completed the cursor, where the menu hangs, is on the screen:
\* typing comes back from a scrolled transcript, scrolling ends the completion, and a pane
\* that changes its size follows the cursor (Update, ScrollUp, View).
TypingIsSeen == pane.opened => CursorOnScreen

\* ADR 0015: any edit to the buffer discards the position in History.  It does not: a paste,
\* or a text that is put into the editor from outside, stays at the position, and the next
\* step to newer entries replaces it.
EditsLeaveHistory == overwritten => pane.index = -1
=============================================================================
