----------------------------- MODULE ListModals -----------------------------
(***************************************************************************)
(* The modals that are lists: the Connection Picker, History Search, the   *)
(* Keybindings modal, the slash wizard and the export wizard (internal/    *)
(* app/connection_picker_modal.go, history_search_modal.go, help_modal.go, *)
(* slash_wizard_modal.go and export_wizard_modal.go), each with its own    *)
(* copy of filter, selection and viewport, drawn by internal/tui/overlay.  *)
(* go and clicked through the row arithmetic of mouse.go.                  *)
(*                                                                         *)
(* A text is a sequence of letters; an entry of a list is a record with    *)
(* its text.  One modal is open at a time: the stack is in Execution, what *)
(* the Connection Picker starts in Switching.  What a modal hands over is  *)
(* kept in `taken` for one step.  The path typed into the export wizard,   *)
(* horizontal scrolling and the status texts are left out.                 *)
(***************************************************************************)
EXTENDS Integers, Sequences, FiniteSets

CONSTANTS
  Letters, Blank,  \* what texts are made of
  Connections, Active,  \* the saved Connections, and the one the Session uses
  HelpRows,        \* the Help Rows of the context: [text, does, command]
  Commands,        \* the slash commands of the wizard: [text, target, columns]
  Tables,          \* the tables of the schema, by their names: [text, space, name]
  Columns,         \* the column names of each table
  Formats,         \* export formats: [text]
  Completing,      \* texts of the Statements that complete
  FixedRows, SplitRows, PickerRows,  \* ModalFixedRows, ModalSplitListRows, maxRows of the picker
  ContentWidth,    \* letters in a row of the History Search at the full width of a modal
  Widths,          \* letters that fit into such a row of the terminal
  None,
  MaxFilter,       \* bound: letters of a filter
  MaxHistory       \* bound: Statements of a Session

\* What a list holds; a list is a sequence of that.
Items(es) == {es[i] : i \in DOMAIN es}
IsList(es) == es \in Seq(Items(es))

\* A table is known by its space and its name, or by its name where tables have no space; a row
\* of the Keybindings modal that opens the wizard does so for one of its commands.
ASSUME ListModalsAssumptions ==
  /\ IsList(Connections) /\ IsList(Formats) /\ IsList(Commands)
  /\ IsList(HelpRows) /\ \A i \in DOMAIN HelpRows : IsList(HelpRows[i].text)
  /\ \A i \in DOMAIN HelpRows :
       HelpRows[i].does = "wizard" =>
         \E j \in DOMAIN Commands : Commands[j].text = HelpRows[i].command
  /\ IsList(Tables)
  /\ \A i \in DOMAIN Tables : IsList(Tables[i].text) /\ IsList(Columns[Tables[i].text])
  /\ \A i, j \in DOMAIN Tables :
       Tables[i].name = Tables[j].name /\ Tables[i].space \in {None, Tables[j].space}
         => Tables[i].text = Tables[j].text
  /\ \A s \in Completing : IsList(s)
  /\ {FixedRows, SplitRows, PickerRows} \subseteq Nat \ {0}
  /\ ContentWidth \in Nat \ {0} /\ Widths \subseteq Nat \ {0}
  /\ SplitRows > 2 /\ FixedRows > 3 /\ Len(Formats) <= SplitRows
  /\ {MaxFilter, MaxHistory} \subseteq Nat

VARIABLES
  modal,    \* the modal that is open, or None
  history,  \* the Statements of the Session, oldest first
  width,    \* the width of the terminal
  taken,    \* what the last step took from a modal, or None
  by        \* what the last step was: a key (or the wheel), a click, or an event (history)

lvars == <<modal, history, width, taken, by>>

(***************************** fuzzy filtering ****************************)

\* The integers of S, the lightest first, those of one weight as they follow each other.
InOrder(S, weight) ==
  LET before(i) == {j \in S : weight[j] < weight[i] \/ (weight[j] = weight[i] /\ j < i)}
  IN [k \in 1 .. Cardinality(S) |-> CHOOSE i \in S : Cardinality(before(i)) = k - 1]

Ascending(S) == InOrder(S, [i \in S |-> 0])

Picked(entries, order) == [k \in DOMAIN order |-> entries[order[k]]]

\* Leading and trailing blanks cut, inner runs of them made one.
Squeezed(t) ==
  LET kept == {i \in DOMAIN t : \/ t[i] # Blank
                                \/ /\ i > 1 /\ t[i - 1] # Blank
                                   /\ \E j \in i + 1 .. Len(t) : t[j] # Blank}
  IN Picked(t, Ascending(kept))

Trimmed(t) ==
  LET solid == {i \in DOMAIN t : t[i] # Blank}
  IN IF solid = {} THEN <<>>
     ELSE SubSeq(t, CHOOSE i \in solid : \A j \in solid : i <= j,
                    CHOOSE i \in solid : \A j \in solid : j <= i)

WordBonus == 15
EarlyBonus == 32

\* (variant: the letters must follow each other, a candidate that breaks off starts over)
ScannedUnbroken(needle, candidate, st, i) ==
  IF st.found = Len(needle) THEN st
  ELSE IF candidate[i] # needle[st.found + 1] THEN [st EXCEPT !.found = 0]
  ELSE [st EXCEPT !.found = @ + 1]

\* One letter of the candidate against the next letter that is looked for.
Scanned(needle, candidate, st, i) ==
  IF st.found = Len(needle) \/ candidate[i] # needle[st.found + 1]
  THEN [st EXCEPT !.streak = 0]
  ELSE LET streak == IF st.last = i - 1 THEN st.streak + 1 ELSE 1
           bonus == IF i = 1 \/ candidate[i - 1] = Blank THEN WordBonus ELSE 0
       IN [found |-> st.found + 1, streak |-> streak, last |-> i,
           first |-> IF st.first = 0 THEN i ELSE st.first,
           score |-> st.score + 1 + streak * streak + bonus]

Judged(needle, st) ==
  LET early == EarlyBonus - (st.first - 1)
  IN [matches |-> st.found = Len(needle),
      score |-> st.score + IF st.first > 0 /\ early > 0 THEN early ELSE 0]

Unscanned == [found |-> 0, streak |-> 0, last |-> -1, first |-> 0, score |-> 0]

Fuzzy(needle, candidate) ==
  LET scan[i \in 0 .. Len(candidate)] ==
        IF i = 0 THEN Unscanned ELSE Scanned(needle, candidate, scan[i - 1], i)
  IN Judged(needle, scan[Len(candidate)])

Matching(entries, filter) ==
  Picked(entries, Ascending({i \in DOMAIN entries :
                               Fuzzy(Trimmed(filter), entries[i].text).matches}))

\* The matches among scans, the best first, those of one score in the order they came.
BestFirst(scans) ==
  InOrder({i \in DOMAIN scans : scans[i].matches}, [i \in DOMAIN scans |-> -scans[i].score])

\* A stable sort of the matches; without a filter the entries as they are.
Ranked(entries, filter) ==
  LET q == Trimmed(filter)
  IN IF q = <<>> THEN entries
     ELSE Picked(entries, BestFirst([i \in DOMAIN entries |-> Fuzzy(q, entries[i].text)]))

\* The Statements, newest first, each once.
NewestFirst(h) ==
  LET newest == {i \in DOMAIN h : \A j \in i + 1 .. Len(h) : Squeezed(h[j]) # Squeezed(h[i])}
      order == InOrder(newest, [i \in newest |-> -i])
  IN [k \in DOMAIN order |-> [text |-> h[order[k]]]]

(******************************** a modal *********************************)

ModalSteps == {"list", "path", "command", "target", "column"}
Filtered == {"list", "target"}

Fresh(kind, step) ==
  [kind |-> kind, step |-> step, filter |-> <<>>,
   at |-> [s \in ModalSteps |-> 0], top |-> [s \in ModalSteps |-> 0],
   targets |-> <<>>, columns |-> <<>>, direct |-> FALSE]

Create == [text |-> <<>>]

\* What a step of a modal lists.
Entries(m, step) ==
  CASE m.kind = "picker"  -> Append(Matching(Connections, m.filter), Create)
    [] m.kind = "history" -> Ranked(NewestFirst(history), m.filter)
    [] m.kind = "help"    -> Ranked(HelpRows, m.filter)
    [] m.kind = "export"  -> IF step = "list" THEN Matching(Formats, m.filter) ELSE <<>>
    [] step = "command"   -> Commands
    [] step = "target"    -> Ranked(m.targets, m.filter)
    [] step = "column"    -> m.columns

Clamped(i, n) == IF i >= n THEN n - 1 ELSE i
Resolved(m, step, es) ==
  IF m.kind = "wizard" THEN Clamped(m.at[step], Len(es)) ELSE m.at[step] % Len(es)
Under(m, step, es) == es[Resolved(m, step, es) + 1]
Chosen(m, step) == Under(m, step, Entries(m, step))

\* Rows an entry takes when a row holds w letters.
Rows(m, entry, w) ==
  IF m.kind # "history" THEN 1
  ELSE LET wrapped == (Len(Squeezed(entry.text)) + w - 1) \div w
       IN IF wrapped > SplitRows THEN SplitRows ELSE IF wrapped = 0 THEN 1 ELSE wrapped

\* The row, from the first entry's, on which the k-th of the entries es starts.
StartRow(m, es, k, w) ==
  Cardinality({c \in (1 .. k - 1) \X (1 .. SplitRows) : c[2] <= Rows(m, es[c[1]], w)})

(******************************** the screen ******************************)

BoxRows(m) == IF m.kind # "wizard" \/ m.step = "target" THEN SplitRows ELSE FixedRows

HeaderRows(m) ==
  CASE m.kind # "wizard"  -> 0
    [] m.step = "column"  -> 3
    [] m.step = "target"  -> IF m.direct THEN 1 ELSE 2
    [] m.step = "command" -> 1

ListRows(m) == BoxRows(m) - HeaderRows(m)
RowWidth(w) == IF w < ContentWidth THEN w ELSE ContentWidth

\* The screen rows of the box that show a part of the k-th entry.
DrawnRows(m, es, k) ==
  LET w == RowWidth(width)
      from == HeaderRows(m) + StartRow(m, es, k, w) - m.top[m.step]
  IN {r \in HeaderRows(m) .. BoxRows(m) - 1 : r \in from .. from + Rows(m, es[k], w) - 1}

Highlighted(m, es) == Resolved(m, m.step, es) + 1

ShownWhole(m, es) ==
  es = <<>> \/ Cardinality(DrawnRows(m, es, Highlighted(m, es)))
                 = Rows(m, es[Highlighted(m, es)], RowWidth(width))

\* In every step, the one that is shown and those that can be gone back to.
HighlightInSight(m) ==
  \A s \in IF m.kind # "wizard" THEN {"list"}
           ELSE {"target", "column"} \cup (IF m.direct THEN {} ELSE {"command"}) :
    ShownWhole([m EXCEPT !.step = s], Entries(m, s))

(**************************** moving about in it **************************)

\* The rows a modal believes it has for its list.
ScrollRows(m) == IF m.kind = "picker" THEN PickerRows ELSE ListRows(m)

LazyScroll(m, es, k) ==
  LET from == StartRow(m, es, k, ContentWidth)
      to == from + Rows(m, es[k], ContentWidth)
      top == m.top[m.step]
  IN IF from < top THEN from
     ELSE IF to > top + ScrollRows(m) THEN to - ScrollRows(m) ELSE top

SelectedAt(m, i) == [m EXCEPT !.at[m.step] = i]
ScrolledTo(m, es, i) ==
  LET sel == SelectedAt(m, i) IN [sel EXCEPT !.top[m.step] = LazyScroll(sel, es, Highlighted(sel, es))]

Moved(m, es, d) ==
  IF es = <<>> THEN m ELSE ScrolledTo(m, es, (m.at[m.step] + d) % Len(es))

Wheeled(m, es, d) ==
  LET to == m.at[m.step] + d
  IN IF es = <<>> THEN m ELSE ScrolledTo(m, es, IF to < 0 THEN 0 ELSE Clamped(to, Len(es)))

FilteredBy(m, f) ==
  [m EXCEPT !.filter = f, !.at[m.step] = 0, !.top[m.step] = 0]

\* The index a click on a row of the box selects, or None.
ClickedIndex(m, es, row) ==
  LET hit == {k \in DOMAIN es :
                LET from == StartRow(m, es, k, ContentWidth)
                IN m.top[m.step] + row \in from .. from + Rows(m, es[k], ContentWidth) - 1}
  IN IF hit = {} THEN None ELSE (CHOOSE k \in hit : TRUE) - 1

(************************ what Enter and Esc lead to **********************)

Becomes(m, t) == [modal |-> m, taken |-> t]
Closed == Becomes(None, None)

\* (variant: by its name alone)
ColumnsForName(t) ==
  LET first == CHOOSE i \in DOMAIN Tables :
                 Tables[i].name = t.name /\ \A j \in 1 .. i - 1 : Tables[j].name # t.name
      names == Columns[Tables[first].text]
  IN [i \in DOMAIN names |-> [text |-> names[i], ticked |-> TRUE]]

\* The columns offered for a table: those of the first that answers to its name.
ColumnsFor(t) ==
  LET named == {i \in DOMAIN Tables : /\ Tables[i].name = t.name
                                      /\ t.space = None \/ Tables[i].space = t.space}
      first == CHOOSE i \in named : \A j \in named : i <= j
      names == Columns[Tables[first].text]
  IN [i \in DOMAIN names |-> [text |-> names[i], ticked |-> TRUE]]

AtTargets(m) ==
  [Fresh("wizard", "target") EXCEPT !.at["command"] = m.at["command"],
                                    !.top = [m.top EXCEPT !["target"] = 0],
                                    !.targets = Tables]
\* (variant: the viewport of the columns looked at before is kept)
AtColumnsScrolled(m, t) ==
  [m EXCEPT !.step = "column", !.columns = ColumnsFor(t), !.at["column"] = 0]

AtColumns(m, t) ==
  [m EXCEPT !.step = "column", !.columns = ColumnsFor(t),
            !.at["column"] = 0, !.top["column"] = 0]

TickedOf(cols) ==
  LET ticked == Picked(cols, Ascending({i \in DOMAIN cols : cols[i].ticked}))
  IN [i \in DOMAIN ticked |-> ticked[i].text]

\* The Statement a command is expanded to.
Expanded(c, t, cols) ==
  [kind |-> "wizard", command |-> c.text, table |-> t,
   columns |-> IF Len(TickedOf(cols)) = Len(cols) THEN <<"*">> ELSE TickedOf(cols)]

CommandSubmitted(m) ==
  LET c == Chosen(m, "command")
  IN IF ~c.target THEN {Becomes(None, Expanded(c, None, <<>>))}
     ELSE {Becomes(AtTargets(m), None), Closed}

\* (variant: the index into the filtered tables is used in all of them)
TargetSubmittedUnfiltered(m) ==
  LET c == Chosen(m, "command")
      t == m.targets[m.at["target"] + 1]
  IN IF Entries(m, "target") = <<>> THEN {Becomes(m, None)}
     ELSE IF c.columns THEN {Becomes(AtColumns(m, t), None), Closed}
     ELSE {Becomes(None, Expanded(c, t, <<>>))}

TargetSubmitted(m) ==
  LET c == Chosen(m, "command")
      t == Chosen(m, "target")
  IN IF Entries(m, "target") = <<>> THEN {Becomes(m, None)}
     ELSE IF c.columns THEN {Becomes(AtColumns(m, t), None), Closed,
                             Becomes(None, Expanded(c, t, <<>>))}
     ELSE {Becomes(None, Expanded(c, t, <<>>))}

ColumnSubmitted(m) ==
  IF TickedOf(m.columns) = <<>> THEN {Becomes(m, None)}
  ELSE {Becomes(None, Expanded(Chosen(m, "command"), Chosen(m, "target"), m.columns))}

Took(m, e) == [kind |-> m.kind, entry |-> e]

DirectWizard(c) ==
  [Fresh("wizard", "target") EXCEPT
     !.at["command"] = (CHOOSE i \in DOMAIN Commands : Commands[i].text = c) - 1,
     !.targets = Tables, !.direct = TRUE]

HelpSubmitted(m) ==
  LET row == Chosen(m, "list")
  IN IF Entries(m, "list") = <<>> \/ row.does = "nothing" THEN {Closed}
     ELSE IF row.does = "wizard" THEN {Becomes(DirectWizard(row.command), None), Closed}
     ELSE {Becomes(None, Took(m, row))}

PickerSubmitted(m) ==
  LET e == Chosen(m, "list")
  IN IF e # Create /\ e.text = Active THEN {Closed} ELSE {Becomes(m, Took(m, e))}

HistorySubmitted(m) ==
  IF Entries(m, "list") = <<>> THEN {Becomes(m, None)}
  ELSE {Becomes(None, Took(m, Chosen(m, "list")))}

ExportSubmitted(m) ==
  IF m.step = "path" THEN {Becomes(None, Took(m, Chosen([m EXCEPT !.step = "list"], "list")))}
  ELSE IF Entries(m, "list") = <<>> THEN {Becomes(m, None)}
  ELSE {Becomes([m EXCEPT !.step = "path"], None)}

Submitted(m) ==
  CASE m.kind = "picker"  -> PickerSubmitted(m)
    [] m.kind = "history" -> HistorySubmitted(m)
    [] m.kind = "help"    -> HelpSubmitted(m)
    [] m.kind = "export"  -> ExportSubmitted(m)
    [] m.step = "command" -> CommandSubmitted(m)
    [] m.step = "target"  -> TargetSubmitted(m)
    [] m.step = "column"  -> ColumnSubmitted(m)

Escaped(m) ==
  CASE m.step = "column" -> [m EXCEPT !.step = "target", !.columns = <<>>, !.at["column"] = 0]
    [] m.step = "path"   -> [m EXCEPT !.step = "list"]
    [] m.step \in Filtered /\ Trimmed(m.filter) # <<>> -> FilteredBy(m, <<>>)
    [] m.step = "target" /\ ~m.direct /\ Trimmed(m.filter) = <<>> ->
         [m EXCEPT !.step = "command", !.targets = <<>>, !.at["target"] = 0]
    [] OTHER -> None

(********************************* actions ********************************)

Init ==
  /\ modal = None /\ history = <<>> /\ taken = None /\ by = "event"
  /\ width \in Widths

ByKey == by' = "key" /\ UNCHANGED <<history, width>>
ByClick == by' = "click" /\ UNCHANGED <<history, width>>
Shows(m) == modal' = m /\ taken' = None

\* What the open modal lists.
Shown == Entries(modal, modal.step)

\* Bound: the other modals read neither History nor the width, and are seen over one of each.
OutsideIsRead(m) == IF m = None THEN TRUE ELSE m.kind = "history"

\* A modal is opened by its key, by a command that was typed, or for a command without its table.
OpenModal ==
  /\ modal = None
  /\ \/ Shows(Fresh("history", "list"))
     \/ /\ history = <<>> /\ RowWidth(width) = ContentWidth
        /\ \/ \E kind \in {"picker", "help", "export"} : Shows(Fresh(kind, "list"))
           \/ Shows(Fresh("wizard", "command"))
           \/ \E i \in DOMAIN Commands : Commands[i].target /\ Shows(DirectWizard(Commands[i].text))
  /\ ByKey

Move(d) == modal # None /\ Shows(Moved(modal, Shown, d)) /\ ByKey
Wheel(d) == modal # None /\ Shows(Wheeled(modal, Shown, d)) /\ ByKey

Type(c) ==
  /\ modal # None /\ modal.step \in Filtered /\ Len(modal.filter) < MaxFilter
  /\ Shows(FilteredBy(modal, Append(modal.filter, c)))
  /\ ByKey

Backspace ==
  /\ modal # None /\ modal.step \in Filtered
  /\ LET typed == modal.filter
     IN Shows(FilteredBy(modal, IF typed = <<>> THEN <<>> ELSE SubSeq(typed, 1, Len(typed) - 1)))
  /\ ByKey

Toggle ==
  /\ modal # None /\ modal.step = "column" /\ modal.columns # <<>>
  /\ LET k == Highlighted(modal, Shown)
     IN Shows([modal EXCEPT !.columns[k].ticked = ~@])
  /\ ByKey

ToggleAll ==
  /\ modal # None /\ modal.step = "column"
  /\ LET every == \A i \in DOMAIN modal.columns : modal.columns[i].ticked
     IN Shows([modal EXCEPT !.columns = [i \in DOMAIN @ |-> [@[i] EXCEPT !.ticked = ~every]]])
  /\ ByKey

Enter ==
  /\ modal # None
  /\ \E s \in Submitted(modal) : modal' = s.modal /\ taken' = s.taken
  /\ ByKey

Esc ==
  /\ modal # None
  /\ Shows(Escaped(modal))
  /\ ByKey

CtrlC == modal # None /\ Shows(None) /\ ByKey

\* A click on a row of the box.  Any may be a double one: the click before it was on the same row
\* of the screen, of whatever was there.
Click(row, double) ==
  /\ modal # None /\ row \in 0 .. BoxRows(modal) - 1
  /\ LET i == ClickedIndex(modal, Shown, row)
     IN /\ i # None
        /\ IF double
           THEN \E s \in Submitted(SelectedAt(modal, i)) : modal' = s.modal /\ taken' = s.taken
           ELSE Shows(SelectedAt(modal, i))
  /\ ByClick

\* A Statement completes and is appended to History, behind the modal or without one.
Complete(s) ==
  /\ OutsideIsRead(modal) /\ Len(history) < MaxHistory
  /\ history' = Append(history, s)
  /\ taken' = None /\ by' = "event"
  /\ UNCHANGED <<modal, width>>

Resize(w) ==
  /\ OutsideIsRead(modal) /\ w # width
  /\ width' = w /\ taken' = None /\ by' = "event"
  /\ UNCHANGED <<modal, history>>

Next ==
  \/ OpenModal \/ Backspace \/ Toggle \/ ToggleAll \/ Enter \/ Esc \/ CtrlC
  \/ \E d \in {-1, 1} : Move(d) \/ Wheel(d)
  \/ \E c \in Letters : Type(c)
  \/ \E row \in 0 .. FixedRows - 1, double \in BOOLEAN : Click(row, double)
  \/ \E s \in Completing : Complete(s)
  \/ \E w \in Widths : Resize(w)

LSpec == Init /\ [][Next]_lvars

(******************************* properties *******************************)

\* The Picker scrolls for maxRows rows, whatever its box has.
PickerOverflows(m) == m.kind = "picker" /\ Len(Entries(m, "list")) > SplitRows

\* However a list is moved about in, filtered, left and come back to, the entry it highlights
\* stays on the screen: no key and no turn of the wheel loses it (lazyScroll and the resets of
\* viewportStart).  Two cases are excepted: a terminal narrower than a modal, and a Connection
\* Picker that lists more rows than its box has, which does lose it.
KeysKeepHighlight ==
  [][by' = "key" /\ modal # None /\ modal' # None /\ RowWidth(width) = ContentWidth
     /\ (modal'.kind = modal.kind => HighlightInSight(modal)) /\ ~PickerOverflows(modal')
     => HighlightInSight(modal')]_lvars

\* What the modal says it is about to do: the entry highlighted, and of the wizard the command
\* and the table in its header.
ShownToBeTaken(m) ==
  IF m.kind # "wizard" THEN Took(m, Chosen(m, IF m.step = "path" THEN "list" ELSE m.step))
  ELSE [kind |-> "wizard", command |-> Chosen(m, "command").text,
        table |-> IF m.step = "command" THEN None
                  ELSE LET hits == Ranked(m.targets, m.filter)
                       IN hits[Clamped(m.at["target"], Len(hits)) + 1],
        columns |-> IF \A i \in DOMAIN m.columns : m.columns[i].ticked THEN <<"*">>
                    ELSE TickedOf(m.columns)]

\* Enter takes what the modal shows: the filtered entry under the highlight, for the command and
\* the table in the header, with the columns that are ticked (submit, restore, executeRow).
EnterTakesWhatIsShown ==
  [][by' = "key" /\ taken' # None => taken' = ShownToBeTaken(modal)]_lvars

\* The columns on offer are those of the table they are chosen for, whichever table was looked at
\* before and whatever other table has its name (buildSlashWizardColumnsFromSchema, handleEsc).
ColumnsAreOfTheTable ==
  modal # None /\ modal.step = "column" =>
    [i \in DOMAIN modal.columns |-> modal.columns[i].text] = Columns[Chosen(modal, "target").text]

Subsequence(q, t) ==
  \E at \in [DOMAIN q -> DOMAIN t] :
    \A i \in DOMAIN q : t[at[i]] = q[i] /\ (i > 1 => at[i - 1] < at[i])

\* A filter hides an entry exactly when its letters do not occur in it in their order: the greedy
\* scan of fuzzyMatch misses none, and ranking loses none (filterHistorySearchEntries and others).
FilterFindsAll ==
  modal # None /\ modal.kind = "history" =>
    {Squeezed(Shown[k].text) : k \in DOMAIN Shown}
      = {Squeezed(history[i]) : i \in {j \in DOMAIN history :
           LET newest == history[CHOOSE k \in DOMAIN history :
                                   /\ Squeezed(history[k]) = Squeezed(history[j])
                                   /\ \A l \in k + 1 .. Len(history) : Squeezed(history[l]) # Squeezed(history[j])]
           IN Subsequence(Trimmed(modal.filter), newest)}}
=============================================================================
