# SQLcery in TLA+

Specifications, model-checking configurations and machine-checked proofs for SQLcery
(`src/`), a terminal SQL client: a bubbletea program whose `Model` runs Statements on a
database, audits them, and lets the user switch Connections while it runs.

## The system

SQLcery is one process. The `Model` (`internal/app/model.go`) is single-threaded: bubbletea
calls `Update` with one message at a time. Everything slow is a `tea.Cmd`, which runs in a
goroutine of its own and whose message is delivered some time later. All the hard behaviour
comes from that: a handler reads state that has changed since its message was asked for.

| Component | State | Operations | Talks to |
|---|---|---|---|
| Statement execution (`model.go`, `execution.go`) | `Running`, `cancelFn`, the contexts, `PendingAuditCompletion`, `AuditRetrying`, editor text, `LatestResult` | submit, cancel, the execution goroutine, `statementExecutedMsg`, `slashCommandExecutedMsg`, `auditCompletionRetriedMsg` | Audit Log, History, Session, modals |
| Audit Log (`internal/audit`) | an append-only file under a lock | `AppendSubmitted`, `AppendCompleted` | execution goroutines of every process |
| Session lifecycle (`connection_picker*.go`, `modal_connecting.go`) | `session`, `cancelConnect`, `pendingConnectAbort`, the opens in flight | auto-connect, mid-run connect, abort, success, failure | modal stack, History, Schema, Adapters |
| Modal stack and key routing (`modal.go`, `help_modal.go`, `model.go`) | `modals`, `App.Current` | keys and clicks, `applyModalResult`, the intents | everything |
| Slash commands (`slash_command.go`, `slash_wizard_modal.go`) | wizard steps | dispatch, wizard, replace the editor | execution, modals |
| Results Pane (`results_pane_mode.go`, `mouse.go`) | cursor, page, window, marks, Visual Mode | navigation, paging, marking, clicks, export | `LatestResult`, modals |
| Statement Expander (`results_pane_compose.go`, `db/composer.go`) | none of its own | infer the source table, compose INSERT, UPDATE, DELETE | Results Pane, Command Pane, the database |
| Command Pane (`command_mode.go`, `editor_widget.go`) | buffer, suggestion menu, History position and draft, transcript | typing, completion, recall, submission | History, Schema, whatever writes the editor |
| List modals (`connection_picker_modal.go`, `history_search_modal.go`, `help_modal.go`, `slash_wizard_modal.go`, `export_wizard_modal.go`) | filter, selection, viewport, steps | keys, wheel, clicks, Enter | everything they hand over to |
| History (`internal/history`, `internal/filelock`) | statements, pending, one file per Connection | `Append`, `Save` under a lock | other processes |
| New Connection Wizard, connections file (`new_connection_wizard_modal.go`, `internal/config`) | wizard steps and texts, `connections.toml`, the cache of it | steps forth and back, append, reload | Picker, other processes |
| Frecency (`internal/frecency`) | scores, one file | `RecordOpen`, `Order` | Picker, other processes |
| SSH tunnel, open (`internal/db`) | the ssh process, the local port | open, close | Adapters |
| Schema, autocomplete, notifications | cached Schema, one notification and its timer | load, clear | execution, switching |

What is hard, and what each component owes:

- *Execution.* Reports arrive in any order, contexts time out or are cancelled while the
  adapter returns, a modal starts a slash command over a running Statement. Owed: `Running`
  is what is in flight; esc reaches it; nothing runs unaudited; an unwritten completion
  blocks the next Statement and is not forgotten; every Statement that ran can be recalled;
  the indicator goes away.
- *Audit Log.* An append can fail after its write. Owed: append-only, fail closed, a
  completed event only for an execution that returned.
- *Switching.* Connects overlap, fail, are aborted or finish late, under whatever modal is
  on top by then. Owed: the live Adapter is never closed, the others are closed once, a
  failed switch leaves the Session alone, the keyboard is given back.
- *History.* Processes share a file and die at any step, and a Save fails half way. Owed: no
  Statement is lost between recall and file, concurrent Saves act as if one after the other,
  the file stays bounded, and `Append`, which runs in `Update`, comes back.
- *Results Pane.* Cursor, window, marks and Visual Mode are indices into a Result Set that is
  replaced under them, and are clamped lazily. Owed: marks are rows, a range belongs to the
  Result Set it was begun in, a move leaves the cursor on the screen.
- *Statement Expander.* What it composes is submitted later, on a table that has changed. Owed:
  it reaches the rows it was composed for and no other.
- *Command Pane.* The menu, the cycle through it, History navigation and messages from outside
  write one buffer. Owed: no key loses what was typed, a menu belongs to the text it completes.
- *List modals.* Five lists have five copies of filter, selection and viewport, and are drawn
  by one piece of code and clicked through another. Owed: the highlighted entry is on the
  screen, Enter takes what is shown. A click owes the entry under it, and in the slash wizard it
  takes another (known divergences).
- *New Connection Wizard.* Its append runs beside the user and other processes. Owed: what it
  writes can be loaded, no table is dropped, no name is defined twice.
- *Composition.* A Statement outlives the Session it runs on. Owed: its History, its Result
  Set and its Adapter stay those of its own Session.

`PROJECT.json` lists the hazards one by one, at the line where each bites.

## Modules

`Execution.tla` models `handleSubmitIntent`, `handleCancelRunningIntent`,
`handleStatementExecuted`, `handleSlashCommandExecuted`, the `auditCompletionRetriedMsg`
case, the coordinator and the goroutines. One `Handle...` action is one call of `Update`; the
steps of a goroutine are `AppendSubmitted`, `Invoke`, `Return` and `AppendCompleted`. A task
is an execution identity (`Queries`) or a slash command, which the code runs without an
identity; a slash command started from a modal skips the submission guard
(`DispatchFromModal`). `FileLog.append` returns `"ok"`, fails before its write (`"lost"`) or
after it (`"written"`). The text of the editor is an element of `Texts`: what matters is
which branch of the submission it takes.

`AuditJournal.tla` is what auditing promises: a journal that is only appended to, with a
submitted event before an execution starts and completed events after it returned.
`Execution` implements it (`JournalImplemented`).

`Switching.tla` models the handlers of `connection_picker.go` and
`connection_picker_modal.go`, the routing of keys and clicks, and the modal stack. An attempt
is one call of `Model.open` and names the Adapter it yields. `lock` is `cancelConnect`:
`ReleaseLock` calls and clears whatever it holds, as every handler does, even when it belongs
to another attempt. Modals without influence on a connect are one kind, `"other"`. Clicks reach
a modal while a connect is in flight (`Reachable`), keys do not (`KeysReach`).

`Sqlcery.tla` composes the two over one Session, named after the attempt that opened it. A
composed action is one `Update`: `Submit` runs the submission of `Execution` and the `SetReady`
or the modal that it shows in `Switching`; `Connected` installs an Adapter and wires or
replaces the Session. `crossed` is a history variable: something was started while a Picker was
open or a connect on its way.

A slash command that the Command Pane starts reaches `Switching` through `SlashStep`, which
`SlashesRun` holds back until the startup connect is over, as no key reaches the pane before.

`HistoryStore.tla` models one History file and the `History` values, of any process, that share
it. A handle opens (`Open`, `Opened`), remembers a Statement (`Remember`) and saves what is
`pending`: `Acquire`, `Load`, one `MergeOne` per turn of the loops, `WriteTemporary`, `Replace`,
`Release`, each with its failure, and `Die` between any two. The file is a sequence of Statements;
reading it and renaming over it are one step each. A lock whose `Unlock` failed stays with its
descriptor until `Finalize`. `Append` runs in `Update`, so `Execution` and `Sqlcery`, which
only know whether a Statement is remembered, see it as part of their handlers.

`ResultsPane.tla` models the pane's keys (`NavigateRow` ... `PressOther`), composition and export,
the Keybindings rows that call its handlers, clicks and the wheel, the intents that arrange the
panes, and the events that replace the Result Set, the layout or the size. Rows are numbers. The
code's `View` clamps a copy of the pane, so what is shown (`ShownRow`, `ShownFirst`) and what is
stored (`row`, `top`) are two things, as in the code. `origin` is a history variable: whether V
was pressed in this Result Set, and at a stored row other than the one shown (`"astray"`).

`StatementExpansion.tla` reads a query, a sequence of tokens as `sqlLex` leaves them, for its source
(`InferredSource`, which may find none), makes a Result Set of a table (`ResultSet`), composes from its rows
(`ComposeInsert`, `ComposeUpdate`, `ComposeDelete`, `ComposeDeleteBulk`) and submits the Statement
after another client changed the table. `Hits`, `Adds` and `After` are SQL's meaning of the
predicates and belong to the database; they are marked external in `PROJECT.json`.

`NewConnection.tla` models the wizard, its steps forth and back (`EscBack`), the confirmation before
it is left, the append as it runs beside the user (`ReadFile`, `RenameFile`, `AppendFails`), its
answer (`SaveSucceeded`, `SaveFailed`) with the reload of the cache, and other processes that append
or restart. A file is a sequence of tables.

`CommandPane.tla` models the editor: `EditorKey` is any key that edits, `Following`, `Preceding`,
`Accept`, `Escape` and `Tab` the menu, `Up` and `Down` the cursor or History. `Updated` is what
`Update` does with the editor after its own change, on every message. A text is a sequence of
words; a newline is a word. `catalog` is what suggestions are made from, the Schema with the latest
Result Set; which they are is data (`Offers`), and with neither there are still keywords and Slash
Commands (`BareCatalog`). A Schema arrives at any moment and a Result Set with an answer
(`MadeFrom`), and the menu on the screen (`cached`) stays what it was, as in the code. `stale` is a
history variable: the catalog changed under the menu.

`ListModals.tla` models the five list modals as one record with a kind: what each lists (`Entries`),
where it believes its rows are (`LazyScroll`, `ClickedIndex`) and where they are drawn (`DrawnRows`),
and what Enter leads to (`Submitted`). `ColumnsFor` looks in the Schema alone; the Adapter that
`loadSlashColumns` asks when the Schema lacks the columns (`slash_command.go:622`), and a Schema that
is replaced between two steps of the wizard, are left out: tables and columns are constants. `fuzzyMatch` is modelled letter by letter (`Scanned`), with its
score, as ranking decides what is highlighted.

The `MC` modules are the instances for TLC. Operators marked *Variant* are what a plausible
mistake would make of the definition that follows them; they are used by no specification.

## Runs

Passing runs:

- `execution_core`: two Statements, one slash command that is typed or started from a modal, all
  append results, a message of each intent in flight, in the behaviours of `OrderlySpec`: the modal
  may start its command over a filled slot or a retry in flight, and not over a Running task.
  `Running` is the one task in flight, an unwritten completion is in the slot, nothing is
  forgotten, and submission is blocked until it is written. Two Statements are enough for a second
  one to meet the slot, the retry and the report of the first; a third would only repeat the second.
- `execution_modal`: a Statement and a slash command from a modal, which may override it, with
  fairness. Auditing stays fail closed and ordered, and implements `AuditJournal`; esc reaches
  the Running task; every live context can still be cancelled; the indicator goes away.
- `switching`: a start from the startup Picker or with a Connection on the command line, two
  Connections, two attempts: a first connect and a switch, or two that overlap, with up to
  three modals on top of each other, and with fairness. The properties about cancelling and
  closing are stated for behaviours without overlap, the others for all.
- `sqlcery`, `sqlcery_slash`: the composition with an auto-connect and one switch, with a
  Statement, and with a slash command, typed or from a modal. They explore `CalmSpec`, the behaviours
  without crossing, which are all that the `Uncrossed` properties speak of: in these, History,
  Adapter and Result Set stay with the Session and nothing is Running when it is replaced.
- `history_store`: two processes on one History file that is absent, or holds duplicates and
  too many entries; every step of a Save may fail and every process may die, with fairness.
  `SavesAreAtomic` says each new file `IsMostRecent`, and TLC compares that description with an
  algorithm, `MostRecent`, on all short sequences (`MostRecentIsUnique`). Two
  handles suffice, as a third only waits; three Statements and a cap of two let every append
  replace, drop or keep an entry.

- `results_pane`: Result Sets of two and four rows on pages of three, with an error in between, and
  two terminals on which a page does or does not fit; two Marked Rows, one modal. A second page
  that is shorter than the first, rows that exist in one Result Set only, and ranges that span
  pages all occur.
- `statement_expansion`: tables of up to two rows with no key, one key column or two, seven
  projections (whole, partial and renamed keys, a column twice), and two queries: one whose source is
  found behind an earlier Statement and a function with a `FROM`, and a join, which has none. Two
  rows are one that is meant and one that must be spared.
- `new_connection`: two types, two appends, own or of another process, one file, and texts that
  are empty, blank, right and wrong. Two appends are one that writes and one that has read before.
- `command_pane`: one typed word that keywords complete in one way and a Schema in another, too,
  so that a cycle has one entry or two; a Newline, a Statement and a Slash Command that arrive; two catalogs,
  each of which may replace the other at any moment; two words typed, two History entries, a
  transcript of up to one row and a pane of two or three. The module allows completions after a
  Newline and of a slash, as the code has them; in the instance there are none, as they would only be
  further words.
- `list_modals`: lists as long as their box, longer (the Picker, too), or filtered down to less; three tables, two of
  which have one name; three Statements that may differ in blanks alone; a terminal as wide as a
  modal and a narrower one.

`new_connection_duplicate` ends in a counterexample to what ADR 0020 says (`NoDuplicateTable`):
Enter is pressed again before the first append has answered.

Bounds: `MaxInbox` and `MaxMail` bound undelivered intents to one (of each kind, or in all),
which delays a key but excludes no order of handlers; `MaxModals` is the depth of the modal
stack; `MaxLog` bounds how often a retry may leave a torn event. `Typing` lists
the texts a user puts in the editor, `CommandLine` what the program may be started with.
Every execution identity and every attempt is used once, as in the code. `MaxEntries` is a
parameter of the code's own (1000).

In the `results_pane` run `MaxMarks` and `MaxModals` bound the Marked Rows and the modal stack.
`MaxWords`, `MaxHistory`, `MaxTranscript`, `MaxFilter` and `MaxTableRows` bound texts, History, the
transcript, filters and tables. In `ListModals` a modal other than History Search is opened over an empty
History and one width, which it does not read (`OutsideIsRead`).

`sqlcery` and `sqlcery_slash` are two runs for a reason: with a Statement and a slash command that a
modal dispatches over it, a switch can be started while the Adapter still executes, as the
overridden Statement no longer counts as Running, and the `Uncrossed` invariants fail. Where none
is dispatched over it (`OrderlySpec`) they hold, which is proved; that instance, with both, is too
large for a run.

`CHECK_DEADLOCK FALSE` is set for `Switching` and `Sqlcery`, where attempts run out.

The type invariants `TypeOK`, `STypeOK` and `HTypeOK` are proved; `RTypeOK` and `CTypeOK` are stated.
`FileWellFormed`, `ReplacementMerges`, `LockHasOwner`, `AbortArmedOnlyInFlight`, `RetryIsForSlot`,
`LiveContextIsCancellable`, `SlotHoldsFailedCompletion` and `CompletionsFollowSubmissions` are proved
and have no run of their own. `PickerListsSaved` is stated only.

## Known divergences

Where the code differs from its documents or from what a reader would expect. Those that name a
property are stated in the module; where no run is named, none is spent on them, and TLC refutes
them with the bounds above or with one more Statement.

Execution, Audit Log and switching:

- `TwoEventsPerExecution`: an append that fails after its write leaves the event in the file, and
  the retry writes it again (`audit.go:133`; ADR 0004 says two events per execution).
- `EveryInvocationRecalled`, `RunningWhileInFlight` and `UnwrittenCompletionIsPending` hold while no
  modal starts a slash command over what is Running (`OrderlySpec`). One that does overrides the
  Statement, whose report is then dropped (`model.go:772`) with its History entry and its unwritten completion; and a switch
  can close its Adapter or replace its History.
- `OneOpenInFlight`: a click starts a second connect while the keyboard is withheld
  (`mouse.go:82`, against the comment at `model.go:620`).
- `HistoryAttribution`: a Statement submitted while a connect is under way is remembered in the new
  Connection's History (`model.go:781`; ADR 0004).
- `ReadyHasSession` and `StartupPickerWithoutSession`: a modal over the startup Picker that is closed
  reports Ready without a Session, and a Session can be installed under a startup Picker that stays.
- `SwitchWaitsForRunning`, `NoLingeringResults` and `RunsWhereSubmitted` of `Sqlcery`: something
  started while a switch is under way runs across it; its Result Set arrives after the panes were
  reset, and a Statement that waited for an Audit retry runs on the new Connection. The
  `Uncrossed` properties are these claims without that case, and they hold.

Results Pane:

- `ComposesWhatIsHighlighted`: after ctrl+n, ctrl+p or a new Result Set, `yy`, `cc` and `dd` use the
  stored cursor, and compose a row other than the highlighted one or fail (`CONTEXT.md:62`).
- V with a stale cursor marks rows outside the Result Set (`origin = "astray"`); an export of such
  marks alone exports every row (`model.go:1744`; ADR 0014).
- The Keybindings modal's compose rows do not ask for Visual Mode (`model.go:387`; ADR 0023).
- Neither a resize nor a zoom moves the window, a click after a page change reads the old one, and
  pages of at most `resultsPaneViewportClipThreshold` rows are cut off by the pane.
- Visual Mode survives an error that removes the Result Set, though not the next Result Set; an
  export wizard left open exports a Result Set that arrives meanwhile.

Statement Expander:

- With a composite key of which a part is selected, UPDATE and DELETE reach other rows too; without
  a key, duplicates are deleted together. A column renamed to a key's name is taken for the key. A
  bulk DELETE whose key value is NULL matches nothing (`IN`). A UNION is taken for its first
  branch, a CTE name for a table. Which table a text reads is not a matter of states: no property is
  stated about it.

New Connection Wizard:

- `NoDuplicateTable` (run `new_connection_duplicate`): a second Enter, a wizard reopened during a save
  or another process define a name twice, after which the program does not start.
- Two appends that overlap on one file, of two processes or of a second Enter, lose the entry of the
  first (`append.go:80`); `SavesKeepTables` excepts them by name (`overlapped`).
- An SSH host of blanks is saved and then refused by `Connection.Validate`; a
  `connections.toml` that is a symbolic link is replaced by the rename.
- The success of a write closes whatever modal is on top (`model.go:2399`); fields reached again
  after Esc start from their defaults.

Command Pane:

- `EditsLeaveHistory` (ADR 0015): a paste, or a text that arrives from outside, stays at the History
  position, and the next step to newer entries replaces it.
- A completion clears what was typed meanwhile (`model.go:792`), a retry replaces it
  (`model.go:370`), Esc after a paste in a cycle discards the paste, and a paste while a modal is
  open goes into the editor below it (`model.go:569`).
- When a Schema arrives, or an answer replaces the Result Set, the menu on the screen is still the
  old one but Enter takes from the new ones, until the next message to the editor. `MenuIsForThisText`
  excepts this by name (`stale`); what it then still says is that the menu is for the text that is
  completed. A Schema carries no Session, and may be that of an earlier Connection (`model.go:465`).
- On a small terminal the menu hangs below the screen and is still accepted.
- Enter in the Results Pane submits a complete buffer of the Command Pane.

List modals:

- The slash wizard's clicks ignore its one to three header rows (`slash_wizard_modal.go:372`; ADR
  0018, section 5). `Click` of `ListModals` does as the code does; that a click takes the
  entry under it is not stated: in the wizard it does not, and elsewhere the click is computed by the
  formula the rows are drawn with.
- The Picker scrolls for sixteen rows in a box of thirteen (`connection_picker_modal.go:160`), and
  with more entries than the box has rows loses its highlight. History Search wraps for the
  full width of a modal when it moves or is clicked in a narrower one. `KeysKeepHighlight` excepts
  both by name (`PickerOverflows`, `RowWidth`); the instance has such a Picker and such a width.
- A Statement that completes under History Search moves the entries under the selection. The
  last clicked row is shared by all lists and the Results Pane, so a third quick click, or one
  after the wheel, may confirm an entry that was never selected.
- Table names with dots, or that differ in case alone, are confused by the slash wizard.

## Fairness

`Execution`: goroutines run, messages are delivered, timers fire, file operations return. A
database call is only relied on to return once its context has ended, which is what a driver
that honours contexts does; `RunningEnds` therefore rests on the timeout of `begin`. Nothing is
assumed of the user. `Switching`: `open` returns within its connect timeout
(`internal/db/lifecycle.go`) and its message is delivered. `HistoryStore`: file operations
return; a lock that is free again and again is granted (strong fairness: the kernel wakes the
waiters of `flock` in turn); a descriptor whose `Unlock` failed is closed by its finalizer. The
last one matters: without it `AppendReturns` fails, as the code never tries again to unlock.

## Proofs

Every component has its proofs, in a `...Proofs` module; those of `HistoryStore` and of `ListModals`,
which have nothing to do with each other, are the two halves of `HistoryAndListsProofs`, and
`SqlceryProofs` is for the composition. They hold for every value of
the constants that satisfies the assumptions of their modules: `ExecutionAssumptions`,
`SwitchingAssumptions`, `SqlceryAssumptions`, `HistoryAssumptions`, `ResultsPaneAssumptions`,
`ExpansionAssumptions`, `CommandPaneAssumptions`, `ListModalsAssumptions`, `NewConnectionAssumptions`
and `OutsideConnections`. The assumptions say how constants relate (a "none" is no member, a cap is
positive, a pane is higher than its header, a list is a sequence) and, of what comes from outside, only
what the code relies on: `OutsideConnections` says that a connection string is parsed into a Connection
that `Validate` accepts (`resolve.go:100`), and `ListModalsAssumptions` that a table is known by its space
and its name, and that a Help Row that opens the wizard does so for one of its commands
(`help_modal.go:374`). Tables with dots in their names break the former (known divergences).

`Execution`. `TypeInv` is inductive alone. `CoordinatorInv` strengthens `CancelHitsRunning` and
`LiveContextIsCancellable` with what `begin` and `complete` maintain: a task that holds
`cancelFn` is in flight. `WorkInv` relates the phase of each Statement to its events, its
outcome, the slot and the retry; it yields `FailClosed`, `CompletionsFollowSubmissions`,
`SlotHoldsFailedCompletion` and the step simulation of `AuditJournal`. `SequentialInv`,
of `OrderlySpec`, says at most one task is in flight, and that a Statement which has been handled is
written, pending or being retried; the theorems about the slot, History and blocking follow.
`OrderlySpec` excludes a single kind of step, a slash command from a modal while something is Running
(`Overrides`), after which each of them fails (known divergences). It keeps such commands over a
filled slot and in the middle of a retry (`ModalSequential`), which `handleSubmitIntent` would hold
back: they write no completion, so they need not wait for one.

`Sqlcery`. `AppImplementsExecution` and `AppImplementsSwitching` show that each composed action
is a step or a stutter of both components, so that their theorems hold of the composition.
The second needs `AppInv`: before the startup connect is over, the Connecting modal is all there is
on screen and nothing has been submitted. `CrossInv` says that, without crossing, nothing is Running
while a switch is under way, which gives `SwitchesAreUncrossed`. `AppSequential` adds from `Execution`
that at most one task is in flight, and `UncrossedInv` that what is in flight, remembered or
shown belongs to its own Session; `AdaptersAreUncrossed` then follows from `LiveAdapterNeverClosed` of
`Switching`. The theorems are about `AppSpec`, of which the runs' `CalmSpec` is the part without
crossing. The three invariants are about the `OrderlySpec` of `Sqlcery`: a slash command from a modal that
overrides a Running Statement lets it execute on a Session that can be replaced (known divergences).
`SwitchesAreUncrossed`, which `sqlcery_slash` checks with such overrides, is about all of `AppSpec`.

`Switching`. `LockInv` says a lock belongs to an unresolved attempt; `AdapterInv` that an
attempt's `old` Adapter was installed before it and differs from it, so that closing it never
hits the live one; `CalmInv`, for behaviours without overlap, that at most one attempt is
unresolved, and its `old` Adapter is the Session.

`HistoryStore`. The lemmas say what `AppendStatement` does to a slice: it keeps it well formed,
adds its Statement, and loses another one only at the cap. `LocalInv` is inductive alone and
needs no lock: what is being built is well formed, and recall ends with what is pending.
`SaveInv` is what the lock protects: while a handle holds it, the file is the one it loaded, and
`merged` and `todo` account for every Statement of that file and of `pending` (`Done` counts
those that are merged). It yields `NothingLost` and `ReplacementMerges`. The cap enters through
one fact: a slice that lost a Statement has `MaxEntries` different ones, and a full file stays
full (`FullStaysFull`). `RecentInv` adds that `merged` is, at every turn of the loop, the most
recent Statements of what the loop went through: `MostRecentAppend` shows that one turn of
`AppendStatement` takes the description `IsMostRecent` from a sequence to the next longer one, and
`SavesAreSerial` follows at `Replace`, when the loop is through `file \o pending`.

`ResultsPane`. `PInv` has two parts. `PaneTypes` says the stored indices are naturals and the
Result Set one of those there may be, which is all the arithmetic of pages and windows needs
(`PageInResult`, `WindowInPage`): the row a key or a click stores lies in the Result Set however
stale the page and the window are. `MarksInv` strengthens `MarksAreRows` and
`VisualModeOfThisResult` with the range itself: unless V was pressed astray, the anchor and the
cursor of Visual Mode are rows, so that confirming the range marks rows only.
`CursorStaysOnScreen` goes through every handler that moves the cursor: `scrolloffViewport` puts the
row in its window (`ScrolledIntoView`), the window fits the lines of the pane (`WindowInPage`), and
what the pane derives when it draws keeps it there (`SyncIsShown`). The proof did not go through
for the claim as first stated, and TLC showed why on larger pages: the window of one Result Set can
be kept while no rows are shown, and a click, or V, brings the cursor of the next one up without
`applyScrollOff` (`mouse.go:142`, against the comment at `results_pane_mode.go:391`), outside
of what is drawn. So can a terminal so low that the pane has fewer lines than its minimum. The
property now names both cases.

`StatementExpansion`. `ResultInv` says that the columns of a Result Set with a key position are those
with the name of a key column; `ComposedInv` that what is in the Command Pane was composed, in one
of four forms, from the Result Set that is still there. What each form reaches when it is submitted
follows from the meaning of its predicates alone (`Hits`), whatever other clients did to the
table in between.

`CommandPane`. `PaneInv`: `MenuInv` relates the cached menu and the cycle to the text they complete,
and excludes a menu or a cycle at a History position; `TextKept` says where the user's text is in
each mode: in the buffer, in the draft of History, or in the restore slot of the cycle. Every key
must keep both, as leaving one mode enters another. `Shaped` and `HistoryInv` are types.
`MenuInv` says the menu is made of the text that is completed from some catalog (`Lists`), whatever
arrived; `MadeInv` that, unless it is `stale`, it is made from the present one (`Matches`). Every
handler either computes the menu anew, leaves text and catalog alone, or, when it replaces the catalog
under an open menu, makes it stale (`ReplacedMatches`); a list that a cycle has frozen is made from no
catalog any more, so none that arrives makes it stale. `MenusAreForThisText` follows.
`TypingStaysInSight` rests on `SeenInv`: a text has no fewer lines than its part before the cursor
(`CursorIsInTheText`), and while the menu is open the transcript is not scrolled (`ScreenInv`), so the
pane shows the end of its content, and moves up from there only as far as the cursor is.

`ListModals`. `ListsInv` gives the modal its types and says that the wizard lists the tables, and the
columns of the table that its filter and highlight pick out, in the steps after their choice, and
that a wizard opened for a command never shows its commands; what is shown and what is handed over
then agree in every step (`TakenIsShown`). `FilterHidesNoMatch` needs facts about the operators first:
`InOrderLists`, that a stable sort by weight lists each member of a set once; `FuzzyFinds`, that the
greedy scan of `fuzzyMatch` finds the letters of the filter exactly when they occur in their order
(`FoundOccurs`, `OccursFound`). What would be an induction over the letters is there a choice of the
least counterexample (`LeastNat`), as the induction theorems of the library cannot be used here. Then
`NewestOf` and `NewestIsOne`, that of the Statements that are equal but for their blanks one is the
newest.
`KeysKeepTheHighlight` goes through every key: `lazyScroll` brings all rows of an entry into the
viewport (`ScrolledIsFramed`), a filter or a new list starts at its top (`SeesTop`), and a step that is
gone back to still has its place (`SeesSame`). It has no hypothesis about the constants: a Picker
longer than its box is excepted in the property, as the code does lose the highlight there.

`NewConnection`. `FileInv` says that, unless two appends overlapped, whoever has read a file has
read what is in it still, and no one else has; a rename then only adds a table. `WizardInv` says
which fields of the current type are filled in at each step, forth and back; with `SavesInv`, that
carries it over the append, it yields `SavesAreComplete`. `HasteInv` is for `DuplicatesAreHasty`:
at an unhurried pace one save is under way (`OneSave`), and the snapshot of names that the wizard checks
has every name of the files (`NamesInv`). That second claim was false at first: the property used to
excuse a blank SSH host only in the file with the duplicate, and TLC showed, with two files, that a
blank one in the other file is enough, as it keeps the whole cache from being reloaded.

Only model-checked:

- the liveness properties `RunningEnds`, `LockLifts` and `AppendReturns`, as TLAPS does not prove
  liveness under fairness;
- `RTypeOK` and `CTypeOK`, of which the proofs use the parts they need.

## Not modelled, and the plan

Planned, in this order:

1. The Schema message as part of `Switching`: it names no Session. (`CommandPane` has it arrive.)
2. `ResultsPane` and `CommandPane` composed with `Sqlcery`, whose Result Set and editor they refine.
3. Frecency, the SSH tunnel, notification timers; the Audit file at the level of lines, under
   the lock that `HistoryStore` models.

Left out for good: drawing, layout and themes; SQL text generation and highlighting beyond
what a property needs; drivers and export writers (pure I/O); decoding of TOML.
