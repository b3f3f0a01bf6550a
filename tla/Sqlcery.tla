------------------------------- MODULE Sqlcery -------------------------------
(***************************************************************************)
(* The Model of internal/app/model.go as a whole: Execution and Switching  *)
(* composed over one Session.  The Update that runs a handler changes the  *)
(* state of both at once: a key only submits when no modal and no connect  *)
(* has the keyboard, /connect and a wizard push a modal, a connect that    *)
(* succeeds replaces the Session an execution is recorded under.           *)
(*                                                                         *)
(* A Session is named after the attempt that opened its Adapter.           *)
(***************************************************************************)
EXTENDS Naturals, Sequences, FiniteSets

CONSTANTS
  Conns, NoConn, Attempts, NoAttempt, CommandLine, MaxMail, MaxModals,
  Statements, Queries, TypedSlashes, ModalSlashes, NoTask, Typing, MaxInbox, MaxLog

ASSUME SqlceryAssumptions ==
  /\ NoConn \notin Conns /\ NoAttempt \notin Attempts
  /\ CommandLine \subseteq Conns \cup {NoConn}
  /\ NoTask \notin Queries \cup TypedSlashes \cup ModalSlashes
  /\ Queries \cap (TypedSlashes \cup ModalSlashes) = {}
  /\ Statements \cap {"empty", "connect", "malformed_slash", "slash"} = {}
  /\ Typing \subseteq Statements \cup {"empty", "connect", "malformed_slash", "slash"}
  /\ {MaxMail, MaxModals, MaxInbox, MaxLog} \subseteq Nat

VARIABLES
  session,
  boot, appState, modals, attempt, cancelled, lock, pendingAbort, overlap, closes, mail, quit,
  editor, shown, inbox, running, cancelFn, ctx, phase, job, outcome, pending, retry,
  log, unacked, history,
  crossed      \* some execution was started while a switch was under way (history)

Sw == INSTANCE Switching
Ex == INSTANCE Execution WITH Sessions <- Attempts, NoSession <- NoAttempt

switchVars == <<boot, appState, modals, attempt, cancelled, lock, pendingAbort, overlap,
                closes, mail, quit>>
executionVars == <<editor, shown, inbox, running, cancelFn, ctx, phase, job, outcome,
                   pending, retry, log, unacked, history>>
appVars == <<session, switchVars, executionVars, crossed>>

AppInit ==
  /\ Sw!SInit
  /\ Ex!Init
  /\ crossed = FALSE

\* Steps of one component that the other does not notice.
SwitchOnly == UNCHANGED executionVars
ExecuteOnly == UNCHANGED switchVars

(******************************* keyboard *********************************)

\* Typing in the Command Pane; history search restores a Statement as it closes.
EditText(text) ==
  /\ (Sw!KeysReachPanes /\ ExecuteOnly) \/ Sw!CloseOther
  /\ Ex!Type(text)

\* Enter in the Command Pane, or the help row that stands for it.
SubmitKey ==
  /\ (Sw!KeysReachPanes /\ ExecuteOnly) \/ Sw!PaneRow
  /\ Ex!PressSubmit

EscKey == Sw!KeysReachPanes /\ Ex!PressEsc /\ ExecuteOnly

\* The help and the slash wizard modals start a slash command as they close.
RunFromModal == Sw!ModalSlash /\ \E t \in ModalSlashes : Ex!DispatchFromModal(t)

(******************************* handlers *********************************)

\* What the submission of text means for the modal stack and the state.
SubmitShows(text) ==
  CASE text = "connect" -> Sw!SlashConnect \/ Sw!SlashWizard \/ Sw!ReportReady
    [] text = "empty" -> Sw!ReportReady \/ ExecuteOnly
    [] text \in Statements -> IF session = NoAttempt THEN ExecuteOnly ELSE Sw!ReportReady
    [] OTHER -> Sw!ReportReady

Submit ==
  /\ IF Ex!StillRunning \/ Ex!CompletionUnwritten THEN ExecuteOnly ELSE SubmitShows(editor)
  /\ Ex!HandleSubmitIntent

AuditRetried ==
  /\ IF Ex!RetrySucceeded /\ ~Ex!StillRunning THEN SubmitShows(retry.stmt) ELSE ExecuteOnly
  /\ Ex!HandleAuditCompletionRetried

StatementExecuted(q) ==
  /\ IF Ex!Superseded(q) THEN ExecuteOnly ELSE Sw!ReportReady
  /\ Ex!HandleStatementExecuted(q)

SlashExecuted(t, text) ==
  /\ IF outcome[t] = "success" THEN Sw!ReportReady \/ (text = "empty" /\ Sw!SlashWizard)
     ELSE Sw!SlashError
  /\ Ex!HandleSlashCommandExecuted(t, text)

\* Variant: the Picker is shown whatever is Running.
MaySwitchAlways == running \in Ex!Tasks \cup {NoTask}

\* openConnectionPickerIntentMsg: not while a Statement is Running.
MaySwitch == running = NoTask

SwitchIntent ==
  /\ \/ MaySwitch /\ Sw!OpenPicker
     \/ ~MaySwitch /\ Sw!RefusePicker
  /\ SwitchOnly

Connected(i) ==
  \/ Sw!PickerConnectSuccess(i) /\ Ex!WireSession(i)
  \/ Sw!MidRunConnectSuccess(i) /\ Ex!ReplaceSession(i)

(****************************** specification *****************************)

\* A Picker is open or a connect is on its way.
SwitchUnderway ==
  \/ \E k \in 1 .. Len(modals) : Sw!IsPicker(modals[k].kind)
  \/ \E c \in Conns : Sw!Request(c) \in mail
  \/ \E i \in Attempts : Sw!Unresolved(i)

Started == \E t \in Ex!Tasks : phase[t] = "idle" /\ phase'[t] = "begun"

ConnectStep(i) ==
  \/ Sw!PickerConnect(i)
  \/ \E c \in Conns : Sw!MidRunConnect(i, c)
  \/ \E ok \in BOOLEAN : Sw!OpenReturns(i, ok)
  \/ Sw!PickerConnectFailed(i)
  \/ Sw!MidRunConnectFailed(i)

SwitchingStep ==
  /\ \/ Sw!PickerInit
     \/ Sw!KeyStep
     \/ Sw!ToggleHelp
     \/ Sw!FocusPane
     \/ Sw!ConnectAbort
     \/ \E i \in Attempts : ConnectStep(i)
  /\ SwitchOnly

BackgroundStep ==
  /\ \/ \E q \in Queries : Ex!GoroutineStep(q)
     \/ \E t \in Ex!Slashes, failed \in BOOLEAN : Ex!SlashDone(t, failed)
     \/ \E t \in Ex!Tasks : Ex!Expire(t)
     \/ \E result \in Ex!AppendResults : Ex!RetryAppend(result)
     \/ Ex!HandleCancelRunningIntent
  /\ ExecuteOnly

AppNext ==
  /\ \/ SwitchingStep
     \/ BackgroundStep
     \/ \E text \in Typing : EditText(text)
     \/ SubmitKey
     \/ EscKey
     \/ RunFromModal
     \/ Submit
     \/ AuditRetried
     \/ \E q \in Queries : StatementExecuted(q)
     \/ \E t \in Ex!Slashes, text \in Ex!Texts : SlashExecuted(t, text)
     \/ SwitchIntent
     \/ \E i \in Attempts : Connected(i)
  /\ crossed' = (crossed \/ (SwitchUnderway /\ Started))

AppSpec == AppInit /\ [][AppNext]_appVars

\* The behaviours in which nothing is started while a switch is under way: all that the
\* Uncrossed properties speak of, since crossed never becomes FALSE again.
CalmSpec == AppInit /\ [][AppNext /\ ~crossed']_appVars

\* The behaviours in which no modal starts a slash command over what is Running.
OrderlySpec == AppInit /\ [][AppNext /\ ~Ex!Overrides]_appVars

(******************************* properties *******************************)

\* As long as nothing is started while a switch is under way, looking at Running when
\* the Picker is asked for is enough: what ran is remembered under the Session it ran on,
UncrossedHistory ==
  ~crossed => \A i \in Attempts : \A q \in history[i] : job[q].on = i

\* no Adapter is closed under a Statement that it is executing,
UncrossedAdapters ==
  ~crossed => \A q \in Queries : phase[q] = "invoked" => closes[job[q].on] = 0

\* and the Result Set on screen came from the live Session.
UncrossedResults ==
  ~crossed => (shown # NoTask => job[shown].on = session)

\* A Session is only replaced while nothing is Running, although slash commands run from
\* a modal override each other and the Session can take long to open.
UncrossedSwitches == [][session' # session /\ ~crossed' => running = NoTask]_appVars

(********************** what the documents say of it **********************)

\* "Cancel the running statement first.": the Session is not replaced under a Running
\* Statement or slash command.
SwitchWaitsForRunning == [][session' # session => running = NoTask]_appVars

\* History is per Connection: what was run against that database (ADR 0004).
HistoryAttribution ==
  \A i \in Attempts : \A q \in history[i] :
    Sw!Connection(i) = Sw!Connection(job[q].on)

\* After a switch there is no lingering Result Set (resetPanesToInit).
NoLingeringResults ==
  shown # NoTask => Sw!Connection(job[shown].on) = Sw!Connection(session)

\* A Statement held back by an unwritten Audit completion runs where it was submitted.
RunsWhereSubmitted ==
  \A q \in Queries : Sw!Connection(job[q].origin) = Sw!Connection(job[q].on)

=============================================================================
