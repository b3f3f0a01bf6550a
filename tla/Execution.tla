------------------------------ MODULE Execution ------------------------------
(***************************************************************************)
(* How a Statement is run: the submit and cancel intents of the Model, the *)
(* executionCoordinator, the goroutines that executeStatementCmd and       *)
(* executeSlashCommandCmd start, the single slot for an unwritten Audit    *)
(* completion and its retry (internal/app/model.go, execution.go,          *)
(* internal/audit/audit.go).                                               *)
(*                                                                         *)
(* The Model is single-threaded: one Handle action is one call of Update.  *)
(* A tea.Cmd runs in a goroutine of its own and its message is delivered   *)
(* some time later, in no fixed order: a message in flight is therefore a  *)
(* count in inbox, or the phase of the task that will send it.             *)
(***************************************************************************)
EXTENDS Naturals, Sequences

CONSTANTS
  Sessions,      \* live Sessions, named after what they were opened on
  NoSession,     \* no live Session: Session.Adapter is nil
  Statements,    \* complete SQL Statements a user may have in the editor
  Queries,       \* execution identities; each is used once
  TypedSlashes,  \* runs of slash commands that may be started by submitting their text
  ModalSlashes,  \* and from the help or the slash wizard modal; one may be in both
  NoTask,        \* nil, for Running, cancelFn and PendingAuditCompletion
  Typing,        \* bound: the texts the user puts in the editor
  MaxInbox,      \* bound: undelivered intent messages of each kind
  MaxLog         \* bound: log length from which a retry leaves no torn event

Slashes == TypedSlashes \cup ModalSlashes
Tasks == Queries \cup Slashes

\* Editor text that handleSubmitIntent answers with a message or a modal only;
\* "empty" stands for incomplete SQL too, "connect" for /connect, /commands and a
\* command that lacks its table.
InertTexts == {"empty", "connect"}
OtherTexts == InertTexts \cup {"malformed_slash", "slash"}
Texts == Statements \cup OtherTexts

ASSUME ExecutionAssumptions ==
  /\ NoSession \notin Sessions
  /\ NoTask \notin Tasks
  /\ Queries \cap Slashes = {}
  /\ Statements \cap OtherTexts = {}
  /\ Typing \subseteq Texts
  /\ MaxInbox \in Nat
  /\ MaxLog \in Nat

VARIABLES
  session,   \* Model.session: the live Session, if any
  editor,    \* Command Pane text, mirrored as CurrentSQL
  inbox,     \* submitIntentMsg and cancelRunningIntentMsg not yet delivered
  running,   \* InteractionState.Running
  cancelFn,  \* executionCoordinator.cancelFn: the task whose context it cancels
  ctx,       \* each task's context
  phase,     \* how far each task has got; a sent message is "refused"/"reported"
  job,       \* what a Query executes, on which Session, and for whom
  outcome,   \* CompletedEvent.Outcome, once the adapter has returned
  log,       \* events in the Audit Log file, oldest first
  unacked,   \* Queries whose AppendCompleted returned an error
  pending,   \* InteractionState.PendingAuditCompletion
  retry,     \* retryAuditCompletionCmd in flight; AuditRetrying = phase # "idle"
  history,   \* Statement History of each Session's Connection
  shown      \* InteractionState.LatestResult: whose Result Set is on screen

uiVars   == <<session, editor, shown>>
execVars == <<running, cancelFn, ctx>>
workVars == <<phase, job, outcome>>
slotVars == <<pending, retry>>
fileVars == <<log, unacked, history>>
vars == <<uiVars, inbox, execVars, workVars, slotVars, fileVars>>

(*************************** states and types *****************************)

Phases == {"idle", "begun", "refused", "submitted", "invoked", "finished",
           "reported", "handled", "dropped"}
Outcomes == {"none", "success", "failure", "cancelled", "timed_out"}
Jobs == [stmt : Texts, on : Sessions \cup {NoSession}, origin : Sessions \cup {NoSession}]
NoJob == [stmt |-> "empty", on |-> NoSession, origin |-> NoSession]
Events == [event : {"submitted", "completed"}, id : Queries]
Retries == [phase : {"idle", "appending", "ok", "failed"},
            id : Queries \cup {NoTask}, stmt : Texts, origin : Sessions \cup {NoSession}]
NoRetry == [phase |-> "idle", id |-> NoTask, stmt |-> "empty", origin |-> NoSession]

\* The type of every variable of Execution: what a value of the Model's fields can be.
TypeOK ==
  /\ session \in Sessions \cup {NoSession}
  /\ editor \in Texts
  /\ inbox \in [{"submit", "cancel"} -> 0 .. MaxInbox]
  /\ running \in Tasks \cup {NoTask}
  /\ cancelFn \in Tasks \cup {NoTask}
  /\ ctx \in [Tasks -> {"live", "cancelled", "expired"}]
  /\ phase \in [Tasks -> Phases]
  /\ job \in [Queries -> Jobs]
  /\ outcome \in [Tasks -> Outcomes]
  /\ log \in Seq(Events)
  /\ unacked \in SUBSET Queries
  /\ pending \in Queries \cup {NoTask}
  /\ retry \in Retries
  /\ history \in [Sessions -> SUBSET Queries]
  /\ shown \in Queries \cup {NoTask}

InFlight(t) == phase[t] \notin {"idle", "handled", "dropped"}
Invoked(q) == phase[q] = "invoked" \/ outcome[q] # "none"
Recorded(e, q) == \E i \in 1 .. Len(log) : log[i] = [event |-> e, id |-> q]

Init ==
  /\ session \in Sessions \cup {NoSession}
  /\ editor = "empty"
  /\ inbox = [m \in {"submit", "cancel"} |-> 0]
  /\ running = NoTask
  /\ cancelFn = NoTask
  /\ ctx = [t \in Tasks |-> "live"]
  /\ phase = [t \in Tasks |-> "idle"]
  /\ job = [q \in Queries |-> NoJob]
  /\ outcome = [t \in Tasks |-> "none"]
  /\ log = <<>>
  /\ unacked = {}
  /\ pending = NoTask
  /\ retry = NoRetry
  /\ history = [c \in Sessions |-> {}]
  /\ shown = NoTask

(************************ the executionCoordinator ************************)

\* The contexts after calling the CancelFunc of task c (none for NoTask).
CancelContext(c) ==
  [t \in Tasks |-> IF t = c /\ ctx[t] = "live" THEN "cancelled" ELSE ctx[t]]

\* begin: cancels any previous execution and makes t the Running Statement.
BeginExecution(t) ==
  /\ ctx' = CancelContext(cancelFn)
  /\ cancelFn' = t
  /\ running' = t
  /\ phase' = [phase EXCEPT ![t] = "begun"]

\* Variant: the CancelFunc outlives the execution.
CompleteKeepsCancelFn ==
  /\ ctx' = CancelContext(cancelFn)
  /\ running' = NoTask
  /\ UNCHANGED cancelFn

\* complete: cancels the context cancelFn owns and clears Running, whoever it is.
CompleteExecution ==
  /\ ctx' = CancelContext(cancelFn)
  /\ cancelFn' = NoTask
  /\ running' = NoTask

(***************************** user input *********************************)

\* Typing, history recall, $EDITOR and Statement Expansion all rewrite the editor.
Type(text) ==
  /\ editor' = text
  /\ UNCHANGED <<session, shown, inbox, execVars, workVars, slotVars, fileVars>>

Send(m) ==
  /\ inbox[m] < MaxInbox
  /\ inbox' = [inbox EXCEPT ![m] = @ + 1]
  /\ UNCHANGED <<uiVars, execVars, workVars, slotVars, fileVars>>

Receive(m) ==
  /\ inbox[m] > 0
  /\ inbox' = [inbox EXCEPT ![m] = @ - 1]

\* Enter or the submit key.
PressSubmit == Send("submit")

\* Esc only becomes a cancel intent while something is Running.
PressEsc == running # NoTask /\ Send("cancel")

(************************ submitting and cancelling ***********************)

StartQuery(q, stmt, origin) ==
  /\ phase[q] = "idle"
  /\ BeginExecution(q)
  /\ job' = [job EXCEPT ![q] = [stmt |-> stmt, on |-> session, origin |-> origin]]
  /\ UNCHANGED <<outcome, fileVars, shown>>

StartSlash(t) ==
  /\ phase[t] = "idle"
  /\ BeginExecution(t)
  /\ UNCHANGED <<job, outcome, fileVars, shown>>

NothingStarted == UNCHANGED <<execVars, workVars, fileVars>>

\* What handleSubmitIntent does with text once nothing stands in its way.
SubmitText(text, origin) ==
  \/ text \in InertTexts /\ NothingStarted /\ UNCHANGED shown
  \/ text = "malformed_slash" /\ NothingStarted /\ shown' = NoTask
  \/ text = "slash" /\ \E t \in TypedSlashes : StartSlash(t)
  \/ text \in Statements /\ session = NoSession /\ NothingStarted /\ UNCHANGED shown
  \/ /\ text \in Statements
     /\ session # NoSession
     /\ \E q \in Queries : StartQuery(q, text, origin)

\* Variants: a check of handleSubmitIntent is missing.
StillRunningIgnored == FALSE
CompletionUnwrittenIgnored == FALSE

StillRunning == running # NoTask
CompletionUnwritten == pending # NoTask

StartRetry ==
  /\ retry.phase = "idle"
  /\ retry' = [phase |-> "appending", id |-> pending, stmt |-> editor, origin |-> session]
  /\ UNCHANGED <<pending, execVars, workVars, fileVars, shown>>

HandleSubmitIntent ==
  /\ Receive("submit")
  /\ UNCHANGED <<session, editor>>
  /\ \/ StillRunning /\ NothingStarted /\ UNCHANGED <<shown, slotVars>>
     \/ ~StillRunning /\ CompletionUnwritten /\ StartRetry
     \/ /\ ~StillRunning /\ CompletionUnwritten /\ retry.phase # "idle"
        /\ NothingStarted /\ UNCHANGED <<shown, slotVars>>
     \/ /\ ~StillRunning /\ ~CompletionUnwritten
        /\ SubmitText(editor, session)
        /\ UNCHANGED slotVars

\* Esc reached the Model: the context is cancelled, Running stays until the task reports.
HandleCancelRunningIntent ==
  /\ Receive("cancel")
  /\ IF StillRunning
       THEN /\ ctx' = CancelContext(cancelFn)
            /\ cancelFn' = NoTask
       ELSE UNCHANGED <<ctx, cancelFn>>
  /\ UNCHANGED <<running, uiVars, workVars, slotVars, fileVars>>

\* modalResultExecute: the help and slash wizard modals start a slash command
\* without the checks of handleSubmitIntent.
DispatchFromModal(t) ==
  /\ StartSlash(t)
  /\ UNCHANGED <<session, editor, inbox, slotVars>>

(************************ the execution goroutines ************************)

\* FileLog.append fails before the write ("lost"), or after it ("written": a
\* failed Sync, Close or lock Release leaves the event in the file), or succeeds.
AppendResults == {"ok", "lost", "written"}
AppendEvent(e, q, result) ==
  log' = IF result = "lost" THEN log ELSE Append(log, [event |-> e, id |-> q])

\* Variant: an append error does not stop the execution.
AfterSubmittedFailOpen(result) == IF result \in AppendResults THEN "submitted" ELSE "refused"

AfterSubmitted(result) == IF result = "ok" THEN "submitted" ELSE "refused"

AppendSubmitted(q, result) ==
  /\ phase[q] = "begun"
  /\ AppendEvent("submitted", q, result)
  /\ phase' = [phase EXCEPT ![q] = AfterSubmitted(result)]
  /\ UNCHANGED <<uiVars, inbox, execVars, job, outcome, slotVars, unacked, history>>

\* ExecuteStatementContext is called on the adapter captured when q was begun.
Invoke(q) ==
  /\ phase[q] = "submitted"
  /\ phase' = [phase EXCEPT ![q] = "invoked"]
  /\ UNCHANGED <<uiVars, inbox, execVars, job, outcome, slotVars, fileVars>>

\* An error is put down to the context's end, when the context has ended.
OutcomeOf(t, failed) ==
  CASE ~failed -> "success"
    [] failed /\ ctx[t] = "live" -> "failure"
    [] failed /\ ctx[t] = "cancelled" -> "cancelled"
    [] failed /\ ctx[t] = "expired" -> "timed_out"

Return(q, failed) ==
  /\ phase[q] = "invoked"
  /\ phase' = [phase EXCEPT ![q] = "finished"]
  /\ outcome' = [outcome EXCEPT ![q] = OutcomeOf(q, failed)]
  /\ UNCHANGED <<uiVars, inbox, execVars, job, slotVars, fileVars>>

AppendCompleted(q, result) ==
  /\ phase[q] = "finished"
  /\ AppendEvent("completed", q, result)
  /\ unacked' = IF result = "ok" THEN unacked ELSE unacked \cup {q}
  /\ phase' = [phase EXCEPT ![q] = "reported"]
  /\ UNCHANGED <<uiVars, inbox, execVars, job, outcome, slotVars, history>>

\* The slash handler has returned; it writes no Audit event.
SlashDone(t, failed) ==
  /\ phase[t] = "begun"
  /\ phase' = [phase EXCEPT ![t] = "reported"]
  /\ outcome' = [outcome EXCEPT ![t] = OutcomeOf(t, failed)]
  /\ UNCHANGED <<uiVars, inbox, execVars, job, slotVars, fileVars>>

\* Variant: a zero timeout means no deadline.
ExpireNever(t) == InFlight(t) /\ FALSE /\ UNCHANGED vars

\* The timeout of context.WithTimeout passes.
Expire(t) ==
  /\ InFlight(t)
  /\ ctx[t] = "live"
  /\ ctx' = [ctx EXCEPT ![t] = "expired"]
  /\ UNCHANGED <<uiVars, inbox, running, cancelFn, workVars, slotVars, fileVars>>

(*************************** results come back ****************************)

\* The message of q is dropped when another identified execution is Running;
\* a slash command carries no identity.
Superseded(q) == running \in Queries /\ running # q

\* The slot filled by a report whose completion could not be written.
SlotAfter(q) == IF q \in unacked THEN q ELSE pending

\* Variant: only successful Statements are remembered.
RememberSuccesses(q) ==
  IF session \in Sessions /\ outcome[q] = "success"
    THEN [history EXCEPT ![session] = @ \cup {q}] ELSE history

\* Model.history is the one of the Session that is live now.
Remember(q) ==
  IF session \in Sessions THEN [history EXCEPT ![session] = @ \cup {q}] ELSE history

HandleStatementExecuted(q) ==
  /\ phase[q] \in {"refused", "reported"}
  /\ UNCHANGED <<session, inbox, job, outcome, log, unacked, retry>>
  /\ \/ /\ Superseded(q)
        /\ phase' = [phase EXCEPT ![q] = "dropped"]
        /\ UNCHANGED <<editor, shown, execVars, pending, history>>
     \/ /\ ~Superseded(q)
        /\ phase[q] = "refused"
        /\ CompleteExecution
        /\ phase' = [phase EXCEPT ![q] = "handled"]
        /\ UNCHANGED <<editor, shown, pending, history>>
     \/ /\ ~Superseded(q)
        /\ phase[q] = "reported"
        /\ CompleteExecution
        /\ phase' = [phase EXCEPT ![q] = "handled"]
        /\ history' = Remember(q)
        /\ pending' = SlotAfter(q)
        /\ editor' = "empty"
        /\ shown' = IF outcome[q] = "success" THEN q ELSE NoTask

\* A slash command replaces the editor with the SQL it composed, or opens a wizard
\* and clears the editor; a failed one clears the Result Set too.
HandleSlashCommandExecuted(t, text) ==
  /\ t \in Slashes
  /\ phase[t] = "reported"
  /\ CompleteExecution
  /\ phase' = [phase EXCEPT ![t] = "handled"]
  /\ \/ outcome[t] = "success" /\ text \in Statements \cup {"empty"} /\ UNCHANGED shown
     \/ outcome[t] # "success" /\ text = "empty" /\ shown' = NoTask
  /\ editor' = text
  /\ UNCHANGED <<session, inbox, job, outcome, slotVars, fileVars>>

(**************** the unwritten completion and its retry ******************)

RetryAppend(result) ==
  /\ retry.phase = "appending"
  /\ result = "written" => Len(log) < MaxLog
  /\ AppendEvent("completed", retry.id, result)
  /\ retry' = [retry EXCEPT !.phase = IF result = "ok" THEN "ok" ELSE "failed"]
  /\ UNCHANGED <<uiVars, inbox, execVars, workVars, pending, unacked, history>>

\* Variant: the error of the retry is not looked at.
RetrySucceededAlways == retry.phase \in {"ok", "failed"}

RetrySucceeded == retry.phase = "ok"

\* auditCompletionRetriedMsg: on success the submission that was held back is
\* replayed, with the text it had then and the Session that is live now.
HandleAuditCompletionRetried ==
  /\ retry.phase \in {"ok", "failed"}
  /\ retry' = NoRetry
  /\ UNCHANGED <<session, inbox>>
  /\ \/ /\ ~RetrySucceeded
        /\ NothingStarted /\ UNCHANGED <<editor, shown, pending>>
     \/ /\ RetrySucceeded
        /\ pending' = NoTask
        /\ editor' = retry.stmt
        /\ \/ StillRunning /\ NothingStarted /\ UNCHANGED shown
           \/ ~StillRunning /\ SubmitText(retry.stmt, retry.origin)

(******************************* the Session ******************************)

\* An auto-connect wires the Session and leaves the panes alone.
WireSession(c) ==
  /\ session' = c
  /\ UNCHANGED <<editor, shown, inbox, execVars, workVars, slotVars, fileVars>>

\* Variant: the panes keep what they show.
ReplaceKeepsPanes(c) == WireSession(c)

\* A connect from the picker resets the panes; Running, the pending completion
\* and a retry in flight are not part of the reset.
ReplaceSession(c) ==
  /\ session' = c
  /\ editor' = "empty"
  /\ shown' = NoTask
  /\ UNCHANGED <<inbox, execVars, workVars, slotVars, fileVars>>

(****************************** specification *****************************)

UserStep ==
  \/ \E text \in Typing : Type(text)
  \/ PressSubmit
  \/ PressEsc
  \/ \E t \in ModalSlashes : DispatchFromModal(t)

SessionStep == \E c \in Sessions : WireSession(c) \/ ReplaceSession(c)

GoroutineStep(q) ==
  \/ \E result \in AppendResults : AppendSubmitted(q, result)
  \/ Invoke(q)
  \/ \E failed \in BOOLEAN : Return(q, failed)
  \/ \E result \in AppendResults : AppendCompleted(q, result)

HandlerStep ==
  \/ HandleSubmitIntent
  \/ HandleCancelRunningIntent
  \/ \E q \in Queries : HandleStatementExecuted(q)
  \/ \E t \in Slashes, text \in Texts : HandleSlashCommandExecuted(t, text)
  \/ HandleAuditCompletionRetried

Next ==
  \/ UserStep
  \/ SessionStep
  \/ \E q \in Queries : GoroutineStep(q)
  \/ \E t \in Slashes, failed \in BOOLEAN : SlashDone(t, failed)
  \/ \E t \in Tasks : Expire(t)
  \/ \E result \in AppendResults : RetryAppend(result)
  \/ HandlerStep

Spec == Init /\ [][Next]_vars

\* A modal starts a slash command while something is Running.
Overrides == running # NoTask /\ \E t \in ModalSlashes : DispatchFromModal(t)

\* The behaviours in which none does: slash commands run from a modal as from the
\* Command Pane, one task after the other.
OrderlySpec == Init /\ [][Next /\ ~Overrides]_vars

(* Fairness: the Go scheduler runs every goroutine and bubbletea delivers every *)
(* message; timers fire; the audit file operations return. A database call is   *)
(* only relied on to return once its context has ended, so a Statement with no  *)
(* timeout could run for ever.                                                  *)
ReturnInterrupted(q) == ctx[q] # "live" /\ \E failed \in BOOLEAN : Return(q, failed)
SlashInterrupted(t) == ctx[t] # "live" /\ \E failed \in BOOLEAN : SlashDone(t, failed)

Fairness ==
  /\ \A q \in Queries :
       /\ WF_vars(\E result \in AppendResults : AppendSubmitted(q, result))
       /\ WF_vars(Invoke(q))
       /\ WF_vars(ReturnInterrupted(q))
       /\ WF_vars(\E result \in AppendResults : AppendCompleted(q, result))
       /\ WF_vars(HandleStatementExecuted(q))
  /\ \A t \in Slashes :
       /\ WF_vars(SlashInterrupted(t))
       /\ WF_vars(\E text \in Texts : HandleSlashCommandExecuted(t, text))
  /\ \A t \in Tasks : WF_vars(Expire(t))

FairSpec == Spec /\ Fairness

(******************** properties of every configuration *******************)

\* No Statement reaches the database before its submitted event is in the Audit
\* Log, whatever the append reports: executeStatementCmd returns on any error.
FailClosed == \A q \in Queries : Invoked(q) => Recorded("submitted", q)

\* A completed event tells of an execution that has returned, and follows the
\* submitted event of the same identity: the order a reader correlates them in.
CompletionsFollowSubmissions ==
  \A i \in 1 .. Len(log) : log[i].event = "completed" =>
    /\ outcome[log[i].id] # "none"
    /\ \E j \in 1 .. i - 1 : log[j] = [event |-> "submitted", id |-> log[i].id]

\* Esc always reaches the Statement the indicator shows: cancelFn belongs to the
\* Running task or is nil, across overrides, stale reports and cancellations.
CancelHitsRunning == cancelFn \in {NoTask, running}

\* No execution is left running with a live context that nothing can cancel: a
\* begun task that lost Running had its context cancelled by begin or complete.
LiveContextIsCancellable ==
  \A t \in Tasks : InFlight(t) /\ ctx[t] = "live" => t = cancelFn

\* The slot and the retry only hold completions of executions that were reported
\* and whose append failed: a retry never invents an event.
SlotHoldsFailedCompletion ==
  \A q \in {pending, retry.id} \ {NoTask} : q \in unacked /\ phase[q] = "handled"

\* The Running indicator goes away: the timeout ends the context, the adapter
\* returns, the message is handled, even if the user never presses esc.
RunningEnds == \A t \in Tasks : running = t ~> running # t

(****** properties while no modal starts a slash command over a task *******)

\* At most one execution is in flight and Running is that execution; nil when idle
\* (CONTEXT.md, Running Statement).
RunningWhileInFlight ==
  \A t \in Tasks : InFlight(t) => running = t

\* A Statement that ran and whose completed event is not in the log is the one in
\* the slot, which is how it can still be written (ADR 0004).
UnwrittenCompletionIsPending ==
  \A q \in Queries :
    Invoked(q) /\ ~InFlight(q) /\ ~Recorded("completed", q) => pending = q

\* Every Statement that ran is recalled from the History of some Connection.
EveryInvocationRecalled ==
  \A q \in Queries :
    Invoked(q) /\ ~InFlight(q) => \E c \in Sessions : q \in history[c]

\* No Statement starts while an earlier one lacks its completed event: the slot
\* and the retry together really block submission (ADR 0004).
BlockedUntilWritten ==
  [][\A q \in Queries : phase[q] = "idle" /\ phase'[q] = "begun" =>
       \A p \in Queries : Invoked(p) => Recorded("completed", p)]_vars

\* A retry in flight is for the completion in the slot, so that clearing the slot
\* when it succeeds forgets nothing.
RetryIsForSlot == retry.phase # "idle" => retry.id = pending

(******************** what auditing promises, implemented *****************)

StartedQueries == {q \in Queries : Invoked(q)}
ReturnedQueries == {q \in Queries : outcome[q] # "none"}

Journal == INSTANCE AuditJournal
             WITH journal <- log, started <- StartedQueries, returned <- ReturnedQueries

\* Execution implements AuditJournal: append-only, fail closed, completed events
\* only for executions that returned, through every override, drop and retry.
JournalImplemented == Journal!JSpec

\* Each execution is represented by one submitted and one completed event (ADR 0004).
TwoEventsPerExecution ==
  \A i, j \in 1 .. Len(log) : log[i] = log[j] => i = j

=============================================================================
