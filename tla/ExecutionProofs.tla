--------------------------- MODULE ExecutionProofs ---------------------------
(***************************************************************************)
(* What holds of Execution for every set of Sessions, Statements, slash    *)
(* commands and execution identities: TypeOK, the safety invariants of     *)
(* every configuration, and that Execution implements AuditJournal.        *)
(***************************************************************************)
EXTENDS Execution, TLAPS

(********************************* types **********************************)

RetryNamed == retry.phase # "idle" => retry.id \in Queries
TypeInv == TypeOK /\ RetryNamed

USE DEF Tasks, Slashes

LEMMA InitTypeInv == Init => TypeInv
BY ExecutionAssumptions
   DEF Init, TypeInv, TypeOK, RetryNamed, Texts, OtherTexts, InertTexts, Phases,
       Outcomes, Jobs, NoJob, Retries, NoRetry

\* What AppendEvent does to the Audit Log file: nothing, or one event more at its end.
LEMMA AppendEventExtends ==
  ASSUME log \in Seq(Events), NEW q \in Queries, NEW e \in {"submitted", "completed"},
         NEW result \in AppendResults, AppendEvent(e, q, result)
  PROVE  /\ log' \in Seq(Events)
         /\ result = "lost" => log' = log
         /\ result # "lost" =>
              /\ Len(log') = Len(log) + 1
              /\ \A i \in 1 .. Len(log) : log'[i] = log[i]
              /\ log'[Len(log) + 1] = [event |-> e, id |-> q]
<1> DEFINE x == [event |-> e, id |-> q]
<1>1. x \in Events
  BY DEF Events
<1>2. log' = IF result = "lost" THEN log ELSE Append(log, x)
  BY DEF AppendEvent
<1> HIDE DEF x
<1>3. log' \in Seq(Events)
  BY <1>1, <1>2
<1>4. result # "lost" =>
        /\ Len(log') = Len(log) + 1
        /\ \A i \in 1 .. Len(log) : log'[i] = log[i]
        /\ log'[Len(log) + 1] = x
  BY <1>1, <1>2
<1> QED BY <1>2, <1>3, <1>4 DEF x

LEMMA TypeInvUserStep == TypeInv /\ UserStep => TypeInv'
<1> SUFFICES ASSUME TypeInv, UserStep PROVE TypeInv'
  OBVIOUS
<1> USE ExecutionAssumptions DEF TypeInv, TypeOK, RetryNamed
<1>1. ASSUME NEW text \in Typing, Type(text) PROVE TypeInv'
  BY <1>1 DEF Type, execVars, workVars, slotVars, fileVars
<1>2. ASSUME NEW m \in {"submit", "cancel"}, Send(m) PROVE TypeInv'
  BY <1>2 DEF Send, uiVars, execVars, workVars, slotVars, fileVars
<1>3. ASSUME NEW t \in ModalSlashes, DispatchFromModal(t) PROVE TypeInv'
  BY <1>3 DEF DispatchFromModal, StartSlash, BeginExecution, CancelContext, slotVars, fileVars, Phases
<1> QED BY <1>1, <1>2, <1>3 DEF UserStep, PressSubmit, PressEsc

LEMMA TypeInvSubmission == TypeInv /\ HandleSubmitIntent => TypeInv'
<1> SUFFICES ASSUME TypeInv, HandleSubmitIntent PROVE TypeInv'
  OBVIOUS
<1> USE ExecutionAssumptions DEF TypeInv, TypeOK, RetryNamed
<1>1. inbox' \in [{"submit", "cancel"} -> 0 .. MaxInbox]
  BY DEF HandleSubmitIntent, Receive
<1>2. CASE NothingStarted /\ UNCHANGED slotVars /\ shown' \in {shown, NoTask}
  BY <1>1, <1>2 DEF HandleSubmitIntent, NothingStarted, execVars, workVars, slotVars, fileVars
<1>3. CASE ~StillRunning /\ CompletionUnwritten /\ StartRetry
  BY <1>1, <1>3 DEF HandleSubmitIntent, CompletionUnwritten, StartRetry, Retries,
                    execVars, workVars, fileVars
<1>4. CASE UNCHANGED slotVars /\ \E t \in TypedSlashes : StartSlash(t)
  BY <1>1, <1>4 DEF HandleSubmitIntent, StartSlash, BeginExecution, CancelContext,
                    slotVars, fileVars, Phases
<1>5. CASE UNCHANGED slotVars /\ \E q \in Queries : StartQuery(q, editor, session)
  BY <1>1, <1>5 DEF HandleSubmitIntent, StartQuery, BeginExecution, CancelContext,
                    slotVars, fileVars, Phases, Jobs
<1> QED BY <1>2, <1>3, <1>4, <1>5 DEF HandleSubmitIntent, SubmitText

LEMMA TypeInvRetried == TypeInv /\ HandleAuditCompletionRetried => TypeInv'
<1> SUFFICES ASSUME TypeInv, HandleAuditCompletionRetried PROVE TypeInv'
  OBVIOUS
<1> USE ExecutionAssumptions DEF TypeInv, TypeOK, RetryNamed
<1>1. /\ retry' \in Retries
      /\ retry'.phase = "idle"
      /\ retry.stmt \in Texts
      /\ retry.origin \in Sessions \cup {NoSession}
  BY DEF HandleAuditCompletionRetried, Retries, NoRetry, Texts, OtherTexts, InertTexts
<1>2. pending' \in Queries \cup {NoTask} /\ editor' \in Texts
  BY <1>1 DEF HandleAuditCompletionRetried
<1>3. CASE NothingStarted /\ shown' \in {shown, NoTask}
  BY <1>1, <1>2, <1>3 DEF HandleAuditCompletionRetried, NothingStarted, execVars,
                          workVars, fileVars
<1>4. CASE \E t \in TypedSlashes : StartSlash(t)
  BY <1>1, <1>2, <1>4 DEF HandleAuditCompletionRetried, StartSlash, BeginExecution,
                          CancelContext, fileVars, Phases
<1>5. CASE \E q \in Queries : StartQuery(q, retry.stmt, retry.origin)
  BY <1>1, <1>2, <1>5 DEF HandleAuditCompletionRetried, StartQuery, BeginExecution,
                          CancelContext, fileVars, Phases, Jobs
<1> QED BY <1>3, <1>4, <1>5 DEF HandleAuditCompletionRetried, SubmitText

LEMMA TypeInvGoroutineStep ==
  ASSUME TypeInv, NEW q \in Queries, GoroutineStep(q) PROVE TypeInv'
<1> USE ExecutionAssumptions DEF TypeInv, TypeOK, RetryNamed
<1>1. ASSUME NEW result \in AppendResults, AppendSubmitted(q, result) PROVE TypeInv'
  BY <1>1, AppendEventExtends
     DEF AppendSubmitted, AfterSubmitted, Phases, uiVars, execVars, slotVars
<1>2. ASSUME Invoke(q) PROVE TypeInv'
  BY <1>2 DEF Invoke, Phases, uiVars, execVars, slotVars, fileVars
<1>3. ASSUME NEW failed \in BOOLEAN, Return(q, failed) PROVE TypeInv'
  BY <1>3 DEF Return, OutcomeOf, Outcomes, Phases, uiVars, execVars, slotVars, fileVars
<1>4. ASSUME NEW result \in AppendResults, AppendCompleted(q, result) PROVE TypeInv'
  BY <1>4, AppendEventExtends DEF AppendCompleted, Phases, uiVars, execVars, slotVars
<1> QED BY <1>1, <1>2, <1>3, <1>4 DEF GoroutineStep

LEMMA TypeInvReport ==
  ASSUME TypeInv,
         \/ \E q \in Queries : HandleStatementExecuted(q)
         \/ \E t \in Slashes, text \in Texts : HandleSlashCommandExecuted(t, text)
  PROVE  TypeInv'
<1> USE ExecutionAssumptions DEF TypeInv, TypeOK, RetryNamed
<1>1. ASSUME NEW q \in Queries, HandleStatementExecuted(q) PROVE TypeInv'
  <2>1. CASE Superseded(q)
    BY <1>1, <2>1 DEF HandleStatementExecuted, Phases, execVars
  <2>2. CASE ~Superseded(q) /\ phase[q] = "refused"
    BY <1>1, <2>2 DEF HandleStatementExecuted, CompleteExecution, CancelContext, Phases
  <2>3. CASE ~Superseded(q) /\ phase[q] = "reported"
    BY <1>1, <2>3 DEF HandleStatementExecuted, CompleteExecution, CancelContext, Phases,
                      Remember, SlotAfter, Texts, OtherTexts, InertTexts
  <2> QED BY <1>1, <2>1, <2>2, <2>3 DEF HandleStatementExecuted
<1>2. ASSUME NEW t \in Slashes, NEW text \in Texts, HandleSlashCommandExecuted(t, text)
      PROVE  TypeInv'
  BY <1>2 DEF HandleSlashCommandExecuted, CompleteExecution, CancelContext, Phases,
              slotVars, fileVars
<1> QED BY <1>1, <1>2

LEMMA TypeInvOtherStep ==
  ASSUME TypeInv,
         \/ SessionStep
         \/ HandleCancelRunningIntent
         \/ \E t \in Slashes, failed \in BOOLEAN : SlashDone(t, failed)
         \/ \E t \in Tasks : Expire(t)
         \/ \E result \in AppendResults : RetryAppend(result)
         \/ UNCHANGED vars
  PROVE  TypeInv'
<1> USE ExecutionAssumptions DEF TypeInv, TypeOK, RetryNamed
<1>1. CASE SessionStep
  BY <1>1 DEF SessionStep, WireSession, ReplaceSession, Texts, OtherTexts, InertTexts,
              execVars, workVars, slotVars, fileVars
<1>2. CASE HandleCancelRunningIntent
  BY <1>2 DEF HandleCancelRunningIntent, Receive, CancelContext, uiVars, workVars,
              slotVars, fileVars
<1>3. ASSUME NEW t \in Slashes, NEW failed \in BOOLEAN, SlashDone(t, failed) PROVE TypeInv'
  BY <1>3 DEF SlashDone, OutcomeOf, Outcomes, Phases, uiVars, execVars, slotVars, fileVars
<1>4. ASSUME NEW t \in Tasks, Expire(t) PROVE TypeInv'
  BY <1>4 DEF Expire, uiVars, workVars, slotVars, fileVars
<1>5. ASSUME NEW result \in AppendResults, RetryAppend(result) PROVE TypeInv'
  <2>1. retry.id \in Queries
    BY <1>5 DEF RetryAppend
  <2>2. retry' \in Retries /\ retry'.id = retry.id
    BY <1>5 DEF RetryAppend, Retries
  <2>3. log' \in Seq(Events)
    BY <1>5, <2>1, AppendEventExtends DEF RetryAppend
  <2> QED BY <1>5, <2>1, <2>2, <2>3 DEF RetryAppend, uiVars, execVars, workVars
<1>6. CASE UNCHANGED vars
  BY <1>6 DEF vars, uiVars, execVars, workVars, slotVars, fileVars
<1> QED BY <1>1, <1>2, <1>3, <1>4, <1>5, <1>6

LEMMA NextTypeInv == TypeInv /\ [Next]_vars => TypeInv'
BY TypeInvUserStep, TypeInvSubmission, TypeInvRetried, TypeInvGoroutineStep, TypeInvReport,
   TypeInvOtherStep DEF Next, HandlerStep

\* Every field of the Model keeps to its type, the retry in flight to an identity.
THEOREM TypeCorrect == Spec => []TypeOK
<1>1. TypeInv => TypeOK
  BY DEF TypeInv
<1> QED BY <1>1, InitTypeInv, NextTypeInv, PTL DEF Spec

(************************* what a step may do *****************************)

InFlightShrinks == \A t \in Tasks : InFlight(t)' => InFlight(t)

\* What a step does to the coordinator: nothing, begin, complete or cancel; meanwhile
\* a context may end on its own.
Waits ==
  /\ UNCHANGED <<running, cancelFn>>
  /\ \A t \in Tasks : ctx'[t] = "live" => ctx[t] = "live"
  /\ InFlightShrinks
Begins == \E t \in Tasks : phase[t] = "idle" /\ BeginExecution(t)
Completes == CompleteExecution /\ InFlightShrinks
Cancels == cancelFn' = NoTask /\ ctx' = CancelContext(cancelFn) /\ UNCHANGED running /\ InFlightShrinks

LEMMA SubmitTextCoordinates ==
  ASSUME NEW text, NEW origin, SubmitText(text, origin)
  PROVE  (UNCHANGED <<running, cancelFn, ctx, phase>>) \/ Begins
BY DEF SubmitText, NothingStarted, execVars, workVars, StartSlash, StartQuery, Begins

LEMMA CoordinatorStep == TypeInv /\ [Next]_vars => Waits \/ Begins \/ Completes \/ Cancels
<1> SUFFICES ASSUME TypeInv, [Next]_vars PROVE Waits \/ Begins \/ Completes \/ Cancels
  OBVIOUS
<1> USE DEF TypeInv, TypeOK, InFlight
<1>1. CASE UNCHANGED <<running, cancelFn, ctx, phase>>
  BY <1>1 DEF Waits, InFlightShrinks
<1>2. CASE HandleSubmitIntent
  BY <1>1, <1>2, SubmitTextCoordinates
     DEF HandleSubmitIntent, NothingStarted, StartRetry, execVars, workVars
<1>3. CASE HandleAuditCompletionRetried
  BY <1>1, <1>3, SubmitTextCoordinates
     DEF HandleAuditCompletionRetried, NothingStarted, execVars, workVars
<1>4. CASE UserStep
  BY <1>1, <1>4 DEF UserStep, Type, PressSubmit, PressEsc, Send, DispatchFromModal, StartSlash,
                    execVars, workVars, Begins
<1>5. CASE SessionStep
  BY <1>1, <1>5 DEF SessionStep, WireSession, ReplaceSession, execVars, workVars
<1>6. ASSUME NEW q \in Queries, GoroutineStep(q) PROVE Waits
  BY <1>6 DEF GoroutineStep, AppendSubmitted, AfterSubmitted, Invoke, Return, AppendCompleted,
              execVars, Waits, InFlightShrinks
<1>7. ASSUME NEW t \in Slashes, NEW failed \in BOOLEAN, SlashDone(t, failed) PROVE Waits
  BY <1>7 DEF SlashDone, execVars, Waits, InFlightShrinks
<1>8. ASSUME NEW t \in Tasks, Expire(t) PROVE Waits
  BY <1>8 DEF Expire, workVars, Waits, InFlightShrinks
<1>9. ASSUME NEW result \in AppendResults, RetryAppend(result) PROVE Waits
  BY <1>1, <1>9 DEF RetryAppend, execVars, workVars, Waits, InFlightShrinks
<1>10. CASE HandleCancelRunningIntent
  BY <1>1, <1>10 DEF HandleCancelRunningIntent, workVars, Cancels, InFlightShrinks
<1>11. ASSUME NEW q \in Queries, HandleStatementExecuted(q) PROVE Waits \/ Completes
  BY <1>11 DEF HandleStatementExecuted, execVars, Waits, Completes, InFlightShrinks
<1>12. ASSUME NEW t \in Slashes, NEW text \in Texts, HandleSlashCommandExecuted(t, text)
       PROVE  Completes
  BY <1>12 DEF HandleSlashCommandExecuted, Completes, InFlightShrinks
<1>13. CASE UNCHANGED vars
  BY <1>1, <1>13 DEF vars, execVars, workVars
<1> QED
  BY <1>2, <1>3, <1>4, <1>5, <1>6, <1>7, <1>8, <1>9, <1>10, <1>11, <1>12, <1>13
     DEF Next, HandlerStep

(************************** cancelling and timing out *********************)

CoordinatorInv == TypeInv /\ CancelHitsRunning /\ LiveContextIsCancellable

LEMMA CoordinatorInvariant == Spec => []CoordinatorInv
<1> USE ExecutionAssumptions DEF CoordinatorInv, CancelHitsRunning, LiveContextIsCancellable
<1>1. Init => CoordinatorInv
  BY InitTypeInv DEF Init, InFlight
<1>2. CoordinatorInv /\ [Next]_vars => CoordinatorInv'
  <2> SUFFICES ASSUME CoordinatorInv, [Next]_vars PROVE CoordinatorInv'
    OBVIOUS
  <2>1. TypeInv'
    BY NextTypeInv
  <2>2. CASE Waits
    BY <2>1, <2>2 DEF Waits, InFlightShrinks
  <2>3. CASE Begins
    <3>1. PICK t \in Tasks : phase[t] = "idle" /\ BeginExecution(t)
      BY <2>3 DEF Begins
    <3>2. CancelHitsRunning'
      BY <3>1 DEF BeginExecution
    <3>3. ASSUME NEW u \in Tasks, InFlight(u)', ctx'[u] = "live", u # t PROVE FALSE
      BY <3>1, <3>3 DEF BeginExecution, CancelContext, InFlight, TypeInv, TypeOK
    <3> QED BY <2>1, <3>1, <3>2, <3>3 DEF BeginExecution
  <2>4. CASE Completes \/ Cancels
    BY <2>1, <2>4 DEF Completes, Cancels, CompleteExecution, CancelContext, InFlightShrinks
  <2> QED BY <2>2, <2>3, <2>4, CoordinatorStep
<1> QED BY <1>1, <1>2, PTL DEF Spec

\* Esc always reaches the Statement the indicator shows: complete and begin move
\* cancelFn and Running together, in executionCoordinator.
THEOREM EscReachesRunning == Spec => []CancelHitsRunning
<1>1. CoordinatorInv => CancelHitsRunning
  BY DEF CoordinatorInv
<1> QED BY <1>1, CoordinatorInvariant, PTL

\* No execution is left with a live context that nothing can cancel, whatever modals
\* start over a Running Statement and whatever order the reports come back in.
THEOREM NoUncancellableContext == Spec => []LiveContextIsCancellable
<1>1. CoordinatorInv => LiveContextIsCancellable
  BY DEF CoordinatorInv
<1> QED BY <1>1, CoordinatorInvariant, PTL

(****************************** the Audit Log *****************************)

LEMMA AppendEventRecords ==
  ASSUME log \in Seq(Events), NEW q \in Queries, NEW e \in {"submitted", "completed"},
         NEW result \in AppendResults, AppendEvent(e, q, result),
         NEW p \in Queries, NEW f \in {"submitted", "completed"}
  PROVE  Recorded(f, p)' <=> Recorded(f, p) \/ (result # "lost" /\ f = e /\ p = q)
<1>1. CASE result = "lost"
  BY <1>1, AppendEventExtends DEF Recorded
<1>2. CASE result # "lost"
  <2>1. /\ Len(log) \in Nat
        /\ Len(log') = Len(log) + 1
        /\ \A i \in 1 .. Len(log) : log'[i] = log[i]
        /\ log'[Len(log) + 1] = [event |-> e, id |-> q]
    <3>1. Len(log) \in Nat
      OBVIOUS
    <3> QED BY <1>2, <3>1, AppendEventExtends
  <2>2. Recorded(f, p) => Recorded(f, p)'
    BY <2>1 DEF Recorded
  <2>3. Recorded(f, p)' => Recorded(f, p) \/ [event |-> f, id |-> p] = [event |-> e, id |-> q]
    BY <2>1 DEF Recorded
  <2>4. f = e /\ p = q => Recorded(f, p)'
    BY <2>1 DEF Recorded
  <2>5. [event |-> f, id |-> p] = [event |-> e, id |-> q] => f = e /\ p = q
    OBVIOUS
  <2> QED BY <1>2, <2>2, <2>3, <2>4, <2>5
<1> QED BY <1>1, <1>2

LEMMA RecordedStays ==
  ASSUME UNCHANGED log PROVE \A e, q : Recorded(e, q)' = Recorded(e, q)
BY DEF Recorded

\* How far a Query has got, what the Audit Log holds of it, and what is still owed.
QueryInv(q) ==
  /\ phase[q] \in {"idle", "begun"} => ~Recorded("submitted", q)
  /\ phase[q] \in {"submitted", "invoked"} \/ outcome[q] # "none" => Recorded("submitted", q)
  /\ phase[q] \in {"idle", "begun", "refused", "submitted", "invoked"} => outcome[q] = "none"
  /\ phase[q] \in {"finished", "reported"} => outcome[q] # "none"
  /\ q \in unacked => phase[q] \in {"reported", "handled", "dropped"} /\ outcome[q] # "none"
  /\ phase[q] = "reported" /\ q \notin unacked => Recorded("completed", q)
WorkInv == TypeInv /\ SlotHoldsFailedCompletion /\ \A q \in Queries : QueryInv(q)

\* What a step does to the work of the Queries.
NoAudit ==
  UNCHANGED <<log, unacked>> /\ \A q \in Queries : outcome'[q] = outcome[q]
NoWork == NoAudit /\ \A q \in Queries : phase'[q] = phase[q]
BeginsQuery == NoAudit /\ \E q \in Queries :
  phase[q] = "idle" /\ phase' = [phase EXCEPT ![q] = "begun"]
ReportsQuery == NoAudit /\ \E q \in Queries :
  /\ phase[q] \in {"refused", "reported"}
  /\ \E last \in {"handled", "dropped"} : phase' = [phase EXCEPT ![q] = last]
Works == \E q \in Queries : GoroutineStep(q)
RetriesCompletion == \E result \in AppendResults : RetryAppend(result)

LEMMA SubmitTextWork ==
  ASSUME TypeInv, NEW text, NEW origin, SubmitText(text, origin)
  PROVE  NoWork \/ BeginsQuery
<1> USE ExecutionAssumptions DEF TypeInv, TypeOK, NoWork, NoAudit, BeginsQuery
<1>1. CASE NothingStarted
  BY <1>1 DEF NothingStarted, workVars, fileVars
<1>2. ASSUME NEW t \in TypedSlashes, StartSlash(t) PROVE NoWork
  BY <1>2 DEF StartSlash, BeginExecution, fileVars
<1>3. ASSUME NEW q \in Queries, StartQuery(q, text, origin) PROVE BeginsQuery
  BY <1>3 DEF StartQuery, BeginExecution, fileVars
<1> QED BY <1>1, <1>2, <1>3 DEF SubmitText

LEMMA WorkStep ==
  TypeInv /\ [Next]_vars => NoWork \/ BeginsQuery \/ ReportsQuery \/ Works \/ RetriesCompletion
<1> SUFFICES ASSUME TypeInv, [Next]_vars
             PROVE  NoWork \/ BeginsQuery \/ ReportsQuery \/ Works \/ RetriesCompletion
  OBVIOUS
<1> USE ExecutionAssumptions DEF TypeInv, TypeOK
<1>1. CASE UNCHANGED <<workVars, log, unacked>>
  BY <1>1 DEF NoWork, NoAudit, workVars
<1>2. CASE HandleSubmitIntent
  BY <1>1, <1>2, SubmitTextWork
     DEF HandleSubmitIntent, NothingStarted, StartRetry, workVars, fileVars
<1>3. CASE HandleAuditCompletionRetried
  BY <1>1, <1>3, SubmitTextWork
     DEF HandleAuditCompletionRetried, NothingStarted, workVars, fileVars
<1>4. CASE UserStep
  <2>1. ASSUME NEW t \in ModalSlashes, DispatchFromModal(t) PROVE NoWork
    BY <2>1 DEF DispatchFromModal, StartSlash, BeginExecution, fileVars, NoWork, NoAudit
  <2> QED BY <1>1, <1>4, <2>1 DEF UserStep, Type, PressSubmit, PressEsc, Send, workVars, fileVars
<1>5. CASE SessionStep
  BY <1>1, <1>5 DEF SessionStep, WireSession, ReplaceSession, workVars, fileVars
<1>6. ASSUME NEW t \in Slashes, NEW failed \in BOOLEAN, SlashDone(t, failed) PROVE NoWork
  BY <1>6 DEF SlashDone, fileVars, NoWork, NoAudit
<1>7. ASSUME NEW t \in Tasks, Expire(t) PROVE NoWork
  BY <1>7 DEF Expire, workVars, fileVars, NoWork, NoAudit
<1>8. CASE HandleCancelRunningIntent
  BY <1>1, <1>8 DEF HandleCancelRunningIntent, workVars, fileVars
<1>9. ASSUME NEW q \in Queries, HandleStatementExecuted(q) PROVE ReportsQuery
  BY <1>9 DEF HandleStatementExecuted, ReportsQuery, NoAudit
<1>10. ASSUME NEW t \in Slashes, NEW text \in Texts, HandleSlashCommandExecuted(t, text)
       PROVE  NoWork
  BY <1>10 DEF HandleSlashCommandExecuted, fileVars, NoWork, NoAudit
<1>11. CASE UNCHANGED vars
  BY <1>1, <1>11 DEF vars, workVars, fileVars
<1> QED
  BY <1>2, <1>3, <1>4, <1>5, <1>6, <1>7, <1>8, <1>9, <1>10, <1>11
     DEF Next, HandlerStep, Works, RetriesCompletion

LEMMA QueryInvStep ==
  ASSUME WorkInv, [Next]_vars, NEW p \in Queries PROVE QueryInv(p)'
<1> USE ExecutionAssumptions DEF WorkInv, TypeInv, TypeOK, QueryInv
<1>1. CASE NoWork
  BY <1>1, RecordedStays DEF NoWork, NoAudit
<1>2. CASE BeginsQuery
  BY <1>2, RecordedStays DEF BeginsQuery, NoAudit
<1>3. CASE ReportsQuery
  BY <1>3, RecordedStays DEF ReportsQuery, NoAudit
<1>4. ASSUME NEW q \in Queries, GoroutineStep(q) PROVE QueryInv(p)'
  <2>1. ASSUME NEW result \in AppendResults, AppendSubmitted(q, result) PROVE QueryInv(p)'
    <3>1. AppendEvent("submitted", q, result) /\ phase[q] = "begun"
      BY <2>1 DEF AppendSubmitted
    <3>2. \A f \in {"submitted", "completed"} :
            Recorded(f, p)' <=> Recorded(f, p) \/ (result # "lost" /\ f = "submitted" /\ p = q)
      BY <3>1, AppendEventRecords
    <3>3. /\ phase' = [phase EXCEPT ![q] = IF result = "ok" THEN "submitted" ELSE "refused"]
          /\ UNCHANGED <<outcome, unacked>>
      BY <2>1 DEF AppendSubmitted, AfterSubmitted
    <3> QED BY <3>1, <3>2, <3>3
  <2>2. CASE Invoke(q)
    BY <2>2, RecordedStays DEF Invoke, fileVars
  <2>3. ASSUME NEW failed \in BOOLEAN, Return(q, failed) PROVE QueryInv(p)'
    <3>1. OutcomeOf(q, failed) # "none"
      BY DEF OutcomeOf
    <3> QED BY <2>3, <3>1, RecordedStays DEF Return, fileVars
  <2>4. ASSUME NEW result \in AppendResults, AppendCompleted(q, result) PROVE QueryInv(p)'
    <3>1. AppendEvent("completed", q, result) /\ phase[q] = "finished"
      BY <2>4 DEF AppendCompleted
    <3>2. \A f \in {"submitted", "completed"} :
            Recorded(f, p)' <=> Recorded(f, p) \/ (result # "lost" /\ f = "completed" /\ p = q)
      BY <3>1, AppendEventRecords
    <3>3. /\ phase' = [phase EXCEPT ![q] = "reported"]
          /\ unacked' = IF result = "ok" THEN unacked ELSE unacked \cup {q}
          /\ UNCHANGED outcome
      BY <2>4 DEF AppendCompleted
    <3> QED BY <3>1, <3>2, <3>3
  <2> QED BY <1>4, <2>1, <2>2, <2>3, <2>4 DEF GoroutineStep
<1>5. ASSUME NEW result \in AppendResults, RetryAppend(result) PROVE QueryInv(p)'
  <2>1. retry.id \in Queries /\ AppendEvent("completed", retry.id, result)
    BY <1>5 DEF RetryAppend, RetryNamed
  <2>2. \A f \in {"submitted", "completed"} :
          Recorded(f, p)' <=> Recorded(f, p) \/ (result # "lost" /\ f = "completed" /\ p = retry.id)
    BY <2>1, AppendEventRecords
  <2>3. UNCHANGED <<phase, outcome, unacked>>
    BY <1>5 DEF RetryAppend, workVars
  <2> QED BY <2>2, <2>3
<1> QED
  BY <1>1, <1>2, <1>3, <1>4, <1>5, WorkStep DEF Works, RetriesCompletion

\* The slot and the retry only change hands: a new completion comes from a report.
LEMMA SlotStep ==
  ASSUME TypeInv, [Next]_vars
  PROVE  \/ {pending', retry'.id} \subseteq {pending, retry.id, NoTask}
         \/ \E q \in Queries : HandleStatementExecuted(q)
<1> USE DEF TypeInv, TypeOK, Retries
<1>1. CASE UNCHANGED slotVars
  BY <1>1 DEF slotVars
<1>2. CASE HandleSubmitIntent
  BY <1>1, <1>2 DEF HandleSubmitIntent, StartRetry
<1>3. CASE HandleAuditCompletionRetried
  BY <1>3 DEF HandleAuditCompletionRetried, NoRetry
<1>4. ASSUME NEW result \in AppendResults, RetryAppend(result)
      PROVE  {pending', retry'.id} \subseteq {pending, retry.id, NoTask}
  BY <1>4 DEF RetryAppend
<1>5. CASE UserStep
  BY <1>1, <1>5 DEF UserStep, Type, PressSubmit, PressEsc, Send, DispatchFromModal
<1>6. CASE SessionStep
  BY <1>1, <1>6 DEF SessionStep, WireSession, ReplaceSession
<1>7. ASSUME NEW q \in Queries, GoroutineStep(q) PROVE UNCHANGED slotVars
  BY <1>7 DEF GoroutineStep, AppendSubmitted, Invoke, Return, AppendCompleted
<1>8. ASSUME NEW t \in Slashes, NEW failed \in BOOLEAN, SlashDone(t, failed)
      PROVE  UNCHANGED slotVars
  BY <1>8 DEF SlashDone
<1>9. ASSUME NEW t \in Tasks, Expire(t) PROVE UNCHANGED slotVars
  BY <1>9 DEF Expire
<1>10. CASE HandleCancelRunningIntent
  BY <1>1, <1>10 DEF HandleCancelRunningIntent
<1>11. ASSUME NEW t \in Slashes, NEW text \in Texts, HandleSlashCommandExecuted(t, text)
       PROVE  UNCHANGED slotVars
  BY <1>11 DEF HandleSlashCommandExecuted
<1>12. CASE UNCHANGED vars
  BY <1>1, <1>12 DEF vars
<1> QED
  BY <1>1, <1>2, <1>3, <1>4, <1>5, <1>6, <1>7, <1>8, <1>9, <1>10, <1>11, <1>12
     DEF Next, HandlerStep

\* What is owed stays owed, and a Query that has been handled stays handled.
LEMMA UnackedHandledStays ==
  ASSUME WorkInv, [Next]_vars, NEW q \in unacked, phase[q] = "handled"
  PROVE  q \in unacked' /\ phase'[q] = "handled"
<1> USE ExecutionAssumptions DEF WorkInv, TypeInv, TypeOK
<1>1. CASE NoWork \/ BeginsQuery \/ ReportsQuery
  BY <1>1 DEF NoWork, BeginsQuery, ReportsQuery, NoAudit
<1>2. CASE Works
  BY <1>2 DEF Works, GoroutineStep, AppendSubmitted, Invoke, Return, AppendCompleted, fileVars
<1>3. CASE RetriesCompletion
  BY <1>3 DEF RetriesCompletion, RetryAppend, workVars
<1> QED BY <1>1, <1>2, <1>3, WorkStep

LEMMA SlotInvStep ==
  ASSUME WorkInv, [Next]_vars PROVE SlotHoldsFailedCompletion'
<1> USE ExecutionAssumptions DEF SlotHoldsFailedCompletion
<1>1. CASE {pending', retry'.id} \subseteq {pending, retry.id, NoTask}
  BY <1>1, UnackedHandledStays DEF WorkInv
<1>2. ASSUME NEW q \in Queries, HandleStatementExecuted(q) PROVE SlotHoldsFailedCompletion'
  <2>1. \/ pending' = pending
        \/ pending' = q /\ q \in unacked' /\ phase'[q] = "handled"
    BY <1>2 DEF HandleStatementExecuted, SlotAfter, WorkInv, TypeInv, TypeOK
  <2>2. retry' = retry
    BY <1>2 DEF HandleStatementExecuted
  <2> QED BY <2>1, <2>2, UnackedHandledStays DEF WorkInv
<1> QED BY <1>1, <1>2, SlotStep DEF WorkInv

LEMMA WorkInvariant == Spec => []WorkInv
<1>1. Init => WorkInv
  BY InitTypeInv DEF Init, WorkInv, QueryInv, SlotHoldsFailedCompletion, NoRetry, Recorded, Tasks
<1>2. WorkInv /\ [Next]_vars => WorkInv'
  BY NextTypeInv, QueryInvStep, SlotInvStep DEF WorkInv
<1> QED BY <1>1, <1>2, PTL DEF Spec

\* executeStatementCmd is fail closed: no Statement is handed to the adapter before its
\* submitted event is in the Audit Log.
THEOREM AuditIsFailClosed == Spec => []FailClosed
<1>1. WorkInv => FailClosed
  BY DEF WorkInv, QueryInv, FailClosed, Invoked
<1> QED BY <1>1, WorkInvariant, PTL

\* PendingAuditCompletion and the retry hold the completion of a Statement that was
\* reported and whose append failed, never anything else.
THEOREM SlotIsOwed == Spec => []SlotHoldsFailedCompletion
<1>1. WorkInv => SlotHoldsFailedCompletion
  BY DEF WorkInv
<1> QED BY <1>1, WorkInvariant, PTL

(************************* the journal implemented ************************)

LEMMA InitJournal == Init => Journal!JInit
BY ExecutionAssumptions DEF Init, Journal!JInit, StartedQueries, ReturnedQueries, Invoked

\* What the journal tells apart of a step that leaves the log alone.
LEMMA JournalStutters ==
  ASSUME UNCHANGED log,
         \A q \in Queries : Invoked(q)' = Invoked(q) /\ outcome'[q] = outcome[q]
  PROVE  UNCHANGED Journal!jvars
BY DEF Journal!jvars, StartedQueries, ReturnedQueries

LEMMA WrittenIsRecorded == \A e, q : Journal!Written(e, q) = Recorded(e, q)
BY DEF Journal!Written, Journal!Entry, Recorded

LEMMA JournalAppends ==
  ASSUME NEW e, NEW q, NEW result, AppendEvent(e, q, result),
         \A p \in Queries : Invoked(p)' = Invoked(p) /\ outcome'[p] = outcome[p]
  PROVE  /\ log' = log \/ log' = Append(log, Journal!Entry(e, q))
         /\ UNCHANGED <<StartedQueries, ReturnedQueries>>
BY DEF AppendEvent, Journal!Entry, StartedQueries, ReturnedQueries

LEMMA JournalStep == WorkInv /\ [Next]_vars => [Journal!JNext]_(Journal!jvars)
<1> SUFFICES ASSUME WorkInv, [Next]_vars PROVE [Journal!JNext]_(Journal!jvars)
  OBVIOUS
<1> USE ExecutionAssumptions DEF WorkInv, TypeInv, TypeOK
<1>1. CASE NoWork \/ BeginsQuery \/ ReportsQuery
  <2>1. \A q \in Queries : Invoked(q)' = Invoked(q) /\ outcome'[q] = outcome[q]
    BY <1>1 DEF NoWork, BeginsQuery, ReportsQuery, NoAudit, Invoked
  <2> QED BY <1>1, <2>1, JournalStutters DEF NoWork, BeginsQuery, ReportsQuery, NoAudit
<1>2. ASSUME NEW q \in Queries, GoroutineStep(q) PROVE [Journal!JNext]_(Journal!jvars)
  <2>1. ASSUME NEW result \in AppendResults, AppendSubmitted(q, result)
        PROVE  [Journal!JNext]_(Journal!jvars)
    <3>1. \A p \in Queries : Invoked(p)' = Invoked(p) /\ outcome'[p] = outcome[p]
      BY <2>1 DEF AppendSubmitted, AfterSubmitted, Invoked
    <3>2. AppendEvent("submitted", q, result) /\ ~Recorded("submitted", q)
      BY <2>1 DEF AppendSubmitted, QueryInv
    <3>3. Journal!Submit(q) \/ UNCHANGED Journal!jvars
      BY <3>1, <3>2, JournalAppends, WrittenIsRecorded DEF Journal!Submit, Journal!jvars
    <3> QED BY <3>3 DEF Journal!JNext
  <2>2. CASE Invoke(q)
    <3>1. /\ phase[q] = "submitted"
          /\ phase' = [phase EXCEPT ![q] = "invoked"]
          /\ UNCHANGED <<log, outcome>>
      BY <2>2 DEF Invoke, fileVars
    <3>2. Recorded("submitted", q) /\ q \notin StartedQueries
      BY <3>1 DEF QueryInv, StartedQueries, Invoked
    <3>3. StartedQueries' = StartedQueries \cup {q} /\ ReturnedQueries' = ReturnedQueries
      BY <3>1 DEF StartedQueries, ReturnedQueries, Invoked
    <3>4. Journal!Start(q)
      BY <3>1, <3>2, <3>3, WrittenIsRecorded DEF Journal!Start
    <3> QED BY <3>4 DEF Journal!JNext
  <2>3. ASSUME NEW failed \in BOOLEAN, Return(q, failed) PROVE [Journal!JNext]_(Journal!jvars)
    <3>1. OutcomeOf(q, failed) # "none"
      BY DEF OutcomeOf
    <3>2. /\ phase[q] = "invoked"
          /\ outcome[q] = "none"
          /\ phase' = [phase EXCEPT ![q] = "finished"]
          /\ outcome' = [outcome EXCEPT ![q] = OutcomeOf(q, failed)]
          /\ UNCHANGED log
      BY <2>3 DEF Return, fileVars, QueryInv
    <3>3. q \in StartedQueries \ ReturnedQueries
      BY <3>2 DEF StartedQueries, ReturnedQueries, Invoked
    <3>4. StartedQueries' = StartedQueries /\ ReturnedQueries' = ReturnedQueries \cup {q}
      BY <3>1, <3>2 DEF StartedQueries, ReturnedQueries, Invoked
    <3>5. Journal!Finish(q)
      BY <3>2, <3>3, <3>4 DEF Journal!Finish
    <3> QED BY <3>5 DEF Journal!JNext
  <2>4. ASSUME NEW result \in AppendResults, AppendCompleted(q, result)
        PROVE  [Journal!JNext]_(Journal!jvars)
    <3>1. \A p \in Queries : Invoked(p)' = Invoked(p) /\ outcome'[p] = outcome[p]
      BY <2>4 DEF AppendCompleted, Invoked
    <3>2. AppendEvent("completed", q, result) /\ q \in ReturnedQueries
      BY <2>4 DEF AppendCompleted, QueryInv, ReturnedQueries
    <3>3. Journal!Complete(q) \/ UNCHANGED Journal!jvars
      BY <3>1, <3>2, JournalAppends DEF Journal!Complete, Journal!jvars
    <3> QED BY <3>3 DEF Journal!JNext
  <2> QED BY <1>2, <2>1, <2>2, <2>3, <2>4 DEF GoroutineStep
<1>3. ASSUME NEW result \in AppendResults, RetryAppend(result)
      PROVE  [Journal!JNext]_(Journal!jvars)
  <2>1. \A p \in Queries : Invoked(p)' = Invoked(p) /\ outcome'[p] = outcome[p]
    BY <1>3 DEF RetryAppend, workVars, Invoked
  <2>2. retry.id \in Queries /\ AppendEvent("completed", retry.id, result)
    BY <1>3 DEF RetryAppend, RetryNamed
  <2>3. retry.id \in ReturnedQueries
    BY <2>2 DEF SlotHoldsFailedCompletion, QueryInv, ReturnedQueries
  <2>4. Journal!Complete(retry.id) \/ UNCHANGED Journal!jvars
    BY <2>1, <2>2, <2>3, JournalAppends DEF Journal!Complete, Journal!jvars
  <2> QED BY <2>2, <2>4 DEF Journal!JNext
<1> QED BY <1>1, <1>2, <1>3, WorkStep DEF Works, RetriesCompletion

\* Execution implements AuditJournal: whatever is overridden, dropped, cancelled or
\* retried, the Audit Log is append-only, holds at most one submitted event of an
\* execution, and completed events only of executions that have returned.
THEOREM JournalRefinement == Spec => JournalImplemented
<1> SUFFICES Spec => Journal!JSpec
  BY DEF JournalImplemented
<1>1. WorkInv /\ WorkInv' /\ [Next]_vars => [Journal!JNext]_(Journal!jvars)
  BY JournalStep
<1> QED BY <1>1, InitJournal, WorkInvariant, PTL DEF Spec, Journal!JSpec

(************************ the order of the two events *********************)

\* A step leaves the log alone or appends one event; a completed one is of a Query that
\* has returned and was submitted.
LEMMA LogStep ==
  ASSUME WorkInv, [Next]_vars
  PROVE  \/ UNCHANGED log
         \/ \E e \in {"submitted", "completed"}, q \in Queries, result \in AppendResults :
              /\ AppendEvent(e, q, result)
              /\ e = "completed" => outcome[q] # "none" /\ Recorded("submitted", q)
<1> USE DEF WorkInv, TypeInv, TypeOK, QueryInv
<1>1. CASE NoWork \/ BeginsQuery \/ ReportsQuery
  BY <1>1 DEF NoWork, BeginsQuery, ReportsQuery, NoAudit
<1>2. ASSUME NEW q \in Queries, GoroutineStep(q)
      PROVE  \/ UNCHANGED log
             \/ \E result \in AppendResults : AppendEvent("submitted", q, result)
             \/ phase[q] = "finished" /\ \E result \in AppendResults :
                                           AppendEvent("completed", q, result)
  BY <1>2 DEF GoroutineStep, AppendSubmitted, Invoke, Return, AppendCompleted, fileVars
<1>3. CASE Works
  BY <1>2, <1>3 DEF Works
<1>4. CASE RetriesCompletion
  <2>1. PICK result \in AppendResults : RetryAppend(result)
    BY <1>4 DEF RetriesCompletion
  <2>2. retry.id \in Queries /\ AppendEvent("completed", retry.id, result)
    BY <2>1 DEF RetryAppend, RetryNamed
  <2>3. outcome[retry.id] # "none" /\ Recorded("submitted", retry.id)
    BY <2>2, ExecutionAssumptions DEF SlotHoldsFailedCompletion
  <2> QED BY <2>2, <2>3
<1> QED BY <1>1, <1>3, <1>4, WorkStep

LEMMA OutcomeStays ==
  ASSUME WorkInv, [Next]_vars, NEW q \in Queries, outcome[q] # "none"
  PROVE  outcome'[q] # "none"
<1> USE ExecutionAssumptions DEF WorkInv, TypeInv, TypeOK
<1>1. CASE NoWork \/ BeginsQuery \/ ReportsQuery
  BY <1>1 DEF NoWork, BeginsQuery, ReportsQuery, NoAudit
<1>2. ASSUME NEW p \in Queries, GoroutineStep(p) PROVE outcome'[q] # "none"
  BY <1>2 DEF GoroutineStep, AppendSubmitted, Invoke, Return, AppendCompleted, QueryInv
<1>3. CASE RetriesCompletion
  BY <1>3 DEF RetriesCompletion, RetryAppend, workVars
<1> QED BY <1>1, <1>2, <1>3, WorkStep DEF Works

LEMMA CompletionsFollowStep ==
  ASSUME WorkInv, CompletionsFollowSubmissions, [Next]_vars
  PROVE  CompletionsFollowSubmissions'
<1> SUFFICES ASSUME NEW i \in 1 .. Len(log'), log'[i].event = "completed"
             PROVE  /\ outcome'[log'[i].id] # "none"
                    /\ \E j \in 1 .. i - 1 : log'[j] = [event |-> "submitted", id |-> log'[i].id]
  BY DEF CompletionsFollowSubmissions
<1>1. log \in Seq(Events) /\ Len(log) \in Nat
  BY DEF WorkInv, TypeInv, TypeOK
<1>2. \A k \in 1 .. Len(log) : log[k].id \in Queries
  <2>1. \A k \in 1 .. Len(log) : log[k] \in Events
    BY <1>1
  <2> QED BY <2>1 DEF Events
<1>3. CASE UNCHANGED log
  BY <1>1, <1>2, <1>3, OutcomeStays DEF CompletionsFollowSubmissions
<1>4. ASSUME NEW e \in {"submitted", "completed"}, NEW q \in Queries,
             NEW result \in AppendResults, AppendEvent(e, q, result), result # "lost",
             e = "completed" => outcome[q] # "none" /\ Recorded("submitted", q)
      PROVE  /\ outcome'[log'[i].id] # "none"
             /\ \E j \in 1 .. i - 1 : log'[j] = [event |-> "submitted", id |-> log'[i].id]
  <2>1. /\ Len(log') = Len(log) + 1
        /\ \A k \in 1 .. Len(log) : log'[k] = log[k]
        /\ log'[Len(log) + 1] = [event |-> e, id |-> q]
    BY <1>1, <1>4, AppendEventExtends
  <2>2. CASE i \in 1 .. Len(log)
    <3>1. log'[i] = log[i]
      BY <2>1, <2>2
    <3>2. /\ outcome[log[i].id] # "none"
          /\ \E j \in 1 .. i - 1 : log[j] = [event |-> "submitted", id |-> log[i].id]
      BY <2>2, <3>1 DEF CompletionsFollowSubmissions
    <3>3. \A j \in 1 .. i - 1 : log'[j] = log[j]
      BY <1>1, <2>1, <2>2
    <3> QED BY <1>2, <2>2, <3>1, <3>2, <3>3, OutcomeStays
  <2>3. CASE i = Len(log) + 1
    <3>1. log'[i].id = q /\ e = "completed"
      BY <2>1, <2>3
    <3>2. PICK j \in 1 .. Len(log) : log[j] = [event |-> "submitted", id |-> q]
      BY <1>4, <3>1 DEF Recorded
    <3>3. j \in 1 .. i - 1 /\ log'[j] = [event |-> "submitted", id |-> q]
      BY <1>1, <2>1, <2>3, <3>2
    <3> QED BY <1>4, <3>1, <3>3, OutcomeStays
  <2> QED BY <1>1, <2>1, <2>2, <2>3
<1> QED BY <1>3, <1>4, LogStep DEF AppendEvent

\* Readers of the Audit Log see a completed event only after the submitted event of the
\* same execution, and only once that execution has returned.
THEOREM EventsAreOrdered == Spec => []CompletionsFollowSubmissions
<1>1. Init => CompletionsFollowSubmissions
  BY DEF Init, CompletionsFollowSubmissions
<1>2. WorkInv /\ CompletionsFollowSubmissions /\ [Next]_vars => CompletionsFollowSubmissions'
  BY CompletionsFollowStep
<1> QED BY <1>1, <1>2, WorkInvariant, PTL DEF Spec

(****** while no modal starts a slash command over a task in flight *******)

\* One task at a time: the slot is empty while a Statement runs, a retry in flight is for the
\* slot, and whatever ran before has its completed event or is in the slot.
OneTaskInv ==
  /\ RunningWhileInFlight
  /\ running \in Queries => pending = NoTask
  /\ RetryIsForSlot
  /\ retry.phase # "idle" => pending # NoTask
  /\ retry.phase = "ok" => Recorded("completed", retry.id)
  /\ UnwrittenCompletionIsPending
  /\ \A q \in Queries : phase[q] # "idle" => session \in Sessions
  /\ EveryInvocationRecalled
SequentialInv == WorkInv /\ OneTaskInv

LEMMA InitSequentialInv == Init => SequentialInv
BY InitTypeInv, ExecutionAssumptions
   DEF Init, SequentialInv, WorkInv, QueryInv, SlotHoldsFailedCompletion, NoRetry, Recorded,
       OneTaskInv, RunningWhileInFlight, RetryIsForSlot, UnwrittenCompletionIsPending,
       EveryInvocationRecalled, InFlight, Invoked

\* Beginning a task when nothing is Running and nothing is unwritten.
LEMMA BeginSequential ==
  ASSUME SequentialInv, TypeInv', running = NoTask, pending' = NoTask, retry'.phase = "idle",
         \A q \in Queries : Invoked(q) => Recorded("completed", q),
         NEW t \in Tasks, phase[t] = "idle", BeginExecution(t),
         t \in Queries => session \in Sessions,
         UNCHANGED <<session, log, outcome, history>>
  PROVE  OneTaskInv'
<1> USE ExecutionAssumptions DEF SequentialInv, OneTaskInv, TypeInv, TypeOK
<1>1. running' = t /\ phase' = [phase EXCEPT ![t] = "begun"]
  BY DEF BeginExecution
<1>2. RunningWhileInFlight'
  BY <1>1 DEF RunningWhileInFlight, InFlight, WorkInv
<1>3. \A q \in Queries : Invoked(q)' = Invoked(q)
  BY <1>1 DEF Invoked, WorkInv
<1>4. UnwrittenCompletionIsPending' /\ RetryIsForSlot'
  BY <1>3, RecordedStays DEF UnwrittenCompletionIsPending, RetryIsForSlot
<1>5. EveryInvocationRecalled'
  BY <1>1, <1>3 DEF EveryInvocationRecalled, InFlight, WorkInv
<1>6. \A q \in Queries : phase'[q] # "idle" => session' \in Sessions
  BY <1>1 DEF WorkInv
<1> QED BY <1>2, <1>4, <1>5, <1>6

\* Once in the Audit Log, an event stays there.
LEMMA RecordsStay ==
  ASSUME WorkInv, [Next]_vars, NEW p \in Queries, NEW f \in {"submitted", "completed"},
         Recorded(f, p)
  PROVE  Recorded(f, p)'
<1>1. log \in Seq(Events)
  BY DEF WorkInv, TypeInv, TypeOK
<1> QED BY <1>1, LogStep, RecordedStays, AppendEventRecords

LEMMA NothingInFlight ==
  ASSUME SequentialInv, running = NoTask
  PROVE  /\ \A t \in Tasks : ~InFlight(t)
         /\ pending = NoTask => \A q \in Queries : Invoked(q) => Recorded("completed", q)
         /\ pending = NoTask => retry.phase = "idle"
BY ExecutionAssumptions
   DEF SequentialInv, OneTaskInv, RunningWhileInFlight, UnwrittenCompletionIsPending

\* Steps that leave alone what OneTaskInv is about.
LEMMA QuietStep ==
  ASSUME SequentialInv, UNCHANGED <<running, phase, pending, retry, log, outcome, history>>,
         session' = session \/ session' \in Sessions
  PROVE  OneTaskInv'
<1> USE DEF SequentialInv, OneTaskInv
<1>1. /\ \A t \in Tasks : InFlight(t)' = InFlight(t)
      /\ \A q \in Queries : Invoked(q)' = Invoked(q)
  BY DEF InFlight, Invoked
<1>2. RunningWhileInFlight' /\ RetryIsForSlot'
  BY <1>1 DEF RunningWhileInFlight, RetryIsForSlot
<1>3. UnwrittenCompletionIsPending' /\ EveryInvocationRecalled'
  BY <1>1, RecordedStays DEF UnwrittenCompletionIsPending, EveryInvocationRecalled, Tasks
<1>4. retry'.phase = "ok" => Recorded("completed", retry.id)'
  BY RecordedStays
<1> QED BY <1>2, <1>3, <1>4

\* The submission of text when nothing is Running and nothing is unwritten any more.
LEMMA SubmitTextSequential ==
  ASSUME SequentialInv, TypeInv', running = NoTask, pending' = NoTask, retry'.phase = "idle",
         \A q \in Queries : Invoked(q) => Recorded("completed", q),
         UNCHANGED session, NEW text, NEW origin, SubmitText(text, origin)
  PROVE  OneTaskInv'
<1>1. CASE NothingStarted
  <2>1. UNCHANGED <<running, phase, log, outcome, history>>
    BY <1>1 DEF NothingStarted, execVars, workVars, fileVars
  <2>2. /\ \A t \in Tasks : InFlight(t)' = InFlight(t)
        /\ \A q \in Queries : Invoked(q)' = Invoked(q)
    BY <2>1 DEF InFlight, Invoked
  <2>3. RunningWhileInFlight' /\ RetryIsForSlot'
    BY <2>1, <2>2 DEF RunningWhileInFlight, RetryIsForSlot, SequentialInv, OneTaskInv
  <2>4. UnwrittenCompletionIsPending' /\ EveryInvocationRecalled'
    BY <2>1, <2>2, RecordedStays
       DEF UnwrittenCompletionIsPending, EveryInvocationRecalled, SequentialInv, OneTaskInv, Tasks
  <2> QED BY <2>1, <2>3, <2>4 DEF SequentialInv, OneTaskInv
<1>2. ASSUME NEW t \in TypedSlashes, StartSlash(t) PROVE OneTaskInv'
  BY <1>2, BeginSequential, ExecutionAssumptions DEF StartSlash, fileVars
<1>3. ASSUME NEW q \in Queries, StartQuery(q, text, origin), session # NoSession
      PROVE  OneTaskInv'
  <2>1. session \in Sessions
    BY <1>3 DEF SequentialInv, WorkInv, TypeInv, TypeOK
  <2> QED BY <1>3, <2>1, BeginSequential DEF StartQuery, fileVars
<1> QED BY <1>1, <1>2, <1>3 DEF SubmitText

\* A slash command from a modal asks nobody but what is Running: the slot may be filled and
\* its retry in flight.
LEMMA ModalSequential ==
  ASSUME SequentialInv, running = NoTask, NEW t \in ModalSlashes, DispatchFromModal(t)
  PROVE  OneTaskInv'
<1> USE ExecutionAssumptions DEF SequentialInv, OneTaskInv, WorkInv, TypeInv, TypeOK
<1>1. /\ t \in Slashes /\ t \notin Queries /\ running' = t
      /\ phase' = [phase EXCEPT ![t] = "begun"]
      /\ UNCHANGED <<session, outcome, pending, retry, log, history>>
  BY DEF DispatchFromModal, StartSlash, BeginExecution, Slashes, slotVars, fileVars
<1>2. RunningWhileInFlight' /\ RetryIsForSlot'
  BY <1>1 DEF RunningWhileInFlight, InFlight, RetryIsForSlot
<1>3. \A q \in Queries : phase'[q] = phase[q] /\ InFlight(q)' = InFlight(q)
                           /\ Invoked(q)' = Invoked(q)
  BY <1>1 DEF InFlight, Invoked
<1>4. UnwrittenCompletionIsPending' /\ EveryInvocationRecalled'
  BY <1>1, <1>3, RecordedStays DEF UnwrittenCompletionIsPending, EveryInvocationRecalled
<1>5. retry'.phase = "ok" => Recorded("completed", retry.id)'
  BY <1>1, RecordedStays
<1> QED BY <1>1, <1>2, <1>3, <1>4, <1>5

LEMMA SubmissionSequential ==
  ASSUME SequentialInv, TypeInv', HandleSubmitIntent PROVE OneTaskInv'
<1>1. UNCHANGED session
  BY DEF HandleSubmitIntent
<1>2. CASE NothingStarted /\ UNCHANGED slotVars
  BY <1>1, <1>2, QuietStep DEF NothingStarted, execVars, workVars, fileVars, slotVars
<1>3. CASE ~StillRunning /\ CompletionUnwritten /\ StartRetry
  <2>1. /\ UNCHANGED <<running, phase, pending, log, outcome, history>>
        /\ retry'.phase = "appending"
        /\ retry'.id = pending
        /\ pending # NoTask
    BY <1>3 DEF StartRetry, CompletionUnwritten, execVars, workVars, fileVars
  <2>2. /\ \A t \in Tasks : InFlight(t)' = InFlight(t)
        /\ \A q \in Queries : Invoked(q)' = Invoked(q)
    BY <2>1 DEF InFlight, Invoked
  <2>3. RunningWhileInFlight' /\ RetryIsForSlot'
    BY <2>1, <2>2 DEF RunningWhileInFlight, RetryIsForSlot, SequentialInv, OneTaskInv
  <2>4. UnwrittenCompletionIsPending' /\ EveryInvocationRecalled'
    BY <2>1, <2>2, RecordedStays
       DEF UnwrittenCompletionIsPending, EveryInvocationRecalled, SequentialInv, OneTaskInv, Tasks
  <2> QED BY <1>1, <2>1, <2>3, <2>4 DEF SequentialInv, OneTaskInv
<1>4. CASE ~StillRunning /\ ~CompletionUnwritten /\ UNCHANGED slotVars
           /\ SubmitText(editor, session)
  <2>1. running = NoTask /\ pending = NoTask /\ UNCHANGED <<pending, retry>>
    BY <1>4 DEF StillRunning, CompletionUnwritten, slotVars
  <2>2. retry'.phase = "idle" /\ \A q \in Queries : Invoked(q) => Recorded("completed", q)
    BY <2>1, NothingInFlight
  <2> QED BY <1>1, <1>4, <2>1, <2>2, SubmitTextSequential
<1> QED BY <1>2, <1>3, <1>4 DEF HandleSubmitIntent

LEMMA RetriedSequential ==
  ASSUME SequentialInv, TypeInv', HandleAuditCompletionRetried PROVE OneTaskInv'
<1> USE DEF SequentialInv, OneTaskInv
<1>1. UNCHANGED session /\ retry' = NoRetry /\ retry.phase \in {"ok", "failed"}
  BY DEF HandleAuditCompletionRetried
<1>2. pending = retry.id /\ retry'.phase = "idle"
  BY <1>1 DEF RetryIsForSlot, NoRetry
<1>3. CASE NothingStarted
  <2>1. /\ UNCHANGED <<running, phase, log, outcome, history>>
        /\ pending' = pending \/ (RetrySucceeded /\ pending' = NoTask)
    BY <1>3 DEF HandleAuditCompletionRetried, NothingStarted, execVars, workVars, fileVars
  <2>2. /\ \A t \in Tasks : InFlight(t)' = InFlight(t)
        /\ \A q \in Queries : Invoked(q)' = Invoked(q)
    BY <2>1 DEF InFlight, Invoked
  <2>3. RunningWhileInFlight' /\ RetryIsForSlot'
    BY <1>2, <2>1, <2>2 DEF RunningWhileInFlight, RetryIsForSlot
  <2>4. UnwrittenCompletionIsPending'
    BY <1>2, <2>1, <2>2, RecordedStays DEF UnwrittenCompletionIsPending, RetrySucceeded, Tasks
  <2>5. EveryInvocationRecalled'
    BY <2>1, <2>2 DEF EveryInvocationRecalled, Tasks
  <2> QED BY <1>1, <1>2, <2>1, <2>3, <2>4, <2>5
<1>4. CASE RetrySucceeded /\ ~StillRunning
  <2>1. running = NoTask
    BY <1>4 DEF StillRunning
  <2>2. pending' = NoTask /\ SubmitText(retry.stmt, retry.origin)
    BY <1>4 DEF HandleAuditCompletionRetried
  <2>3. \A q \in Queries : Invoked(q) => Recorded("completed", q)
    BY <1>2, <1>4, <2>1, NothingInFlight DEF RetrySucceeded, UnwrittenCompletionIsPending, Tasks
  <2> QED BY <1>1, <1>2, <2>1, <2>2, <2>3, SubmitTextSequential
<1> QED BY <1>3, <1>4 DEF HandleAuditCompletionRetried

\* A task in flight gets further and stays in flight.
LEMMA WorkerSequential ==
  ASSUME SequentialInv, [Next]_vars, NEW t \in Tasks, InFlight(t), InFlight(t)',
         \A u \in Tasks \ {t} : phase'[u] = phase[u] /\ outcome'[u] = outcome[u],
         UNCHANGED <<session, running, pending, retry, history>>
  PROVE  OneTaskInv'
<1> USE ExecutionAssumptions DEF SequentialInv, OneTaskInv
<1>1. \A u \in Tasks : InFlight(u)' = InFlight(u)
  BY DEF InFlight
<1>2. RunningWhileInFlight' /\ RetryIsForSlot'
  BY <1>1 DEF RunningWhileInFlight, RetryIsForSlot
<1>3. \A q \in Queries \ {t} : Invoked(q)' = Invoked(q)
  BY DEF Invoked
<1>4. \A q \in Queries, f \in {"submitted", "completed"} : Recorded(f, q) => Recorded(f, q)'
  BY RecordsStay
<1>5. UnwrittenCompletionIsPending' /\ EveryInvocationRecalled'
  BY <1>1, <1>3, <1>4 DEF UnwrittenCompletionIsPending, EveryInvocationRecalled
<1>6. retry'.phase = "ok" => Recorded("completed", retry.id)'
  BY <1>4 DEF WorkInv, TypeInv, RetryNamed
<1>7. \A q \in Queries : phase'[q] # "idle" => session' \in Sessions
  BY DEF InFlight
<1> QED BY <1>2, <1>5, <1>6, <1>7

LEMMA GoroutineSequential ==
  ASSUME SequentialInv, [Next]_vars, NEW q \in Queries, GoroutineStep(q) PROVE OneTaskInv'
<1> USE ExecutionAssumptions DEF SequentialInv, WorkInv, TypeInv, TypeOK
<1>1. /\ InFlight(q) /\ InFlight(q)'
      /\ \A u \in Tasks \ {q} : phase'[u] = phase[u] /\ outcome'[u] = outcome[u]
  BY DEF GoroutineStep, AppendSubmitted, AfterSubmitted, Invoke, Return, AppendCompleted, InFlight
<1>2. UNCHANGED <<session, running, pending, retry, history>>
  BY DEF GoroutineStep, AppendSubmitted, Invoke, Return, AppendCompleted, uiVars, execVars,
         slotVars, fileVars
<1> QED BY <1>1, <1>2, WorkerSequential

LEMMA SlashDoneSequential ==
  ASSUME SequentialInv, [Next]_vars, NEW t \in Slashes, NEW failed, SlashDone(t, failed)
  PROVE  OneTaskInv'
<1> USE ExecutionAssumptions DEF SequentialInv, WorkInv, TypeInv, TypeOK
<1>1. /\ InFlight(t) /\ InFlight(t)'
      /\ \A u \in Tasks \ {t} : phase'[u] = phase[u] /\ outcome'[u] = outcome[u]
  BY DEF SlashDone, InFlight
<1>2. UNCHANGED <<session, running, pending, retry, history>>
  BY DEF SlashDone, uiVars, execVars, slotVars, fileVars
<1> QED BY <1>1, <1>2, WorkerSequential

LEMMA RetryAppendSequential ==
  ASSUME SequentialInv, [Next]_vars, NEW result \in AppendResults, RetryAppend(result)
  PROVE  OneTaskInv'
<1> USE ExecutionAssumptions DEF SequentialInv, OneTaskInv
<1>1. UNCHANGED <<session, running, phase, outcome, pending, history>>
  BY DEF RetryAppend, uiVars, execVars, workVars
<1>2. retry.id \in Queries /\ AppendEvent("completed", retry.id, result) /\ log \in Seq(Events)
  BY DEF RetryAppend, WorkInv, TypeInv, TypeOK, RetryNamed
<1>3. /\ retry'.id = retry.id
      /\ retry'.phase = "ok" => result = "ok"
      /\ retry.phase # "idle"
  BY DEF RetryAppend, WorkInv, TypeInv, TypeOK, Retries
<1>4. /\ \A t \in Tasks : InFlight(t)' = InFlight(t)
      /\ \A q \in Queries : Invoked(q)' = Invoked(q)
  BY <1>1 DEF InFlight, Invoked
<1>5. \A q \in Queries, f \in {"submitted", "completed"} : Recorded(f, q) => Recorded(f, q)'
  BY RecordsStay
<1>6. retry'.phase = "ok" => Recorded("completed", retry.id)'
  BY <1>2, <1>3, AppendEventRecords
<1>7. RunningWhileInFlight' /\ RetryIsForSlot'
  BY <1>1, <1>3, <1>4 DEF RunningWhileInFlight, RetryIsForSlot
<1>8. UnwrittenCompletionIsPending' /\ EveryInvocationRecalled'
  BY <1>1, <1>4, <1>5 DEF UnwrittenCompletionIsPending, EveryInvocationRecalled
<1>9. retry'.phase = "ok" => Recorded("completed", retry.id)' /\ retry'.id = retry.id
  BY <1>3, <1>6
<1> QED BY <1>1, <1>3, <1>7, <1>8, <1>9

LEMMA SlashReportSequential ==
  ASSUME SequentialInv, NEW t \in Slashes, NEW text, HandleSlashCommandExecuted(t, text)
  PROVE  OneTaskInv'
<1> USE ExecutionAssumptions DEF SequentialInv, OneTaskInv, WorkInv, TypeInv, TypeOK
<1>1. /\ running = t /\ running' = NoTask
      /\ phase' = [phase EXCEPT ![t] = "handled"]
      /\ UNCHANGED <<session, outcome, pending, retry, log, history>>
  BY DEF HandleSlashCommandExecuted, CompleteExecution, RunningWhileInFlight, InFlight,
         slotVars, fileVars
<1>2. RunningWhileInFlight' /\ RetryIsForSlot'
  BY <1>1 DEF RunningWhileInFlight, InFlight, RetryIsForSlot
<1>3. \A q \in Queries : phase'[q] = phase[q] /\ InFlight(q)' = InFlight(q)
                           /\ Invoked(q)' = Invoked(q)
  BY <1>1 DEF InFlight, Invoked
<1>4. UnwrittenCompletionIsPending' /\ EveryInvocationRecalled'
  BY <1>1, <1>3, RecordedStays DEF UnwrittenCompletionIsPending, EveryInvocationRecalled
<1>5. retry'.phase = "ok" => Recorded("completed", retry.id)'
  BY <1>1, RecordedStays
<1> QED BY <1>1, <1>2, <1>3, <1>4, <1>5

LEMMA ReportSequential ==
  ASSUME SequentialInv, NEW q \in Queries, HandleStatementExecuted(q) PROVE OneTaskInv'
<1> USE ExecutionAssumptions DEF SequentialInv, OneTaskInv, WorkInv, TypeInv, TypeOK
<1>1. running = q /\ ~Superseded(q)
  BY DEF HandleStatementExecuted, RunningWhileInFlight, InFlight, Superseded
<1>2. /\ pending = NoTask /\ retry.phase = "idle"
      /\ \A t \in Tasks \ {q} : ~InFlight(t)
      /\ \A p \in Queries \ {q} : Invoked(p) => Recorded("completed", p)
  BY <1>1 DEF RunningWhileInFlight, UnwrittenCompletionIsPending, RetryIsForSlot, RetryNamed
<1>3. /\ running' = NoTask
      /\ phase' = [phase EXCEPT ![q] = "handled"]
      /\ UNCHANGED <<session, outcome, log, unacked, retry>>
  BY <1>1 DEF HandleStatementExecuted, CompleteExecution
<1>4. RunningWhileInFlight'
  BY <1>2, <1>3 DEF RunningWhileInFlight, InFlight
<1>5. \A p \in Queries \ {q} : InFlight(p)' = InFlight(p) /\ Invoked(p)' = Invoked(p)
  BY <1>3 DEF InFlight, Invoked
<1>6. Invoked(q)' => phase[q] = "reported" /\ outcome[q] # "none"
  BY <1>3 DEF HandleStatementExecuted, Invoked, QueryInv
<1>7. phase[q] = "reported" =>
        pending' = SlotAfter(q) /\ history' = Remember(q) /\ session \in Sessions
  BY <1>1 DEF HandleStatementExecuted
<1>8. UnwrittenCompletionIsPending'
  <2>1. Invoked(q)' => pending' = q \/ Recorded("completed", q)
    BY <1>6, <1>7 DEF SlotAfter, QueryInv
  <2> QED BY <1>2, <1>3, <1>5, <2>1, RecordedStays DEF UnwrittenCompletionIsPending
<1>9. EveryInvocationRecalled'
  <2>1. \A c \in Sessions : history[c] \subseteq history'[c]
    BY <1>1 DEF HandleStatementExecuted, Remember
  <2>2. Invoked(q)' => q \in history'[session]
    BY <1>6, <1>7 DEF Remember
  <2> QED BY <1>3, <1>5, <1>6, <1>7, <2>1, <2>2 DEF EveryInvocationRecalled
<1>10. RetryIsForSlot'
  BY <1>2, <1>3 DEF RetryIsForSlot
<1>11. \A p \in Queries : phase'[p] # "idle" => session' \in Sessions
  BY <1>1, <1>3 DEF HandleStatementExecuted
<1>12. running' \notin Queries /\ retry'.phase = "idle"
  BY <1>2, <1>3
<1> QED BY ONLY <1>4, <1>8, <1>9, <1>10, <1>11, <1>12 DEF OneTaskInv

LEMMA SequentialStep ==
  ASSUME SequentialInv, [Next /\ ~Overrides]_vars PROVE OneTaskInv'
<1>1. TypeInv'
  BY NextTypeInv DEF SequentialInv, WorkInv
<1>2. CASE UserStep
  <2>1. ASSUME NEW t \in ModalSlashes, DispatchFromModal(t) PROVE OneTaskInv'
    <3>1. t \in Tasks /\ phase[t] = "idle" /\ phase'[t] = "begun"
      BY <2>1 DEF DispatchFromModal, StartSlash, BeginExecution, Tasks, Slashes, SequentialInv,
                  WorkInv, TypeInv, TypeOK
    <3>2. ~Overrides
      BY <3>1 DEF vars, workVars
    <3> QED BY <2>1, <3>2, ModalSequential DEF Overrides
  <2> QED BY <1>2, <2>1, QuietStep
          DEF UserStep, Type, PressSubmit, PressEsc, Send, uiVars, execVars, workVars, slotVars,
              fileVars
<1>3. CASE SessionStep
  BY <1>3, QuietStep
     DEF SessionStep, WireSession, ReplaceSession, execVars, workVars, slotVars, fileVars
<1>4. CASE HandleCancelRunningIntent
  BY <1>4, QuietStep DEF HandleCancelRunningIntent, uiVars, workVars, slotVars, fileVars
<1>5. ASSUME NEW t \in Tasks, Expire(t) PROVE OneTaskInv'
  BY <1>5, QuietStep DEF Expire, uiVars, workVars, slotVars, fileVars
<1>6. CASE UNCHANGED vars
  BY <1>6, QuietStep DEF vars, uiVars, execVars, workVars, slotVars, fileVars
<1> QED
  BY <1>1, <1>2, <1>3, <1>4, <1>5, <1>6, SubmissionSequential, RetriedSequential,
     GoroutineSequential, SlashDoneSequential, RetryAppendSequential, SlashReportSequential,
     ReportSequential DEF Next, HandlerStep

\* Nothing that is true of every behaviour is lost in those without an override.
LEMMA OrderlyBehaves == OrderlySpec => Spec
<1>1. [Next /\ ~Overrides]_vars => [Next]_vars
  OBVIOUS
<1> QED BY <1>1, PTL DEF OrderlySpec, Spec

LEMMA SequentialInvariant == OrderlySpec => []SequentialInv
<1>1. SequentialInv /\ WorkInv' /\ [Next /\ ~Overrides]_vars => SequentialInv'
  BY SequentialStep DEF SequentialInv
<1> QED BY <1>1, InitSequentialInv, WorkInvariant, OrderlyBehaves, PTL DEF OrderlySpec

\* While no modal starts a slash command over what is Running, Running is the one task in flight.
THEOREM OneTaskAtATime == OrderlySpec => []RunningWhileInFlight
<1>1. SequentialInv => RunningWhileInFlight
  BY DEF SequentialInv, OneTaskInv
<1> QED BY <1>1, SequentialInvariant, PTL

\* While no modal starts a slash command over what is Running, no completed event is forgotten: the single slot
\* of ADR 0004 is enough.
THEOREM OneSlotIsEnough == OrderlySpec => []UnwrittenCompletionIsPending
<1>1. SequentialInv => UnwrittenCompletionIsPending
  BY DEF SequentialInv, OneTaskInv
<1> QED BY <1>1, SequentialInvariant, PTL

\* While no modal starts a slash command over what is Running, whatever ran can be recalled from a History.
THEOREM NothingForgotten == OrderlySpec => []EveryInvocationRecalled
<1>1. SequentialInv => EveryInvocationRecalled
  BY DEF SequentialInv, OneTaskInv
<1> QED BY <1>1, SequentialInvariant, PTL

\* While no modal starts a slash command over what is Running, a retry clears the completion it has written.
THEOREM RetryClearsItsOwn == OrderlySpec => []RetryIsForSlot
<1>1. SequentialInv => RetryIsForSlot
  BY DEF SequentialInv, OneTaskInv
<1> QED BY <1>1, SequentialInvariant, PTL

LEMMA BegunAfterWritten ==
  ASSUME SequentialInv, Next, NEW q \in Queries, phase[q] = "idle", phase'[q] = "begun"
  PROVE  \A p \in Queries : Invoked(p) => Recorded("completed", p)
<1> USE ExecutionAssumptions DEF SequentialInv, WorkInv, TypeInv, TypeOK
<1>1. CASE HandleSubmitIntent
  <2>1. running = NoTask /\ pending = NoTask
    BY <1>1 DEF HandleSubmitIntent, NothingStarted, StartRetry, StillRunning, CompletionUnwritten,
                workVars
  <2> QED BY <2>1, NothingInFlight
<1>2. CASE HandleAuditCompletionRetried
  <2>1. RetrySucceeded
    BY <1>2 DEF HandleAuditCompletionRetried, NothingStarted, workVars
  <2>2. running = NoTask
    BY <1>2 DEF HandleAuditCompletionRetried, NothingStarted, workVars, StillRunning
  <2>3. pending = retry.id /\ Recorded("completed", retry.id)
    BY <2>1 DEF RetrySucceeded, OneTaskInv, RetryIsForSlot
  <2> QED BY <2>2, <2>3, NothingInFlight DEF OneTaskInv, UnwrittenCompletionIsPending
<1>3. CASE UserStep
  BY <1>3 DEF UserStep, Type, PressSubmit, PressEsc, Send, DispatchFromModal, StartSlash,
              BeginExecution, workVars
<1>4. CASE SessionStep
  BY <1>4 DEF SessionStep, WireSession, ReplaceSession, workVars
<1>5. ASSUME NEW p \in Queries, GoroutineStep(p) PROVE FALSE
  BY <1>5 DEF GoroutineStep, AppendSubmitted, AfterSubmitted, Invoke, Return, AppendCompleted
<1>6. ASSUME NEW t \in Slashes, NEW failed, SlashDone(t, failed) PROVE FALSE
  BY <1>6 DEF SlashDone
<1>7. ASSUME NEW t \in Tasks, Expire(t) PROVE FALSE
  BY <1>7 DEF Expire, workVars
<1>8. ASSUME NEW result, RetryAppend(result) PROVE FALSE
  BY <1>8 DEF RetryAppend, workVars
<1>9. ASSUME HandleCancelRunningIntent PROVE FALSE
  BY <1>9 DEF HandleCancelRunningIntent, workVars
<1>10. ASSUME NEW p \in Queries, HandleStatementExecuted(p) PROVE FALSE
  BY <1>10 DEF HandleStatementExecuted
<1>11. ASSUME NEW t \in Slashes, NEW text, HandleSlashCommandExecuted(t, text) PROVE FALSE
  BY <1>11 DEF HandleSlashCommandExecuted
<1> QED
  BY <1>1, <1>2, <1>3, <1>4, <1>5, <1>6, <1>7, <1>8, <1>9, <1>10, <1>11 DEF Next, HandlerStep

\* While no modal starts a slash command over what is Running, no Statement starts before the completed events of
\* all those that ran are written: the slot and its retry block submission.
THEOREM SubmissionIsBlocked == OrderlySpec => BlockedUntilWritten
<1> DEFINE Blocked ==
      \A q \in Queries : phase[q] = "idle" /\ phase'[q] = "begun" =>
        \A p \in Queries : Invoked(p) => Recorded("completed", p)
<1>1. SequentialInv /\ [Next]_vars => [Blocked]_vars
  BY BegunAfterWritten
<1>2. BlockedUntilWritten <=> [][Blocked]_vars
  BY DEF BlockedUntilWritten
<1> QED BY <1>1, <1>2, SequentialInvariant, OrderlyBehaves, PTL DEF Spec

=============================================================================
