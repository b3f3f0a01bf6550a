---------------------------- MODULE SqlceryProofs ----------------------------
(***************************************************************************)
(* What holds of the Model as a whole for every value of the constants:    *)
(* the composition implements Execution and Switching, so that what is     *)
(* proved of each holds of it; and unless something is started while a     *)
(* switch is under way, what ran stays with the Session it ran on.         *)
(***************************************************************************)
EXTENDS Sqlcery, TLAPS

SwP == INSTANCE SwitchingProofs
ExP == INSTANCE ExecutionProofs WITH Sessions <- Attempts, NoSession <- NoAttempt

LEMMA SwitchingConstants == SwP!SwitchingAssumptions
BY SqlceryAssumptions DEF SwP!SwitchingAssumptions

LEMMA ExecutionConstants == ExP!ExecutionAssumptions
BY SqlceryAssumptions
   DEF ExP!ExecutionAssumptions, ExP!Tasks, ExP!Slashes, ExP!Texts, ExP!OtherTexts, ExP!InertTexts

(*********************** the same under either instance *******************)

\* Sqlcery composes Sw and Ex, their theorems speak of SwP and ExP: the definitions are the
\* same, one by one.
LEMMA SameSwitching ==
  /\ Sw!SInit = SwP!SInit
  /\ [Sw!SNext]_(Sw!svars) <=> [SwP!SNext]_(SwP!svars)
<1>1. Sw!SInit = SwP!SInit
  BY DEF Sw!SInit, SwP!SInit, Sw!Unused, SwP!Unused
<1>2. [Sw!SNext]_(Sw!svars) <=> [SwP!SNext]_(SwP!svars)
  <2> USE DEF Sw!svars, SwP!svars, Sw!PickerInit, SwP!PickerInit, Sw!connectVars, SwP!connectVars,
              Sw!adapterVars, SwP!adapterVars, Sw!Push, SwP!Push, Sw!ConfirmSelection,
              SwP!ConfirmSelection, Sw!LeavePicker, SwP!LeavePicker, Sw!PickerHelp,
              SwP!PickerHelp, Sw!PaneKey, SwP!PaneKey, Sw!QuitKey, SwP!QuitKey, Sw!ConnectingKey,
              SwP!ConnectingKey, Sw!LockedEsc, SwP!LockedEsc, Sw!LockedOtherKey,
              SwP!LockedOtherKey, Sw!LockedQuit, SwP!LockedQuit, Sw!HelpBrowse, SwP!HelpBrowse,
              Sw!HelpDismiss, SwP!HelpDismiss, Sw!HelpForward, SwP!HelpForward, Sw!HelpRow,
              SwP!HelpRow, Sw!OpenOther, SwP!OpenOther, Sw!CloseOther, SwP!CloseOther,
              Sw!ToggleHelp, SwP!ToggleHelp, Sw!FocusPane, SwP!FocusPane, Sw!RefusePicker,
              SwP!RefusePicker, Sw!OpenPicker, SwP!OpenPicker, Sw!ConnectAbort, SwP!ConnectAbort,
              Sw!ModalSlash, SwP!ModalSlash, Sw!SlashesRun, SwP!SlashesRun, Sw!SlashConnect,
              SwP!SlashConnect, Sw!SlashWizard, SwP!SlashWizard, Sw!SlashError, SwP!SlashError,
              Sw!ReportReady, SwP!ReportReady, Sw!PickerConnect, SwP!PickerConnect,
              Sw!MidRunConnect, SwP!MidRunConnect, Sw!OpenReturns, SwP!OpenReturns,
              Sw!PickerConnectSuccess, SwP!PickerConnectSuccess, Sw!MidRunConnectSuccess,
              SwP!MidRunConnectSuccess, Sw!PickerConnectFailed, SwP!PickerConnectFailed,
              Sw!MidRunConnectFailed, SwP!MidRunConnectFailed, Sw!PickerReachable,
              SwP!PickerReachable, Sw!CloseToReady, SwP!CloseToReady, Sw!Post, SwP!Post,
              Sw!Request, SwP!Request, Sw!KeysReach, SwP!KeysReach, Sw!Quit, SwP!Quit, Sw!Intent,
              SwP!Intent, Sw!KeysReachPanes, SwP!KeysReachPanes, Sw!TopKind, SwP!TopKind,
              Sw!KeysLocked, SwP!KeysLocked, Sw!ReleaseLock, SwP!ReleaseLock, Sw!Reachable,
              SwP!Reachable, Sw!NoMail, SwP!NoMail, Sw!StackOnly, SwP!StackOnly, Sw!PaneRow,
              SwP!PaneRow, Sw!Posted, SwP!Posted, Sw!Pop, SwP!Pop, Sw!ShowOver, SwP!ShowOver,
              Sw!Taken, SwP!Taken, Sw!Room, SwP!Room, Sw!Connection, SwP!Connection,
              Sw!Unresolved, SwP!Unresolved, Sw!StartOpen, SwP!StartOpen, Sw!ConnectSucceeded,
              SwP!ConnectSucceeded, Sw!CloseAdapter, SwP!CloseAdapter, Sw!IsPicker, SwP!IsPicker,
              Sw!ConnectFailed, SwP!ConnectFailed, Sw!NoConnectChange, SwP!NoConnectChange,
              Sw!Resolved, SwP!Resolved, Sw!Unused, SwP!Unused, Sw!Cardinality, SwP!Cardinality
  <2>1. Sw!svars = SwP!svars /\ (Sw!PickerInit = SwP!PickerInit)
    OBVIOUS
  <2>2. Sw!KeyStep = SwP!KeyStep
    <3>1. \A c : Sw!ConfirmSelection(c) = SwP!ConfirmSelection(c)
      OBVIOUS
    <3>2. /\ Sw!LeavePicker = SwP!LeavePicker
          /\ Sw!PickerHelp = SwP!PickerHelp
          /\ Sw!PaneKey = SwP!PaneKey
          /\ Sw!QuitKey = SwP!QuitKey
          /\ Sw!ConnectingKey = SwP!ConnectingKey
          /\ Sw!LockedEsc = SwP!LockedEsc
          /\ Sw!LockedOtherKey = SwP!LockedOtherKey
          /\ Sw!LockedQuit = SwP!LockedQuit
      OBVIOUS
    <3>3. /\ Sw!HelpBrowse = SwP!HelpBrowse
          /\ Sw!HelpDismiss = SwP!HelpDismiss
          /\ Sw!HelpForward = SwP!HelpForward
          /\ Sw!HelpRow = SwP!HelpRow
          /\ Sw!OpenOther = SwP!OpenOther
          /\ Sw!CloseOther = SwP!CloseOther
      OBVIOUS
    <3> QED BY ONLY <3>1, <3>2, <3>3 DEF Sw!KeyStep, SwP!KeyStep
  <2>3. Sw!IntentStep = SwP!IntentStep
    BY DEF Sw!IntentStep, SwP!IntentStep
  <2>4. Sw!SlashStep = SwP!SlashStep
    BY DEF Sw!SlashStep, SwP!SlashStep
  <2>5. \A i : Sw!ConnectStep(i) = SwP!ConnectStep(i)
    <3>1. \A i, c : Sw!MidRunConnect(i, c) = SwP!MidRunConnect(i, c)
      OBVIOUS
    <3>2. \A i, ok : Sw!OpenReturns(i, ok) = SwP!OpenReturns(i, ok)
      OBVIOUS
    <3>3. \A i : Sw!PickerConnect(i) = SwP!PickerConnect(i)
      OBVIOUS
    <3>4. \A i : /\ Sw!PickerConnectSuccess(i) = SwP!PickerConnectSuccess(i)
                 /\ Sw!MidRunConnectSuccess(i) = SwP!MidRunConnectSuccess(i)
      OBVIOUS
    <3>5. \A i : /\ Sw!PickerConnectFailed(i) = SwP!PickerConnectFailed(i)
                 /\ Sw!MidRunConnectFailed(i) = SwP!MidRunConnectFailed(i)
      OBVIOUS
    <3> QED BY ONLY <3>1, <3>2, <3>3, <3>4, <3>5 DEF Sw!ConnectStep, SwP!ConnectStep
  <2> QED BY ONLY <2>1, <2>2, <2>3, <2>4, <2>5 DEF Sw!SNext, SwP!SNext
<1> QED BY <1>1, <1>2

LEMMA SameExecution ==
  /\ Ex!Init = ExP!Init
  /\ [Ex!Next]_(Ex!vars) <=> [ExP!Next]_(ExP!vars)
<1> USE DEF Ex!vars, ExP!vars, Ex!Slashes, ExP!Slashes, Ex!SlashDone, ExP!SlashDone, Ex!Tasks,
            ExP!Tasks, Ex!Expire, ExP!Expire, Ex!AppendResults, ExP!AppendResults, Ex!RetryAppend,
            ExP!RetryAppend, Ex!uiVars, ExP!uiVars, Ex!execVars, ExP!execVars, Ex!workVars,
            ExP!workVars, Ex!slotVars, ExP!slotVars, Ex!fileVars, ExP!fileVars, Ex!Type, ExP!Type,
            Ex!PressSubmit, ExP!PressSubmit, Ex!PressEsc, ExP!PressEsc, Ex!DispatchFromModal,
            ExP!DispatchFromModal, Ex!WireSession, ExP!WireSession, Ex!ReplaceSession,
            ExP!ReplaceSession, Ex!AppendSubmitted, ExP!AppendSubmitted, Ex!Invoke, ExP!Invoke,
            Ex!Return, ExP!Return, Ex!AppendCompleted, ExP!AppendCompleted, Ex!OutcomeOf,
            ExP!OutcomeOf, Ex!InFlight, ExP!InFlight, Ex!AppendEvent, ExP!AppendEvent,
            Ex!HandleSubmitIntent, ExP!HandleSubmitIntent, Ex!HandleCancelRunningIntent,
            ExP!HandleCancelRunningIntent, Ex!HandleStatementExecuted,
            ExP!HandleStatementExecuted, Ex!Texts, ExP!Texts, Ex!HandleSlashCommandExecuted,
            ExP!HandleSlashCommandExecuted, Ex!HandleAuditCompletionRetried,
            ExP!HandleAuditCompletionRetried, Ex!Send, ExP!Send, Ex!StartSlash, ExP!StartSlash,
            Ex!AfterSubmitted, ExP!AfterSubmitted, Ex!Receive, ExP!Receive, Ex!StillRunning,
            ExP!StillRunning, Ex!NothingStarted, ExP!NothingStarted, Ex!CompletionUnwritten,
            ExP!CompletionUnwritten, Ex!StartRetry, ExP!StartRetry, Ex!SubmitText, ExP!SubmitText,
            Ex!CancelContext, ExP!CancelContext, Ex!Superseded, ExP!Superseded,
            Ex!CompleteExecution, ExP!CompleteExecution, Ex!Remember, ExP!Remember, Ex!SlotAfter,
            ExP!SlotAfter, Ex!OtherTexts, ExP!OtherTexts, Ex!NoRetry, ExP!NoRetry,
            Ex!RetrySucceeded, ExP!RetrySucceeded, Ex!BeginExecution, ExP!BeginExecution,
            Ex!InertTexts, ExP!InertTexts, Ex!StartQuery, ExP!StartQuery
<1>1. Ex!Init = ExP!Init
  BY DEF Ex!Init, ExP!Init, Ex!NoJob, ExP!NoJob
<1>2. Ex!vars = ExP!vars /\ Ex!Tasks = ExP!Tasks /\ Ex!Slashes = ExP!Slashes
      /\ Ex!Texts = ExP!Texts /\ Ex!AppendResults = ExP!AppendResults
  OBVIOUS
<1>3. Ex!UserStep = ExP!UserStep
  BY DEF Ex!UserStep, ExP!UserStep
<1>4. Ex!SessionStep = ExP!SessionStep
  BY DEF Ex!SessionStep, ExP!SessionStep
<1>5. \A q : Ex!GoroutineStep(q) = ExP!GoroutineStep(q)
  BY DEF Ex!GoroutineStep, ExP!GoroutineStep
<1>6. \A t, failed : Ex!SlashDone(t, failed) = ExP!SlashDone(t, failed)
  OBVIOUS
<1>7. \A t : Ex!Expire(t) = ExP!Expire(t)
  OBVIOUS
<1>8. \A result : Ex!RetryAppend(result) = ExP!RetryAppend(result)
  OBVIOUS
<1>9. Ex!HandlerStep = ExP!HandlerStep
  <2>1. Ex!HandleSubmitIntent = ExP!HandleSubmitIntent
    OBVIOUS
  <2>2. Ex!HandleCancelRunningIntent = ExP!HandleCancelRunningIntent
    OBVIOUS
  <2>3. \A q : Ex!HandleStatementExecuted(q) = ExP!HandleStatementExecuted(q)
    OBVIOUS
  <2>4. \A t, text : Ex!HandleSlashCommandExecuted(t, text) = ExP!HandleSlashCommandExecuted(t, text)
    OBVIOUS
  <2>5. Ex!HandleAuditCompletionRetried = ExP!HandleAuditCompletionRetried
    OBVIOUS
  <2> QED BY ONLY <1>2, <2>1, <2>2, <2>3, <2>4, <2>5 DEF Ex!HandlerStep, ExP!HandlerStep
<1> QED BY ONLY <1>1, <1>2, <1>3, <1>4, <1>5, <1>6, <1>7, <1>8, <1>9 DEF Ex!Next, ExP!Next

(**************************** Execution implemented ***********************)

\* What the keyboard, the intents and a connect that brings no Session leave alone.
LEMMA SwitchOnlyStutters ==
  ASSUME UNCHANGED session, SwitchOnly PROVE UNCHANGED Ex!vars
BY DEF SwitchOnly, executionVars, Ex!vars, Ex!uiVars, Ex!execVars, Ex!workVars, Ex!slotVars,
       Ex!fileVars

LEMMA ModalsLeaveSession ==
  /\ Sw!StackOnly => UNCHANGED session
  /\ Sw!Quit \/ Sw!CloseToReady => UNCHANGED session
  /\ \A kind, active : Sw!ShowOver(kind, active) => UNCHANGED session
  /\ \A m : Sw!Post(m) => UNCHANGED session
BY DEF Sw!StackOnly, Sw!NoConnectChange, Sw!adapterVars, Sw!Quit, Sw!CloseToReady, Sw!ShowOver,
       Sw!Post

LEMMA SwitchingKeepsSession == SwitchingStep \/ SwitchIntent => UNCHANGED session
<1> USE ModalsLeaveSession
<1>1. CASE Sw!PickerInit
  BY <1>1 DEF Sw!PickerInit, Sw!adapterVars
<1>2. CASE Sw!KeyStep
  BY <1>2 DEF Sw!KeyStep, Sw!ConfirmSelection, Sw!LeavePicker, Sw!PickerHelp, Sw!PaneKey, Sw!QuitKey,
       Sw!ConnectingKey, Sw!LockedEsc, Sw!LockedOtherKey, Sw!LockedQuit, Sw!HelpBrowse,
       Sw!HelpDismiss, Sw!HelpForward, Sw!HelpRow, Sw!PaneRow, Sw!OpenOther, Sw!CloseOther,
       Sw!adapterVars
<1>3. CASE Sw!ToggleHelp \/ Sw!FocusPane \/ Sw!ConnectAbort \/ Sw!OpenPicker \/ Sw!RefusePicker
  BY <1>3 DEF Sw!ToggleHelp, Sw!FocusPane, Sw!ConnectAbort, Sw!OpenPicker, Sw!RefusePicker,
       Sw!adapterVars
<1>4. ASSUME NEW i \in Attempts, ConnectStep(i) PROVE UNCHANGED session
  BY <1>4 DEF ConnectStep, Sw!PickerConnect, Sw!MidRunConnect, Sw!OpenReturns,
       Sw!PickerConnectFailed, Sw!MidRunConnectFailed, Sw!ConnectFailed, Sw!adapterVars
<1> QED BY <1>1, <1>2, <1>3, <1>4 DEF SwitchingStep, SwitchIntent

LEMMA ExecutionStep == [AppNext]_appVars => [Ex!Next]_(Ex!vars)
<1> SUFFICES ASSUME [AppNext]_appVars PROVE [Ex!Next]_(Ex!vars)
  OBVIOUS
<1> USE DEF Ex!Next, Ex!UserStep, Ex!SessionStep, Ex!HandlerStep
<1>1. CASE SwitchingStep \/ SwitchIntent
  BY <1>1, SwitchingKeepsSession, SwitchOnlyStutters DEF SwitchingStep, SwitchIntent
<1>2. CASE BackgroundStep
  BY <1>2 DEF BackgroundStep
<1>3. ASSUME NEW text \in Typing, EditText(text) PROVE Ex!Next
  BY <1>3 DEF EditText
<1>4. CASE SubmitKey \/ EscKey \/ RunFromModal
  BY <1>4 DEF SubmitKey, EscKey, RunFromModal
<1>5. CASE Submit \/ AuditRetried
  BY <1>5 DEF Submit, AuditRetried
<1>6. ASSUME NEW q \in Queries, StatementExecuted(q) PROVE Ex!Next
  BY <1>6 DEF StatementExecuted
<1>7. ASSUME NEW t \in Ex!Slashes, NEW text \in Ex!Texts, SlashExecuted(t, text) PROVE Ex!Next
  BY <1>7 DEF SlashExecuted
<1>8. ASSUME NEW i \in Attempts, Connected(i) PROVE Ex!Next
  BY <1>8 DEF Connected
<1>9. CASE UNCHANGED appVars
  BY <1>9, SwitchOnlyStutters DEF appVars, SwitchOnly
<1> QED BY <1>1, <1>2, <1>3, <1>4, <1>5, <1>6, <1>7, <1>8, <1>9 DEF AppNext

\* The Model executes as Execution says, whatever modals and connects come between: a step
\* of the Picker, the keyboard or a connect is one of Execution or changes nothing it knows.
THEOREM AppImplementsExecution == AppSpec => Ex!Spec
<1>1. AppInit => Ex!Init
  BY DEF AppInit
<1> QED BY <1>1, ExecutionStep, PTL DEF AppSpec, Ex!Spec

(*************************** until the first Session **********************)

\* The startup connect has not begun or not ended.
Starting ==
  \/ boot # "done"
  \/ \E i \in Attempts : Sw!Unresolved(i) /\ attempt[i].auto

\* Then the one thing on screen is the Connecting modal, with no other connect in flight,
StartupView ==
  /\ session = NoAttempt /\ appState = "select"
  /\ modals \in {<<>>, <<[kind |-> "connecting", active |-> NoConn]>>}
  /\ modals = <<>> => lock = NoAttempt
  /\ mail \subseteq {Sw!Intent("connect_abort")}
  /\ boot # "done" => modals = <<>> /\ \A i \in Attempts : attempt[i].stage = "unused"
  /\ \A i, j \in Attempts : Sw!Unresolved(i) /\ Sw!Unresolved(j) => i = j

\* and nothing can have been submitted.
NothingSubmitted ==
  /\ running = NoTask /\ \A t \in Ex!Tasks : phase[t] = "idle"
  /\ inbox["submit"] = 0 /\ retry.phase = "idle"

StartupInv == Starting => StartupView /\ NothingSubmitted

AppInv == SwP!STypeOK /\ ExP!TypeInv /\ StartupInv

\* Out of reach while it is starting: the panes, the pickers, the help and the other modals.
LEMMA StartupKeys ==
  ASSUME StartupView
  PROVE  /\ ~Sw!KeysReachPanes /\ ~Sw!KeysLocked /\ ~Sw!PickerReachable
         /\ Sw!TopKind \in {"none", "connecting"}
         /\ \A kind \in {"picker", "startup_picker", "help", "other"} :
              ~Sw!Reachable(kind) /\ ~Sw!KeysReach(kind)
<1>1. Sw!TopKind \in {"none", "connecting"} /\ (Sw!TopKind = "none" => modals = <<>>)
  BY DEF StartupView, Sw!TopKind
<1> QED BY <1>1 DEF StartupView, Sw!KeysReachPanes, Sw!KeysLocked, Sw!PickerReachable,
                    Sw!Reachable, Sw!KeysReach

\* What a submission and a report show on screen.
LEMMA ShowsAreSteps ==
  ASSUME ~Starting
  PROVE  /\ \A text : SubmitShows(text) => Sw!SlashStep \/ ExecuteOnly
         /\ Sw!SlashConnect \/ Sw!SlashWizard \/ Sw!SlashError \/ Sw!ReportReady => Sw!SlashStep
<1>1. Sw!SlashesRun
  BY DEF Starting, Sw!SlashesRun
<1> QED BY <1>1 DEF SubmitShows, Sw!SlashStep

LEMMA ExecuteOnlyStutters ==
  ASSUME UNCHANGED session, ExecuteOnly PROVE UNCHANGED Sw!svars
BY DEF ExecuteOnly, switchVars, Sw!svars, Sw!connectVars, Sw!adapterVars

LEMMA ExecutingKeepsSession ==
  BackgroundStep \/ EscKey \/ Submit \/ AuditRetried \/ SubmitKey
    \/ (\E text \in Typing : EditText(text)) \/ (\E q \in Queries : StatementExecuted(q))
    \/ (\E t \in Ex!Slashes, text \in Ex!Texts : SlashExecuted(t, text))
  => UNCHANGED session
<1> USE DEF Ex!uiVars, Ex!execVars
<1>1. BackgroundStep => UNCHANGED session
  BY DEF BackgroundStep, Ex!GoroutineStep, Ex!AppendSubmitted, Ex!Invoke, Ex!Return,
         Ex!AppendCompleted, Ex!SlashDone, Ex!Expire, Ex!RetryAppend, Ex!HandleCancelRunningIntent
<1>2. EscKey \/ SubmitKey \/ (\E text \in Typing : EditText(text)) => UNCHANGED session
  BY DEF EscKey, Ex!PressEsc, Ex!PressSubmit, Ex!Send, SubmitKey, EditText, Ex!Type
<1>3. Submit \/ AuditRetried => UNCHANGED session
  BY DEF Submit, AuditRetried, Ex!HandleSubmitIntent, Ex!HandleAuditCompletionRetried
<1>4. ASSUME NEW q \in Queries, StatementExecuted(q) PROVE UNCHANGED session
  BY <1>4 DEF StatementExecuted, Ex!HandleStatementExecuted
<1>5. ASSUME NEW t, NEW text, SlashExecuted(t, text) PROVE UNCHANGED session
  BY <1>5 DEF SlashExecuted, Ex!HandleSlashCommandExecuted
<1> QED BY <1>1, <1>2, <1>3, <1>4, <1>5

\* A submission or a report that comes back is proof that the startup is over.
LEMMA SubmittedAfterStartup ==
  ASSUME AppInv,
         \/ Submit \/ AuditRetried \/ \E q \in Queries : StatementExecuted(q)
         \/ \E t \in Ex!Slashes, text \in Ex!Texts : SlashExecuted(t, text)
  PROVE  ~Starting
<1> SUFFICES ASSUME NothingSubmitted PROVE FALSE
  BY DEF AppInv, StartupInv
<1> USE DEF NothingSubmitted, Ex!Tasks
<1>1. CASE Submit \/ AuditRetried
  BY <1>1 DEF Submit, AuditRetried, Ex!HandleSubmitIntent, Ex!Receive, Ex!HandleAuditCompletionRetried
<1>2. CASE \E q \in Queries : StatementExecuted(q)
  BY <1>2 DEF StatementExecuted, Ex!HandleStatementExecuted
<1>3. CASE \E t \in Ex!Slashes, text \in Ex!Texts : SlashExecuted(t, text)
  BY <1>3 DEF SlashExecuted, Ex!HandleSlashCommandExecuted
<1> QED BY <1>1, <1>2, <1>3

LEMMA SwitchingStepImplemented == AppInv /\ [AppNext]_appVars => [Sw!SNext]_(Sw!svars)
<1> SUFFICES ASSUME AppInv, [AppNext]_appVars PROVE [Sw!SNext]_(Sw!svars)
  OBVIOUS
<1>1. CASE SwitchingStep \/ SwitchIntent
  BY <1>1 DEF SwitchingStep, SwitchIntent, Sw!SNext, Sw!IntentStep, ConnectStep, Sw!ConnectStep
<1>2. CASE BackgroundStep \/ EscKey
  BY <1>2, ExecutingKeepsSession, ExecuteOnlyStutters DEF BackgroundStep, EscKey
<1>3. ASSUME NEW text \in Typing, EditText(text) PROVE [Sw!SNext]_(Sw!svars)
  BY <1>3, ExecutingKeepsSession, ExecuteOnlyStutters DEF EditText, Sw!SNext, Sw!KeyStep
<1>4. CASE SubmitKey
  BY <1>4, ExecutingKeepsSession, ExecuteOnlyStutters DEF SubmitKey, Sw!SNext, Sw!KeyStep, Sw!HelpRow
<1>5. CASE RunFromModal
  BY <1>5 DEF RunFromModal, Sw!SNext, Sw!SlashStep
<1>6. CASE Submit \/ AuditRetried
  <2>1. Sw!SlashStep \/ ExecuteOnly
    BY <1>6, SubmittedAfterStartup, ShowsAreSteps DEF Submit, AuditRetried
  <2> QED BY <1>6, <2>1, ExecutingKeepsSession, ExecuteOnlyStutters DEF Sw!SNext
<1>7. ASSUME NEW q \in Queries, StatementExecuted(q) PROVE [Sw!SNext]_(Sw!svars)
  <2>1. Sw!SlashStep \/ ExecuteOnly
    BY <1>7, SubmittedAfterStartup, ShowsAreSteps DEF StatementExecuted
  <2> QED BY <1>7, <2>1, ExecutingKeepsSession, ExecuteOnlyStutters DEF Sw!SNext
<1>8. ASSUME NEW t \in Ex!Slashes, NEW text \in Ex!Texts, SlashExecuted(t, text)
      PROVE  Sw!SNext
  <2>1. Sw!SlashStep
    BY <1>8, SubmittedAfterStartup, ShowsAreSteps DEF SlashExecuted
  <2> QED BY <2>1 DEF Sw!SNext
<1>9. ASSUME NEW i \in Attempts, Connected(i) PROVE Sw!SNext
  BY <1>9 DEF Connected, Sw!SNext, Sw!ConnectStep
<1>10. CASE UNCHANGED appVars
  BY <1>10, ExecuteOnlyStutters DEF appVars, ExecuteOnly
<1> QED BY <1>1, <1>2, <1>3, <1>4, <1>5, <1>6, <1>7, <1>8, <1>9, <1>10 DEF AppNext

LEMMA ResolvesOrWaits ==
  ASSUME SwP!STypeOK, Sw!SNext
  PROVE  /\ boot' \in {boot, "done"}
         /\ \/ UNCHANGED attempt
            \/ \E i \in Attempts :
                 \/ Sw!PickerConnect(i)
                 \/ \E c \in Conns : Sw!MidRunConnect(i, c)
                 \/ \E ok \in BOOLEAN : Sw!OpenReturns(i, ok)
                 \/ Sw!PickerConnectSuccess(i) \/ Sw!MidRunConnectSuccess(i)
                 \/ Sw!PickerConnectFailed(i) \/ Sw!MidRunConnectFailed(i)
<1> USE DEF Sw!StackOnly, Sw!NoConnectChange, Sw!connectVars, Sw!CloseToReady, Sw!ShowOver, Sw!Post,
            Sw!Quit
<1>1. CASE Sw!PickerInit \/ Sw!IntentStep \/ Sw!SlashStep
  BY <1>1 DEF Sw!PickerInit, Sw!IntentStep, Sw!ToggleHelp, Sw!FocusPane, Sw!RefusePicker,
       Sw!OpenPicker, Sw!ConnectAbort, Sw!SlashStep, Sw!ModalSlash, Sw!SlashConnect,
       Sw!SlashWizard, Sw!SlashError, Sw!ReportReady
<1>2. CASE Sw!KeyStep
  BY <1>2 DEF Sw!KeyStep, Sw!ConfirmSelection, Sw!LeavePicker, Sw!PickerHelp, Sw!PaneKey, Sw!QuitKey,
       Sw!ConnectingKey, Sw!LockedEsc, Sw!LockedOtherKey, Sw!LockedQuit, Sw!HelpBrowse,
       Sw!HelpDismiss, Sw!HelpForward, Sw!HelpRow, Sw!PaneRow, Sw!OpenOther, Sw!CloseOther
<1>3. ASSUME NEW i \in Attempts, Sw!ConnectStep(i) PROVE boot' \in {boot, "done"}
  BY <1>3 DEF Sw!ConnectStep, Sw!PickerConnect, Sw!MidRunConnect, Sw!OpenReturns,
       Sw!PickerConnectSuccess, Sw!MidRunConnectSuccess, Sw!ConnectSucceeded,
       Sw!PickerConnectFailed, Sw!MidRunConnectFailed, Sw!ConnectFailed
<1> QED BY <1>1, <1>2, <1>3 DEF Sw!SNext, Sw!ConnectStep

\* There is one startup: once over, it is not entered again.
LEMMA StartsOnce == ASSUME AppInv, Sw!SNext, Starting' PROVE Starting
<1> SUFFICES ASSUME boot = "done" PROVE Starting
  BY DEF Starting
<1> USE DEF AppInv, SwP!STypeOK, Starting, Sw!Unresolved
<1>1. boot' = "done"
  BY ResolvesOrWaits
<1>2. CASE UNCHANGED attempt
  BY <1>1, <1>2
<1>3. ASSUME NEW i \in Attempts, \E c \in Conns : Sw!MidRunConnect(i, c) PROVE Starting
  BY <1>1, <1>3 DEF Sw!MidRunConnect, Sw!StartOpen
<1>4. ASSUME NEW i \in Attempts, \E ok \in BOOLEAN : Sw!OpenReturns(i, ok) PROVE Starting
  BY <1>1, <1>4 DEF Sw!OpenReturns
<1>5. ASSUME NEW i \in Attempts,
             \/ Sw!PickerConnectSuccess(i) \/ Sw!MidRunConnectSuccess(i)
             \/ Sw!PickerConnectFailed(i) \/ Sw!MidRunConnectFailed(i)
      PROVE  Starting
  BY <1>1, <1>5
     DEF Sw!PickerConnectSuccess, Sw!MidRunConnectSuccess, Sw!PickerConnectFailed,
         Sw!MidRunConnectFailed, Sw!ConnectSucceeded, Sw!ConnectFailed, Sw!Resolved, Sw!Unused
<1>6. ASSUME NEW i \in Attempts, Sw!PickerConnect(i) PROVE FALSE
  BY <1>6 DEF Sw!PickerConnect
<1> QED BY <1>2, <1>3, <1>4, <1>5, <1>6, ResolvesOrWaits

\* The steps that remain while it is starting.
LEMMA StartupSteps ==
  ASSUME AppInv, Starting, AppNext
  PROVE  \/ SwitchOnly /\ \/ Sw!PickerInit
                          \/ Sw!QuitKey
                          \/ Sw!ConnectingKey
                          \/ Sw!ConnectAbort
                          \/ \E i \in Attempts : ConnectStep(i)
         \/ BackgroundStep
         \/ \E i \in Attempts : Connected(i)
<1>1. StartupView
  BY DEF AppInv, StartupInv
<1>2. \A t : t \in {"open_picker", "toggle_help", "focus_pane"} => ~Sw!Taken(Sw!Intent(t))
  BY <1>1 DEF StartupView, Sw!Taken, Sw!Intent
<1>3. CASE SwitchingStep
  <2>1. Sw!KeyStep => Sw!QuitKey \/ Sw!ConnectingKey
    BY <1>1, StartupKeys
       DEF Sw!KeyStep, Sw!ConfirmSelection, Sw!LeavePicker, Sw!PickerHelp, Sw!PaneKey, Sw!LockedEsc,
           Sw!LockedOtherKey, Sw!LockedQuit, Sw!HelpBrowse, Sw!HelpDismiss, Sw!HelpForward,
           Sw!HelpRow, Sw!PaneRow, Sw!OpenOther, Sw!CloseOther
  <2>2. ~Sw!ToggleHelp /\ ~Sw!FocusPane
    BY <1>2 DEF Sw!ToggleHelp, Sw!FocusPane
  <2> QED BY <1>3, <2>1, <2>2 DEF SwitchingStep
<1>4. ~SwitchIntent
  BY <1>2 DEF SwitchIntent, Sw!OpenPicker, Sw!RefusePicker
<1>5. ~SubmitKey /\ ~EscKey /\ ~RunFromModal /\ \A text : ~EditText(text)
  BY <1>1, StartupKeys
     DEF SubmitKey, EscKey, RunFromModal, EditText, Sw!PaneRow, Sw!CloseOther, Sw!ModalSlash
<1> QED BY <1>3, <1>4, <1>5, SubmittedAfterStartup DEF AppNext

LEMMA NothingSubmittedStep ==
  ASSUME AppInv, Starting, AppNext PROVE NothingSubmitted'
<1> USE DEF NothingSubmitted
<1>1. NothingSubmitted
  BY DEF AppInv, StartupInv
<1>2. CASE SwitchOnly
  BY <1>1, <1>2 DEF SwitchOnly, executionVars, Ex!Tasks, Ex!Slashes
<1>3. CASE BackgroundStep
  <2>1. Ex!HandleCancelRunningIntent
    BY <1>1, <1>3 DEF BackgroundStep, Ex!GoroutineStep, Ex!AppendSubmitted, Ex!Invoke, Ex!Return,
       Ex!AppendCompleted, Ex!SlashDone, Ex!Expire, Ex!RetryAppend, Ex!InFlight, Ex!Tasks
  <2> QED
    BY <1>1, <2>1 DEF AppInv, ExP!TypeInv, ExP!TypeOK, Ex!HandleCancelRunningIntent, Ex!Receive,
       Ex!workVars, Ex!slotVars, Ex!Tasks, Ex!Slashes
<1>4. ASSUME NEW i \in Attempts, Connected(i) PROVE NothingSubmitted'
  BY <1>1, <1>4 DEF Connected, Ex!WireSession, Ex!ReplaceSession, Ex!execVars, Ex!workVars,
     Ex!slotVars, Ex!Tasks, Ex!Slashes
<1> QED BY <1>2, <1>3, <1>4, StartupSteps

LEMMA StartupViewStep ==
  ASSUME AppInv, Starting, AppNext, Starting' PROVE StartupView'
<1> USE DEF StartupView, AppInv, SwP!STypeOK, Sw!connectVars, Sw!adapterVars
<1>1. StartupView
  BY DEF StartupInv
<1>2. CASE Sw!PickerInit
  <2>1. \A i \in Attempts : ~Sw!Unresolved(i)'
    BY <1>1, <1>2 DEF Sw!PickerInit, Sw!Unresolved
  <2> QED BY <1>2, <2>1 DEF Sw!PickerInit, Starting
<1>3. CASE Sw!QuitKey \/ Sw!ConnectingKey
  BY <1>1, <1>3 DEF Sw!QuitKey, Sw!Quit, Sw!ConnectingKey, Sw!Post, Sw!Posted, Sw!NoConnectChange,
     Sw!StackOnly, Sw!NoMail, Sw!KeysReach, Sw!KeysReachPanes, Sw!Unresolved, Sw!TopKind
<1>4. CASE Sw!ConnectAbort
  BY <1>1, <1>4 DEF Sw!ConnectAbort, Sw!ReleaseLock, Sw!Taken, Sw!Pop, Sw!TopKind, Sw!Unresolved
<1>5. ASSUME NEW i \in Attempts, ConnectStep(i) PROVE StartupView'
  <2>1. CASE Sw!PickerConnect(i)
    BY <1>1, <2>1 DEF Sw!PickerConnect, Sw!StartOpen, Sw!Push, Sw!Unresolved
  <2>2. ASSUME NEW ok \in BOOLEAN, Sw!OpenReturns(i, ok) PROVE StartupView'
    BY <1>1, <2>2 DEF Sw!OpenReturns, Sw!Unresolved
  <2>3. ~\E c \in Conns : Sw!MidRunConnect(i, c)
    BY <1>1 DEF Sw!MidRunConnect, Sw!Taken, Sw!Request, Sw!Intent
  <2>4. CASE Sw!PickerConnectFailed(i) \/ Sw!MidRunConnectFailed(i)
    <3>1. attempt[i].stage = "failed" /\ boot' = "done"
      BY <1>1, <2>4 DEF Sw!PickerConnectFailed, Sw!MidRunConnectFailed, Sw!ConnectFailed
    <3>2. \A j \in Attempts : ~Sw!Unresolved(j)'
      BY <1>1, <2>4, <3>1 DEF Sw!PickerConnectFailed, Sw!MidRunConnectFailed, Sw!ConnectFailed,
         Sw!Resolved, Sw!Unused, Sw!Unresolved
    <3> QED BY <3>1, <3>2 DEF Starting
  <2> QED BY <1>5, <2>1, <2>2, <2>3, <2>4 DEF ConnectStep
<1>6. CASE BackgroundStep
  <2>1. UNCHANGED Sw!svars
    BY <1>6, ExecutingKeepsSession, ExecuteOnlyStutters DEF BackgroundStep
  <2> QED BY <1>1, <2>1 DEF Sw!svars, Sw!Unresolved
<1>7. ASSUME NEW i \in Attempts, Connected(i) PROVE FALSE
  <2>1. attempt[i].stage = "opened" /\ boot' = "done"
    BY <1>1, <1>7 DEF Connected, Sw!PickerConnectSuccess, Sw!MidRunConnectSuccess, Sw!ConnectSucceeded
  <2>2. \A j \in Attempts : ~Sw!Unresolved(j)'
    BY <1>1, <1>7, <2>1 DEF Connected, Sw!PickerConnectSuccess, Sw!MidRunConnectSuccess,
       Sw!ConnectSucceeded, Sw!Resolved, Sw!Unused, Sw!Unresolved
  <2> QED BY <2>1, <2>2 DEF Starting
<1> QED BY <1>2, <1>3, <1>4, <1>5, <1>6, <1>7, StartupSteps

LEMMA InitAppInv == AppInit => AppInv
<1> SUFFICES ASSUME AppInit PROVE AppInv
  OBVIOUS
<1>1. SwP!STypeOK
  BY SameSwitching, SwitchingConstants, SwP!InitTypes DEF AppInit
<1>2. ExP!TypeInv
  BY SameExecution, ExecutionConstants, ExP!InitTypeInv DEF AppInit
<1>3. StartupInv
  BY DEF AppInit, Sw!SInit, Ex!Init, Ex!NoRetry, StartupInv, StartupView, NothingSubmitted,
         Sw!Unused, Sw!Unresolved
<1> QED BY <1>1, <1>2, <1>3 DEF AppInv

LEMMA NextAppInv == AppInv /\ [AppNext]_appVars => AppInv'
<1> SUFFICES ASSUME AppInv, [AppNext]_appVars PROVE AppInv'
  OBVIOUS
<1>1. SwP!STypeOK'
  BY SameSwitching, SwitchingConstants, SwitchingStepImplemented, SwP!NextTypes DEF AppInv
<1>2. ExP!TypeInv'
  BY SameExecution, ExecutionConstants, ExecutionStep, ExP!NextTypeInv DEF AppInv
<1>3. StartupInv'
  <2>1. CASE AppNext
    <3>1. Starting' => Starting
      BY <2>1, SwitchingStepImplemented, StartsOnce
         DEF Sw!svars, Starting, Sw!Unresolved, Sw!connectVars
    <3> QED BY <2>1, <3>1, StartupViewStep, NothingSubmittedStep DEF StartupInv
  <2>2. CASE UNCHANGED appVars
    BY <2>2 DEF AppInv, appVars, switchVars, executionVars, StartupInv, Starting, StartupView,
       NothingSubmitted, Sw!Unresolved, Ex!Tasks, Ex!Slashes
  <2> QED BY <2>1, <2>2
<1> QED BY <1>1, <1>2, <1>3 DEF AppInv

LEMMA AppInvariant == AppSpec => []AppInv
BY InitAppInv, NextAppInv, PTL DEF AppSpec

\* The Model switches as Switching says: what executions and their reports do to the modal
\* stack and the state is a step of Switching, because nothing is submitted before the
\* startup connect is over.
THEOREM AppImplementsSwitching == AppSpec => Sw!SSpec
<1>1. AppInit => Sw!SInit
  BY DEF AppInit
<1> QED BY <1>1, SwitchingStepImplemented, AppInvariant, PTL DEF AppSpec, Sw!SSpec

(*********************** switching while something runs *******************)

PickerOpen == \E k \in 1 .. Len(modals) : Sw!IsPicker(modals[k].kind)

LEMMA StackPickers ==
  ASSUME SwP!STypeOK, ~PickerOpen
  PROVE  /\ UNCHANGED modals \/ modals' = Sw!Pop(modals) => ~PickerOpen'
         /\ \A kind, active :
              ~Sw!IsPicker(kind) /\ modals' = Sw!Push(modals, kind, active) => ~PickerOpen'
<1>1. modals \in Seq(SwP!Modals)
  BY DEF SwP!STypeOK
<1>2. ASSUME modals' = Sw!Pop(modals) PROVE ~PickerOpen'
  BY <1>1, <1>2 DEF Sw!Pop, PickerOpen
<1>3. ASSUME NEW kind, NEW active, ~Sw!IsPicker(kind), modals' = Sw!Push(modals, kind, active)
      PROVE  ~PickerOpen'
  <2>1. /\ Len(modals') = Len(modals) + 1
        /\ \A k \in 1 .. Len(modals) : modals'[k] = modals[k]
        /\ modals'[Len(modals) + 1].kind = kind
    BY <1>1, <1>3 DEF Sw!Push
  <2> QED BY <1>1, <1>3, <2>1 DEF PickerOpen
<1> QED BY <1>2, <1>3 DEF PickerOpen

\* With no Picker open and no connect on its way, the keyboard and the handlers leave it so;
\* what begins a switch is not among them.
LEMMA StaysCalm ==
  ASSUME AppInv, ~SwitchUnderway,
         \/ Sw!KeyStep \/ Sw!ToggleHelp \/ Sw!FocusPane \/ Sw!ConnectAbort \/ Sw!RefusePicker
         \/ Sw!ModalSlash \/ Sw!SlashWizard \/ Sw!SlashError \/ Sw!ReportReady
         \/ UNCHANGED Sw!svars
  PROVE  ~SwitchUnderway'
<1> USE DEF SwitchUnderway, AppInv, Sw!Unresolved, Sw!connectVars
<1>1. SwP!STypeOK /\ ~PickerOpen
  BY DEF PickerOpen
<1>2. ~Sw!PickerReachable /\ ~Sw!KeysReach("picker") /\ ~Sw!KeysReach("startup_picker")
  <2>1. ~Sw!IsPicker(Sw!TopKind)
    BY <1>1 DEF Sw!TopKind, Sw!IsPicker, PickerOpen, SwP!STypeOK
  <2> QED BY <2>1 DEF Sw!IsPicker, Sw!PickerReachable, Sw!Reachable, Sw!KeysReach
<1>3. SUFFICES /\ UNCHANGED attempt
               /\ \A c \in Conns : Sw!Request(c) \in mail' => Sw!Request(c) \in mail
               /\ \/ UNCHANGED modals \/ modals' = Sw!Pop(modals)
                  \/ \E kind, active :
                       ~Sw!IsPicker(kind) /\ modals' = Sw!Push(modals, kind, active)
  BY <1>1, StackPickers DEF PickerOpen
<1> USE DEF Sw!StackOnly, Sw!NoConnectChange, Sw!NoMail, Sw!CloseToReady, Sw!ShowOver, Sw!Post,
            Sw!Posted, Sw!Taken, Sw!Intent, Sw!Request, Sw!Quit, Sw!IsPicker
<1>4. CASE Sw!KeyStep
  BY <1>2, <1>4
     DEF Sw!KeyStep, Sw!ConfirmSelection, Sw!LeavePicker, Sw!PickerHelp, Sw!PaneKey, Sw!QuitKey,
         Sw!ConnectingKey, Sw!LockedEsc, Sw!LockedOtherKey, Sw!LockedQuit, Sw!HelpBrowse,
         Sw!HelpDismiss, Sw!HelpForward, Sw!HelpRow, Sw!PaneRow, Sw!OpenOther, Sw!CloseOther
<1>5. CASE Sw!ToggleHelp \/ Sw!FocusPane \/ Sw!ConnectAbort \/ Sw!RefusePicker
  BY <1>5 DEF Sw!ToggleHelp, Sw!FocusPane, Sw!ConnectAbort, Sw!RefusePicker
<1>6. CASE Sw!ModalSlash \/ Sw!SlashWizard \/ Sw!SlashError \/ Sw!ReportReady
  BY <1>6 DEF Sw!ModalSlash, Sw!SlashWizard, Sw!SlashError, Sw!ReportReady
<1>7. CASE UNCHANGED Sw!svars
  BY <1>7 DEF Sw!svars
<1> QED BY <1>4, <1>5, <1>6, <1>7

\* A Picker or a connect on its way, and nothing Running: unless something is started
\* meanwhile, the check made when the Picker was asked for still holds.
CrossInv == ~crossed => (SwitchUnderway => running = NoTask)

\* Running only becomes another task when that task is started.
LEMMA RunningIsStarted ==
  ASSUME AppInv, [AppNext]_appVars, running = NoTask, ~Started PROVE running' = NoTask
<1>1. ExP!Waits \/ ExP!Begins \/ ExP!Completes \/ ExP!Cancels
  BY SameExecution, ExecutionConstants, ExecutionStep, ExP!CoordinatorStep DEF AppInv
<1>2. ~ExP!Begins
  BY DEF ExP!Begins, ExP!BeginExecution, Started, AppInv, ExP!TypeInv, ExP!TypeOK, Ex!Tasks,
         Ex!Slashes, ExP!Tasks, ExP!Slashes
<1> QED BY <1>1, <1>2 DEF ExP!Waits, ExP!Completes, ExP!Cancels, ExP!CompleteExecution

\* What begins a switch looks at Running first, or comes before anything could be Running.
LEMMA SwitchBeginsIdle ==
  ASSUME AppInv, AppNext, ~SwitchUnderway, SwitchUnderway' PROVE running' = NoTask
<1>1. ASSUME SwitchOnly, boot # "done" PROVE running' = NoTask
  BY <1>1 DEF AppInv, StartupInv, Starting, NothingSubmitted, SwitchOnly, executionVars
<1>2. CASE SwitchingStep
  <2>1. \A i \in Attempts : ConnectStep(i) => Sw!PickerConnect(i)
    BY DEF SwitchUnderway, ConnectStep, Sw!MidRunConnect, Sw!Taken, Sw!OpenReturns,
           Sw!PickerConnectFailed, Sw!MidRunConnectFailed, Sw!ConnectFailed, Sw!Unresolved
  <2> QED BY <1>1, <1>2, <2>1, StaysCalm DEF SwitchingStep, Sw!PickerInit, Sw!PickerConnect
<1>3. CASE SwitchIntent
  BY <1>3, StaysCalm DEF SwitchIntent, MaySwitch, SwitchOnly, executionVars
<1>4. ASSUME NEW text, SubmitShows(text), text = "connect" => running' = NoTask
      PROVE  running' = NoTask
  <2>1. CASE text # "connect"
    <3>1. Sw!ReportReady \/ ExecuteOnly
      BY <1>4, <2>1 DEF SubmitShows
    <3> QED BY <3>1, StaysCalm
            DEF ExecuteOnly, switchVars, SwitchUnderway, Sw!Unresolved
  <2> QED BY <1>4, <2>1
<1>5. ~ExecuteOnly
  BY DEF ExecuteOnly, switchVars, SwitchUnderway, Sw!Unresolved
<1>6. ASSUME NEW origin, Ex!SubmitText("connect", origin), running = NoTask PROVE running' = NoTask
  BY <1>6, SqlceryAssumptions DEF Ex!SubmitText, Ex!InertTexts, Ex!NothingStarted, Ex!execVars
<1>7. CASE Submit
  <2>1. ~Ex!StillRunning /\ ~Ex!CompletionUnwritten /\ SubmitShows(editor)
    BY <1>5, <1>7 DEF Submit
  <2> QED BY <1>4, <1>6, <1>7, <2>1 DEF Submit, Ex!HandleSubmitIntent, Ex!StillRunning
<1>8. CASE AuditRetried
  <2>1. Ex!RetrySucceeded /\ ~Ex!StillRunning /\ SubmitShows(retry.stmt)
    BY <1>5, <1>8 DEF AuditRetried
  <2> QED BY <1>4, <1>6, <1>8, <2>1 DEF AuditRetried, Ex!HandleAuditCompletionRetried, Ex!StillRunning
<1>9. ~BackgroundStep /\ ~EscKey /\ ~RunFromModal
  BY <1>5, StaysCalm DEF BackgroundStep, EscKey, RunFromModal
<1>10. ~SubmitKey /\ \A text : ~EditText(text)
  BY <1>5, StaysCalm DEF SubmitKey, EditText, Sw!KeyStep, Sw!HelpRow
<1>11. /\ \A q : ~StatementExecuted(q)
       /\ \A t, text : ~SlashExecuted(t, text)
  BY <1>5, StaysCalm DEF StatementExecuted, SlashExecuted
<1>12. \A i \in Attempts : ~Connected(i)
  BY DEF Connected, Sw!PickerConnectSuccess, Sw!MidRunConnectSuccess, Sw!ConnectSucceeded,
         SwitchUnderway, Sw!Unresolved
<1> QED BY <1>2, <1>3, <1>7, <1>8, <1>9, <1>10, <1>11, <1>12 DEF AppNext

LEMMA CrossStep == ASSUME AppInv, CrossInv, [AppNext]_appVars PROVE CrossInv'
<1> USE DEF CrossInv
<1>1. CASE UNCHANGED appVars
  BY <1>1 DEF appVars, switchVars, executionVars, SwitchUnderway, Sw!Unresolved
<1>2. CASE AppNext
  <2> SUFFICES ASSUME ~crossed', SwitchUnderway' PROVE running' = NoTask
    OBVIOUS
  <2>1. ~crossed /\ ~(SwitchUnderway /\ Started)
    BY <1>2 DEF AppNext
  <2>2. CASE SwitchUnderway
    BY <1>2, <2>1, <2>2, RunningIsStarted
  <2> QED BY <1>2, <2>2, SwitchBeginsIdle
<1> QED BY <1>1, <1>2

LEMMA CrossInvariant == AppSpec => [](AppInv /\ CrossInv)
<1>1. AppInit => CrossInv
  BY DEF AppInit, Ex!Init, CrossInv
<1> QED BY <1>1, CrossStep, InitAppInv, NextAppInv, PTL DEF AppSpec

\* The Session changes when a connect that was on its way comes back.
LEMMA SessionStep ==
  ASSUME [AppNext]_appVars, session' # session
  PROVE  \E i \in Attempts : Connected(i)
<1>1. ~RunFromModal
  BY DEF RunFromModal, Ex!DispatchFromModal
<1> QED BY <1>1, SwitchingKeepsSession, ExecutingKeepsSession DEF AppNext, appVars

LEMMA ConnectedWasUnderway ==
  ASSUME NEW i \in Attempts, Connected(i) PROVE SwitchUnderway
BY DEF Connected, Sw!PickerConnectSuccess, Sw!MidRunConnectSuccess, Sw!ConnectSucceeded,
       SwitchUnderway, Sw!Unresolved

\* The Session is only replaced while nothing is Running, as long as nothing is started
\* while a switch is under way: openConnectionPickerIntentMsg and handleSubmitIntent look at
\* Running once, and the connect that follows can take long.
THEOREM SwitchesAreUncrossed == AppSpec => UncrossedSwitches
<1> DEFINE Waited == session' # session /\ ~crossed' => running = NoTask
<1>1. AppInv /\ CrossInv /\ [AppNext]_appVars => [Waited]_appVars
  <2> SUFFICES ASSUME CrossInv, [AppNext]_appVars, session' # session, ~crossed'
               PROVE  running = NoTask
    OBVIOUS
  <2>1. ~crossed
    BY DEF AppNext, appVars
  <2> QED BY <2>1, SessionStep, ConnectedWasUnderway DEF CrossInv
<1>2. UncrossedSwitches <=> [][Waited]_appVars
  BY DEF UncrossedSwitches
<1> QED BY <1>1, <1>2, CrossInvariant, PTL DEF AppSpec

(****************** what ran stays with its Session ***********************)

\* What is in flight runs on the live Session,
OnLiveSession ==
  \A q \in Queries : Ex!InFlight(q) => job[q].on = session /\ session # NoAttempt

\* what is remembered of a Session was run on it and is over,
HistoryOwned ==
  \A i \in Attempts : \A q \in history[i] :
    q \in Queries /\ phase[q] = "handled" /\ job[q].on = i

\* and so did what is on screen.
ShownOwned ==
  shown # NoTask => phase[shown] = "handled" /\ job[shown].on = session /\ session # NoAttempt

UncrossedInv == ~crossed => OnLiveSession /\ HistoryOwned /\ ShownOwned

\* One Statement at a time: a component invariant that the composition inherits.
AppSequential == AppInv /\ CrossInv /\ ExP!RunningWhileInFlight

\* An orderly behaviour of the Model is one of Execution, and a behaviour of the Model.
LEMMA SameOverrides == Ex!Overrides = ExP!Overrides
BY DEF Ex!Overrides, ExP!Overrides, Ex!DispatchFromModal, ExP!DispatchFromModal, Ex!StartSlash,
       ExP!StartSlash, Ex!BeginExecution, ExP!BeginExecution, Ex!CancelContext, ExP!CancelContext,
       Ex!Tasks, ExP!Tasks, Ex!Slashes, ExP!Slashes, Ex!slotVars, ExP!slotVars, Ex!fileVars,
       ExP!fileVars

LEMMA OrderlyIsApp == OrderlySpec => AppSpec
<1>1. [AppNext /\ ~Ex!Overrides]_appVars => [AppNext]_appVars
  OBVIOUS
<1> QED BY <1>1, PTL DEF OrderlySpec, AppSpec

LEMMA AppSequentialInvariant == OrderlySpec => []AppSequential
<1>1. ExP!OrderlySpec => []ExP!SequentialInv
  BY ExecutionConstants, ExP!SequentialInvariant
<1>2. ExP!SequentialInv => ExP!RunningWhileInFlight
  BY DEF ExP!SequentialInv, ExP!OneTaskInv
<1>3. AppInit => ExP!Init
  BY SameExecution DEF AppInit
<1>4. [AppNext /\ ~Ex!Overrides]_appVars => [ExP!Next /\ ~ExP!Overrides]_(ExP!vars)
  <2> SUFFICES ASSUME [AppNext /\ ~Ex!Overrides]_appVars
               PROVE  [ExP!Next /\ ~ExP!Overrides]_(ExP!vars)
    OBVIOUS
  <2>1. [ExP!Next]_(ExP!vars)
    BY ExecutionStep, SameExecution
  <2>2. CASE UNCHANGED appVars
    BY <2>2 DEF appVars, executionVars, ExP!vars, ExP!uiVars, ExP!execVars, ExP!workVars,
                ExP!slotVars, ExP!fileVars
  <2> QED BY <2>1, <2>2, SameOverrides
<1>5. AppInv /\ CrossInv /\ ExP!RunningWhileInFlight => AppSequential
  BY DEF AppSequential
<1> QED BY <1>1, <1>2, <1>3, <1>4, <1>5, CrossInvariant, OrderlyIsApp, PTL
        DEF OrderlySpec, ExP!OrderlySpec

Owned == OnLiveSession /\ HistoryOwned /\ ShownOwned

\* Beginning a Query captures the live Session.
LEMMA OwnedSubmission ==
  ASSUME ExP!TypeInv, Owned, UNCHANGED session, NEW text, NEW origin, Ex!SubmitText(text, origin)
  PROVE  Owned'
<1> USE SqlceryAssumptions
    DEF Owned, OnLiveSession, HistoryOwned, ShownOwned, Ex!InFlight, ExP!TypeInv, ExP!TypeOK,
        ExP!Tasks, ExP!Slashes, ExP!Jobs
<1>1. CASE Ex!NothingStarted /\ shown' \in {shown, NoTask}
  BY <1>1 DEF Ex!NothingStarted, Ex!workVars, Ex!fileVars
<1>2. ASSUME NEW t \in TypedSlashes, Ex!StartSlash(t) PROVE Owned'
  BY <1>2 DEF Ex!StartSlash, Ex!BeginExecution, Ex!fileVars
<1>3. ASSUME NEW q \in Queries, session # NoAttempt, Ex!StartQuery(q, text, origin) PROVE Owned'
  <2>1. /\ phase[q] = "idle" /\ phase' = [phase EXCEPT ![q] = "begun"]
        /\ job'[q].on = session
        /\ \A p \in Queries \ {q} : job'[p] = job[p]
        /\ UNCHANGED <<shown, history>>
    BY <1>3 DEF Ex!StartQuery, Ex!BeginExecution, Ex!fileVars
  <2> QED BY <1>3, <2>1
<1> QED BY <1>1, <1>2, <1>3 DEF Ex!SubmitText

LEMMA OwnedReport ==
  ASSUME ExP!TypeInv, Owned, UNCHANGED session, NEW q \in Queries, Ex!HandleStatementExecuted(q)
  PROVE  Owned'
<1> USE SqlceryAssumptions
    DEF Owned, OnLiveSession, HistoryOwned, ShownOwned, Ex!InFlight, ExP!TypeInv, ExP!TypeOK,
        ExP!Tasks, ExP!Slashes
<1>1. /\ job[q].on = session /\ session # NoAttempt /\ session \in Attempts
      /\ UNCHANGED job
      /\ \E end \in {"handled", "dropped"} : phase' = [phase EXCEPT ![q] = end]
      /\ phase[q] # "handled"
  BY DEF Ex!HandleStatementExecuted
<1>2. CASE UNCHANGED <<history, shown>>
  BY <1>1, <1>2
<1>3. CASE /\ phase' = [phase EXCEPT ![q] = "handled"]
           /\ history' = [history EXCEPT ![session] = @ \cup {q}]
           /\ shown' \in {q, NoTask}
  <2>1. phase'[q] = "handled" /\ \A p \in Queries : phase[p] = "handled" => phase'[p] = "handled"
    BY <1>3
  <2>2. \A i \in Attempts : \A p \in history'[i] : p \in history[i] \/ (p = q /\ i = session)
    BY <1>3
  <2> QED BY <1>1, <1>3, <2>1, <2>2
<1> QED BY <1>1, <1>2, <1>3 DEF Ex!HandleStatementExecuted, Ex!Remember

LEMMA OwnedStep ==
  ASSUME ExP!TypeInv, Owned, UNCHANGED session, [Ex!Next]_(Ex!vars)
  PROVE  Owned'
<1> USE SqlceryAssumptions
    DEF Owned, OnLiveSession, HistoryOwned, ShownOwned, Ex!InFlight, ExP!TypeInv, ExP!TypeOK,
        ExP!Tasks, ExP!Slashes
<1>1. CASE UNCHANGED <<phase, job, history>> /\ shown' \in {shown, NoTask}
  BY <1>1
<1>2. CASE Ex!HandleSubmitIntent \/ Ex!HandleAuditCompletionRetried
  BY <1>1, <1>2, OwnedSubmission
     DEF Ex!HandleSubmitIntent, Ex!HandleAuditCompletionRetried, Ex!StartRetry, Ex!NothingStarted,
         Ex!workVars, Ex!fileVars
<1>3. ASSUME NEW t \in ModalSlashes, Ex!DispatchFromModal(t) PROVE Owned'
  BY <1>3 DEF Ex!DispatchFromModal, Ex!StartSlash, Ex!BeginExecution, Ex!fileVars
<1>4. CASE Ex!UserStep \/ Ex!SessionStep \/ Ex!HandleCancelRunningIntent \/ UNCHANGED Ex!vars
  BY <1>1, <1>4, <1>3 DEF Ex!UserStep, Ex!Type, Ex!PressSubmit, Ex!PressEsc, Ex!Send, Ex!SessionStep,
     Ex!WireSession, Ex!ReplaceSession, Ex!HandleCancelRunningIntent, Ex!vars, Ex!uiVars, Ex!workVars,
     Ex!fileVars
<1>5. ASSUME NEW q \in Queries, Ex!GoroutineStep(q) PROVE Owned'
  <2>1. /\ Ex!InFlight(q) /\ UNCHANGED <<job, history, shown>>
        /\ \E next \in ExP!Phases \ {"handled"} : phase' = [phase EXCEPT ![q] = next]
    BY <1>5 DEF Ex!GoroutineStep, Ex!AppendSubmitted, Ex!AfterSubmitted, Ex!Invoke, Ex!Return,
       Ex!AppendCompleted, Ex!uiVars, Ex!fileVars, ExP!Phases
  <2> QED BY <2>1
<1>6. ASSUME NEW t \in Ex!Slashes, NEW failed \in BOOLEAN, Ex!SlashDone(t, failed) PROVE Owned'
  BY <1>6 DEF Ex!SlashDone, Ex!uiVars, Ex!fileVars, Ex!Slashes
<1>7. ASSUME NEW t \in Ex!Tasks, Ex!Expire(t) PROVE Owned'
  BY <1>1, <1>7 DEF Ex!Expire, Ex!uiVars, Ex!workVars, Ex!fileVars
<1>8. ASSUME NEW result \in Ex!AppendResults, Ex!RetryAppend(result) PROVE Owned'
  BY <1>1, <1>8 DEF Ex!RetryAppend, Ex!uiVars, Ex!workVars
<1>9. ASSUME NEW t \in Ex!Slashes, NEW text, Ex!HandleSlashCommandExecuted(t, text) PROVE Owned'
  BY <1>9 DEF Ex!HandleSlashCommandExecuted, Ex!fileVars, Ex!Slashes
<1> QED BY <1>2, <1>4, <1>5, <1>6, <1>7, <1>8, <1>9, OwnedReport DEF Ex!Next, Ex!HandlerStep

\* A connect that succeeds finds nothing in flight, and takes what is on screen with it.
LEMMA OwnedSwitch ==
  ASSUME AppSequential, Owned, ~crossed, NEW i \in Attempts, Connected(i) PROVE Owned'
<1> USE DEF AppSequential, AppInv
<1>1. running = NoTask
  BY ConnectedWasUnderway DEF CrossInv
<1>2. \A q \in Queries : ~Ex!InFlight(q)
  BY <1>1, SqlceryAssumptions DEF ExP!RunningWhileInFlight, ExP!InFlight, Ex!InFlight, ExP!Tasks
<1>3. UNCHANGED <<phase, job, history>>
  BY DEF Connected, Ex!WireSession, Ex!ReplaceSession, Ex!workVars, Ex!fileVars
<1>4. shown' = NoTask
  <2>1. CASE Sw!PickerConnectSuccess(i) /\ Ex!WireSession(i)
    <3>1. Starting
      BY <2>1 DEF Sw!PickerConnectSuccess, Sw!ConnectSucceeded, Starting, Sw!Unresolved
    <3>2. session = NoAttempt
      BY <3>1 DEF StartupInv, StartupView
    <3> QED BY <2>1, <3>2 DEF Ex!WireSession, Owned, ShownOwned
  <2> QED BY <2>1 DEF Connected, Ex!ReplaceSession
<1> QED BY <1>2, <1>3, <1>4 DEF Owned, OnLiveSession, HistoryOwned, ShownOwned, Ex!InFlight

LEMMA UncrossedStep ==
  ASSUME AppSequential, UncrossedInv, [AppNext]_appVars PROVE UncrossedInv'
<1> SUFFICES ASSUME ~crossed' PROVE Owned'
  BY DEF UncrossedInv, Owned
<1>1. ~crossed
  BY DEF AppNext, appVars
<1>2. Owned /\ ExP!TypeInv
  BY <1>1 DEF UncrossedInv, Owned, AppSequential, AppInv
<1>3. CASE UNCHANGED session
  BY <1>2, <1>3, ExecutionStep, OwnedStep
<1>4. CASE session' # session
  BY <1>1, <1>2, <1>4, SessionStep, OwnedSwitch
<1> QED BY <1>3, <1>4

LEMMA UncrossedInvariant == OrderlySpec => [](AppSequential /\ UncrossedInv)
<1>1. AppInit => UncrossedInv
  BY SqlceryAssumptions
     DEF AppInit, Ex!Init, UncrossedInv, OnLiveSession, HistoryOwned, ShownOwned, Ex!InFlight, Ex!Tasks
<1>2. AppSequential /\ UncrossedInv /\ [AppNext]_appVars => UncrossedInv'
  BY UncrossedStep
<1> QED BY <1>1, <1>2, AppSequentialInvariant, OrderlyIsApp, PTL DEF AppSpec

\* What ran is remembered under the Session it ran on, though the report is recorded under
\* the Session that is live when it comes back: a switch waits for what is Running.
THEOREM HistoryIsUncrossed == OrderlySpec => []UncrossedHistory
<1>1. UncrossedInv => UncrossedHistory
  BY DEF UncrossedInv, HistoryOwned, UncrossedHistory
<1> QED BY <1>1, UncrossedInvariant, PTL

\* The Result Set on screen came from the live Session.
THEOREM ResultsAreUncrossed == OrderlySpec => []UncrossedResults
<1>1. UncrossedInv => UncrossedResults
  BY DEF UncrossedInv, ShownOwned, UncrossedResults
<1> QED BY <1>1, UncrossedInvariant, PTL

LEMMA AppAdapters == AppSpec => []Sw!LiveAdapterNeverClosed
<1>1. SwP!SSpec => []SwP!LiveAdapterNeverClosed
  BY SwitchingConstants, SwP!LiveAdapterStaysOpen
<1>2. Sw!SInit => SwP!SInit
  BY SameSwitching
<1>3. [Sw!SNext]_(Sw!svars) => [SwP!SNext]_(SwP!svars)
  BY SameSwitching
<1>4. SwP!LiveAdapterNeverClosed => Sw!LiveAdapterNeverClosed
  BY DEF SwP!LiveAdapterNeverClosed, Sw!LiveAdapterNeverClosed
<1> QED BY <1>1, <1>2, <1>3, <1>4, AppImplementsSwitching, PTL DEF Sw!SSpec, SwP!SSpec

\* No Adapter is closed under a Statement that it is executing: the Statement runs on the
\* live Session, whose Adapter is never handed to closeAdapter.
THEOREM AdaptersAreUncrossed == OrderlySpec => []UncrossedAdapters
<1>1. UncrossedInv /\ Sw!LiveAdapterNeverClosed => UncrossedAdapters
  BY DEF UncrossedInv, OnLiveSession, UncrossedAdapters, Sw!LiveAdapterNeverClosed, Ex!InFlight
<1> QED BY <1>1, UncrossedInvariant, AppAdapters, OrderlyIsApp, PTL

====
