--------------------------- MODULE SwitchingProofs ---------------------------
(***************************************************************************)
(* What holds of Switching for every set of Connections and every number   *)
(* of calls of open, modals and messages: STypeOK, who may close which     *)
(* Adapter, and what the lock on the keyboard stands for.                  *)
(***************************************************************************)
EXTENDS Switching, TLAPS

(********************************* types **********************************)

LEMMA StackTypes ==
  ASSUME modals \in Seq(Modals)
  PROVE  /\ Pop(modals) \in Seq(Modals)
         /\ \A kind \in Kinds, active \in Conns \cup {NoConn} :
              Push(modals, kind, active) \in Seq(Modals)
<1>1. Pop(modals) \in Seq(Modals)
  BY DEF Pop
<1>2. \A kind \in Kinds, active \in Conns \cup {NoConn} :
        [kind |-> kind, active |-> active] \in Modals
  BY DEF Modals
<1> QED BY <1>1, <1>2 DEF Push

\* What a step does to the stack and to the mail is of their types.
ViewOK ==
  /\ boot \in {"auto", "picker", "done"}
  /\ appState \in {"select", "ready", "error"}
  /\ modals \in Seq(Modals)
  /\ mail \in SUBSET Messages
  /\ quit \in BOOLEAN
  
\* What a step does to connects and Adapters is of their types.
ConnectOK ==
  /\ session \in Attempts \cup {NoAttempt}
  /\ attempt \in [Attempts -> AttemptStates]
  /\ cancelled \in SUBSET Attempts
  /\ lock \in Attempts \cup {NoAttempt}
  /\ pendingAbort \in BOOLEAN
  /\ closes \in [Attempts -> Nat]
  /\ overlap \in BOOLEAN

LEMMA TypesSplit == STypeOK <=> ViewOK /\ ConnectOK
BY DEF STypeOK, ViewOK, ConnectOK

LEMMA ConnectionType == STypeOK => Connection(session) \in Conns \cup {NoConn}
BY DEF STypeOK, Connection, AttemptStates

LEMMA MailTypes ==
  ASSUME mail \in SUBSET Messages
  PROVE  /\ \A t \in {"open_picker", "toggle_help", "focus_pane", "connect_abort"} :
              Posted(Intent(t)) => mail' \in SUBSET Messages
         /\ \A c \in Conns : Posted(Request(c)) => mail' \in SUBSET Messages
         /\ \A m : Taken(m) => mail' \in SUBSET Messages
BY DEF Posted, Taken, Messages

LEMMA KeyStepTypes == STypeOK /\ KeyStep => ViewOK'
<1> SUFFICES ASSUME STypeOK, KeyStep PROVE ViewOK'
  OBVIOUS
<1> USE DEF ViewOK, STypeOK, NoMail, NoConnectChange, StackOnly, Quit, CloseToReady, ShowOver, Post
<1>1. ASSUME NEW c \in Conns, ConfirmSelection(c) PROVE ViewOK'
  BY <1>1, StackTypes, MailTypes DEF ConfirmSelection
<1>2. CASE LeavePicker
  BY <1>2, StackTypes DEF LeavePicker
<1>3. CASE PickerHelp \/ PaneKey \/ QuitKey \/ ConnectingKey \/ HelpForward
  BY <1>3, StackTypes, MailTypes DEF PickerHelp, PaneKey, QuitKey, ConnectingKey, HelpForward
<1>4. CASE LockedEsc \/ LockedOtherKey \/ LockedQuit
  BY <1>4 DEF LockedEsc, LockedOtherKey, LockedQuit
<1>5. CASE HelpBrowse \/ HelpDismiss \/ HelpRow
  BY <1>5, StackTypes, MailTypes DEF HelpBrowse, HelpDismiss, HelpRow, PaneRow
<1>6. CASE OpenOther \/ CloseOther
  BY <1>6, StackTypes DEF OpenOther, CloseOther, Kinds
<1> QED BY <1>1, <1>2, <1>3, <1>4, <1>5, <1>6 DEF KeyStep

LEMMA IntentStepTypes == STypeOK /\ IntentStep => ViewOK'
<1> SUFFICES ASSUME STypeOK, IntentStep PROVE ViewOK'
  OBVIOUS
<1> USE StackTypes, MailTypes DEF ViewOK, STypeOK, StackOnly, NoConnectChange
<1>1. CASE ToggleHelp
  BY <1>1 DEF ToggleHelp, Kinds
<1>2. CASE FocusPane \/ RefusePicker \/ ConnectAbort
  BY <1>2 DEF FocusPane, RefusePicker, ConnectAbort
<1>3. CASE OpenPicker
  BY <1>3, ConnectionType DEF OpenPicker, Kinds
<1> QED BY <1>1, <1>2, <1>3 DEF IntentStep

LEMMA OtherStepTypes ==
  ASSUME STypeOK, PickerInit \/ SlashStep \/ (\E i \in Attempts : ConnectStep(i)) \/ UNCHANGED svars
  PROVE  ViewOK'
<1> USE StackTypes, MailTypes
    DEF ViewOK, STypeOK, StackOnly, NoConnectChange, NoMail, CloseToReady, ShowOver
<1>1. CASE PickerInit
  BY <1>1 DEF PickerInit, Kinds
<1>2. CASE SlashStep
  BY <1>2, ConnectionType
     DEF SlashStep, ModalSlash, SlashConnect, SlashWizard, SlashError, ReportReady, Kinds
<1>3. ASSUME NEW i \in Attempts, PickerConnect(i) \/ PickerConnectFailed(i) PROVE ViewOK'
  <2>1. CASE PickerConnect(i)
    BY <2>1 DEF PickerConnect, Kinds
  <2>2. CASE PickerConnectFailed(i)
    <3> DEFINE rest == IF TopKind = "connecting" THEN Pop(modals) ELSE modals
               top == [kind |-> "startup_picker", active |-> NoConn]
    <3>1. rest \in Seq(Modals) /\ top \in Modals
      BY DEF Modals, Kinds
    <3>2. modals' = rest \/ modals' = Append(rest, top)
      BY <2>2 DEF PickerConnectFailed, Push
    <3> HIDE DEF rest, top
    <3>3. modals' \in Seq(Modals)
      BY ONLY <3>1, <3>2
    <3> QED BY <2>2, <3>3 DEF PickerConnectFailed, ConnectFailed
  <2> QED BY <1>3, <2>1, <2>2
<1>4. ASSUME NEW i \in Attempts,
             \/ \E c \in Conns : MidRunConnect(i, c)
             \/ \E ok \in BOOLEAN : OpenReturns(i, ok)
             \/ PickerConnectSuccess(i)
             \/ MidRunConnectSuccess(i)
             \/ MidRunConnectFailed(i)
      PROVE  ViewOK'
  BY <1>4 DEF MidRunConnect, OpenReturns, PickerConnectSuccess, MidRunConnectSuccess,
              MidRunConnectFailed, ConnectSucceeded, ConnectFailed
<1>5. CASE UNCHANGED svars
  BY <1>5 DEF svars
<1> QED BY <1>1, <1>2, <1>3, <1>4, <1>5 DEF ConnectStep

(************************ what connects may do ****************************)

\* Steps of the keyboard and of the modals that no connect notices.
Ignores == UNCHANGED <<session, attempt, cancelled, lock, pendingAbort, closes, overlap>>

\* The keys a connect in flight lets through, and the abort from the Connecting modal.
Handles ==
  /\ UNCHANGED <<session, attempt, closes, overlap>>
  /\ \/ LockedEsc
     \/ LockedOtherKey
     \/ ReleaseLock(NoAttempt)

Opens(i) == \E c \in Conns \cup {NoConn}, auto \in BOOLEAN :
  StartOpen(i, c, auto) /\ (auto => boot = "auto") /\ UNCHANGED <<session, closes>>

LEMMA SwitchStep ==
  ASSUME STypeOK, [SNext]_svars
  PROVE  Ignores \/ Handles \/ \E i \in Attempts :
           \/ Opens(i)
           \/ \E ok \in BOOLEAN : OpenReturns(i, ok)
           \/ PickerConnectSuccess(i) \/ MidRunConnectSuccess(i)
           \/ ConnectFailed(i)
<1> USE DEF connectVars, adapterVars, NoConnectChange, StackOnly, Ignores
<1>1. CASE PickerInit \/ IntentStep \/ SlashStep
  BY <1>1 DEF PickerInit, IntentStep, ToggleHelp, FocusPane, RefusePicker, OpenPicker,
              ConnectAbort, SlashStep, ModalSlash, SlashConnect, SlashWizard, SlashError,
              ReportReady, CloseToReady, ShowOver, Handles
<1>2. CASE KeyStep
  BY <1>2 DEF KeyStep, ConfirmSelection, LeavePicker, PickerHelp, PaneKey, QuitKey, ConnectingKey,
              LockedEsc, LockedOtherKey, LockedQuit, HelpBrowse, HelpDismiss, HelpForward, HelpRow,
              PaneRow, OpenOther, CloseOther, CloseToReady, ShowOver, Post, Quit, Handles
<1>3. ASSUME NEW i \in Attempts, PickerConnect(i) PROVE Opens(i)
  BY <1>3, SwitchingAssumptions DEF PickerConnect, Opens
<1>4. ASSUME NEW i \in Attempts, NEW c \in Conns, MidRunConnect(i, c) PROVE Opens(i)
  BY <1>4 DEF MidRunConnect, Opens
<1>5. ASSUME NEW i \in Attempts, PickerConnectFailed(i) \/ MidRunConnectFailed(i)
      PROVE  ConnectFailed(i)
  BY <1>5 DEF PickerConnectFailed, MidRunConnectFailed
<1>6. CASE UNCHANGED svars
  BY <1>6 DEF svars
<1> QED BY <1>1, <1>2, <1>3, <1>4, <1>5, <1>6 DEF SNext, ConnectStep

(******************************* type correctness *************************)

LEMMA ConnectTypes == ASSUME STypeOK, [SNext]_svars PROVE ConnectOK'
<1> USE SwitchingAssumptions DEF STypeOK, ConnectOK
<1>1. CASE Ignores
  BY <1>1 DEF Ignores
<1>2. CASE Handles
  BY <1>2 DEF Handles, LockedEsc, LockedOtherKey, ReleaseLock, KeysLocked, connectVars
<1>3. ASSUME NEW i \in Attempts, Opens(i) PROVE ConnectOK'
  <2>1. PICK c \in Conns \cup {NoConn}, auto \in BOOLEAN :
             StartOpen(i, c, auto) /\ UNCHANGED <<session, closes>>
    BY <1>3 DEF Opens
  <2>2. [stage |-> "opening", target |-> c, old |-> IF auto THEN NoAttempt ELSE session,
         auto |-> auto] \in AttemptStates
    BY DEF AttemptStates, Stages
  <2> QED BY <2>1, <2>2 DEF StartOpen
<1>4. ASSUME NEW i \in Attempts, NEW ok \in BOOLEAN, OpenReturns(i, ok) PROVE ConnectOK'
  <2>1. [attempt[i] EXCEPT !.stage = IF ok THEN "opened" ELSE "failed"] \in AttemptStates
    BY DEF AttemptStates, Stages
  <2> QED BY <1>4, <2>1 DEF OpenReturns, adapterVars
<1>5. ASSUME NEW i \in Attempts, NEW stage \in Stages, NEW kept \in Conns \cup {NoConn},
             Resolved(i, stage, kept), ReleaseLock(i)
      PROVE  /\ attempt' \in [Attempts -> AttemptStates]
             /\ cancelled' \in SUBSET Attempts
             /\ lock' \in Attempts \cup {NoAttempt}
             /\ pendingAbort' \in BOOLEAN
  <2>1. [Unused EXCEPT !.stage = stage, !.target = kept] \in AttemptStates
    BY DEF AttemptStates, Unused
  <2> QED BY <1>5, <2>1 DEF Resolved, ReleaseLock
<1>6. ASSUME NEW i \in Attempts, ConnectSucceeded(i), UNCHANGED closes \/ closes' = CloseAdapter(attempt[i].old)
      PROVE  ConnectOK'
  BY <1>5, <1>6 DEF ConnectSucceeded, CloseAdapter, AttemptStates, Stages
<1>7. ASSUME NEW i \in Attempts, ConnectFailed(i) PROVE ConnectOK'
  BY <1>5, <1>7 DEF ConnectFailed, Stages, adapterVars
<1> QED BY <1>1, <1>2, <1>3, <1>4, <1>6, <1>7, SwitchStep DEF PickerConnectSuccess, MidRunConnectSuccess

LEMMA InitTypes == SInit => STypeOK
<1>1. Unused \in AttemptStates
  BY DEF Unused, AttemptStates, Stages
<1>2. <<>> \in Seq(Modals)
  OBVIOUS
<1>3. SInit => ViewOK
  BY <1>2 DEF SInit, ViewOK
<1>4. SInit => ConnectOK
  <2> SUFFICES ASSUME SInit PROVE ConnectOK
    OBVIOUS
  <2>1. attempt \in [Attempts -> AttemptStates]
    BY <1>1 DEF SInit
  <2>2. closes \in [Attempts -> Nat]
    BY DEF SInit
  <2> QED BY <2>1, <2>2 DEF SInit, ConnectOK
<1> QED BY <1>3, <1>4, TypesSplit

LEMMA NextTypes == STypeOK /\ [SNext]_svars => STypeOK'
<1> SUFFICES ASSUME STypeOK, [SNext]_svars PROVE STypeOK'
  OBVIOUS
<1>1. ViewOK'
  BY KeyStepTypes, IntentStepTypes, OtherStepTypes DEF SNext
<1>2. ConnectOK'
  BY ConnectTypes
<1> QED BY <1>1, <1>2 DEF STypeOK, ViewOK, ConnectOK

\* Every field of the Model that connects and modals use keeps to its type.
THEOREM SwitchingTypeCorrect == SSpec => []STypeOK
BY InitTypes, NextTypes, PTL DEF SSpec

(************************** the lock and the Adapters *********************)

LockInv ==
  /\ LockHasOwner
  /\ AbortArmedOnlyInFlight
  /\ OpenIsCancellable

\* The Adapter of the Session, the ones that were handed to closeAdapter, and the ones a
\* connect in flight will hand to it.
AdapterInv ==
  /\ session # NoAttempt => attempt[session].stage = "installed"
  /\ \A i \in Attempts : closes[i] # 0 => attempt[i].stage = "installed" /\ i # session
  /\ \A i \in Attempts : attempt[i].old # NoAttempt =>
       Unresolved(i) /\ attempt[attempt[i].old].stage = "installed"

LEMMA LockStep == ASSUME STypeOK, LockInv, [SNext]_svars PROVE LockInv'
<1> USE SwitchingAssumptions
    DEF STypeOK, LockInv, LockHasOwner, AbortArmedOnlyInFlight, OpenIsCancellable, Unresolved
<1>1. CASE Ignores
  BY <1>1 DEF Ignores
<1>2. CASE Handles
  BY <1>2 DEF Handles, LockedEsc, LockedOtherKey, ReleaseLock, KeysLocked
<1>3. ASSUME NEW i \in Attempts, Opens(i) PROVE LockInv'
  <2>1. /\ lock' = i /\ pendingAbort' = FALSE /\ UNCHANGED cancelled
        /\ overlap' = (overlap \/ \E j \in Attempts : Unresolved(j))
        /\ attempt'[i].stage = "opening"
        /\ \A j \in Attempts \ {i} : attempt'[j] = attempt[j]
    BY <1>3 DEF Opens, StartOpen
  <2> QED BY <2>1
<1>4. ASSUME NEW i \in Attempts, NEW ok \in BOOLEAN, OpenReturns(i, ok) PROVE LockInv'
  BY <1>4 DEF OpenReturns
<1>5. ASSUME NEW i \in Attempts, NEW stage \in {"installed", "over"}, NEW kept,
             attempt[i].stage \in {"opened", "failed"},
             Resolved(i, stage, kept), ReleaseLock(i), UNCHANGED overlap
      PROVE  LockInv'
  BY <1>5 DEF Resolved, ReleaseLock, Unused
<1>6. ASSUME NEW i \in Attempts, ConnectSucceeded(i) \/ ConnectFailed(i) PROVE LockInv'
  BY <1>5, <1>6 DEF ConnectSucceeded, ConnectFailed
<1> QED BY <1>1, <1>2, <1>3, <1>4, <1>6, SwitchStep DEF PickerConnectSuccess, MidRunConnectSuccess

LEMMA AdapterStep == ASSUME STypeOK, AdapterInv, [SNext]_svars PROVE AdapterInv'
<1> USE SwitchingAssumptions DEF STypeOK, AdapterInv, Unresolved
<1>1. CASE Ignores \/ Handles
  BY <1>1 DEF Ignores, Handles
<1>2. ASSUME NEW i \in Attempts, Opens(i) PROVE AdapterInv'
  BY <1>2 DEF Opens, StartOpen
<1>3. ASSUME NEW i \in Attempts, NEW ok \in BOOLEAN, OpenReturns(i, ok) PROVE AdapterInv'
  BY <1>3 DEF OpenReturns, adapterVars
<1>4. ASSUME NEW i \in Attempts, ConnectSucceeded(i),
             closes' = closes \/ closes' = CloseAdapter(attempt[i].old)
      PROVE  AdapterInv'
  <2>1. /\ attempt[i].stage = "opened" /\ session' = i
        /\ attempt' = [attempt EXCEPT ![i] = [Unused EXCEPT !.stage = "installed",
                                                            !.target = attempt[i].target]]
    BY <1>4 DEF ConnectSucceeded, Resolved
  <2>2. attempt'[i].stage = "installed" /\ attempt'[i].old = NoAttempt
    BY <2>1 DEF Unused
  <2>3. \A j \in Attempts \ {i} : attempt'[j] = attempt[j]
    BY <2>1
  <2>4. \A j \in Attempts : closes'[j] # 0 => attempt'[j].stage = "installed" /\ j # i
    BY <1>4, <2>1, <2>3 DEF CloseAdapter, AttemptStates
  <2>5. \A j \in Attempts : attempt'[j].old # NoAttempt =>
          Unresolved(j)' /\ attempt'[attempt'[j].old].stage = "installed"
    BY <2>1, <2>2, <2>3
  <2> QED BY <2>1, <2>2, <2>4, <2>5
<1>5. ASSUME NEW i \in Attempts, ConnectFailed(i) PROVE AdapterInv'
  BY <1>5 DEF ConnectFailed, Resolved, Unused, adapterVars
<1> QED BY <1>1, <1>2, <1>3, <1>4, <1>5, SwitchStep DEF PickerConnectSuccess, MidRunConnectSuccess

LEMMA SwitchingInvariant == SSpec => [](STypeOK /\ LockInv /\ AdapterInv)
<1>1. SInit => LockInv /\ AdapterInv
  BY SwitchingAssumptions
     DEF SInit, LockInv, LockHasOwner, AbortArmedOnlyInFlight, OpenIsCancellable, AdapterInv, Unused
<1> QED BY <1>1, InitTypes, NextTypes, LockStep, AdapterStep, PTL DEF SSpec

\* The Adapter of the live Session is never handed to closeAdapter, though the success
\* handler closes the Adapter captured when the connect started, without looking again.
THEOREM LiveAdapterStaysOpen == SSpec => []LiveAdapterNeverClosed
<1>1. STypeOK /\ AdapterInv => LiveAdapterNeverClosed
  BY DEF STypeOK, AdapterInv, LiveAdapterNeverClosed
<1> QED BY <1>1, SwitchingInvariant, PTL

\* The keyboard is only locked for a connect that has not been resolved.
THEOREM LockIsOwned == SSpec => []LockHasOwner
<1>1. LockInv => LockHasOwner
  BY DEF LockInv
<1> QED BY <1>1, SwitchingInvariant, PTL

\* A first Esc does not outlive the connect it was typed at.
THEOREM AbortNeedsTwoEscs == SSpec => []AbortArmedOnlyInFlight
<1>1. LockInv => AbortArmedOnlyInFlight
  BY DEF LockInv
<1> QED BY <1>1, SwitchingInvariant, PTL

\* Unless connects overlap, an open in flight can be cancelled or has been.
THEOREM OpensAreCancellable == SSpec => []OpenIsCancellable
<1>1. LockInv => OpenIsCancellable
  BY DEF LockInv
<1> QED BY <1>1, SwitchingInvariant, PTL

\* ADR 0019, transactional switches: the Session only changes to what open has delivered.
THEOREM SwitchesAreTransactional == SSpec => SwitchIsTransactional
<1> DEFINE Delivered == session' # session =>
             \E i \in Attempts : session' = i /\ attempt[i].stage = "opened"
<1>1. STypeOK /\ [SNext]_svars => [Delivered]_svars
  BY SwitchStep DEF Ignores, Handles, Opens, OpenReturns, adapterVars, PickerConnectSuccess,
                    MidRunConnectSuccess, ConnectSucceeded, ConnectFailed
<1>2. SwitchIsTransactional <=> [][Delivered]_svars
  BY DEF SwitchIsTransactional
<1> QED BY <1>1, <1>2, SwitchingTypeCorrect, PTL DEF SSpec

(************************ every Adapter is accounted for ******************)

\* Until the message of Init is delivered there is nothing to press and nothing to open.
BootInv == boot # "done" =>
  /\ session = NoAttempt
  /\ lock = NoAttempt
  /\ modals = <<>>
  /\ mail = {}
  /\ appState = "select"
  /\ \A i \in Attempts : attempt[i].stage = "unused"

\* While connects do not overlap, the one in flight replaces the live Session.
CalmInv == ~overlap =>
  /\ \A i, j \in Attempts : Unresolved(i) /\ Unresolved(j) => i = j
  /\ \A i \in Attempts : Unresolved(i) => attempt[i].old = session
  /\ \A i \in Attempts : Unresolved(i) /\ attempt[i].auto => session = NoAttempt
  /\ AdaptersAccountedFor

LEMMA BootStep == ASSUME STypeOK, BootInv, [SNext]_svars PROVE BootInv'
<1> SUFFICES ASSUME boot' # "done" PROVE BootInv'
  BY DEF BootInv
<1>1. CASE UNCHANGED svars
  BY <1>1 DEF svars, BootInv, connectVars, adapterVars
<1>2. CASE UNCHANGED boot /\ SNext
  <2>1. /\ boot # "done" /\ session = NoAttempt /\ lock = NoAttempt /\ modals = <<>>
        /\ mail = {} /\ appState = "select"
        /\ \A i \in Attempts : attempt[i].stage = "unused"
    BY <1>2 DEF BootInv
  <2>2. TopKind = "none"
    BY <2>1 DEF TopKind
  <2> USE <2>1, <2>2 DEF Reachable, KeysReach, KeysReachPanes, PickerReachable, KeysLocked
  <2>3. KeyStep => QuitKey
    BY DEF KeyStep, ConfirmSelection, LeavePicker, PickerHelp, PaneKey, ConnectingKey, LockedEsc,
           LockedOtherKey, LockedQuit, HelpBrowse, HelpDismiss, HelpForward, HelpRow, PaneRow,
           OpenOther, CloseOther
  <2>4. QuitKey => BootInv'
    BY DEF QuitKey, Quit, NoConnectChange, NoMail, connectVars, adapterVars, BootInv
  <2>5. ~IntentStep
    BY DEF IntentStep, ToggleHelp, FocusPane, RefusePicker, OpenPicker, ConnectAbort, Taken
  <2>6. ~SlashStep
    BY DEF SlashStep, ModalSlash, SlashesRun
  <2>7. ~PickerInit
    BY <1>2 DEF PickerInit
  <2>8. \A i \in Attempts : ~ConnectStep(i)
    BY <1>2 DEF ConnectStep, PickerConnect, MidRunConnect, Taken, OpenReturns, PickerConnectSuccess,
                MidRunConnectSuccess, PickerConnectFailed, MidRunConnectFailed, ConnectSucceeded,
                ConnectFailed
  <2> QED BY <1>2, <2>3, <2>4, <2>5, <2>6, <2>7, <2>8 DEF SNext
<1>3. ASSUME SNext PROVE UNCHANGED boot \/ boot' = "done"
  BY <1>3
     DEF SNext, PickerInit, KeyStep, IntentStep, SlashStep, ConnectStep, ConfirmSelection, LeavePicker,
         PickerHelp, PaneKey, QuitKey, ConnectingKey, LockedEsc, LockedOtherKey, LockedQuit,
         HelpBrowse, HelpDismiss, HelpForward, HelpRow, PaneRow, OpenOther, CloseOther, ToggleHelp,
         FocusPane, RefusePicker, OpenPicker, ConnectAbort, ModalSlash, SlashConnect, SlashWizard,
         SlashError, ReportReady, CloseToReady, ShowOver, Post, Quit, StackOnly, NoConnectChange, PickerConnect,
         MidRunConnect, OpenReturns, PickerConnectSuccess, MidRunConnectSuccess,
         PickerConnectFailed, MidRunConnectFailed, ConnectSucceeded, ConnectFailed
<1> QED BY <1>1, <1>2, <1>3

LEMMA CalmStep ==
  ASSUME STypeOK, AdapterInv, BootInv, CalmInv, [SNext]_svars PROVE CalmInv'
<1> USE SwitchingAssumptions DEF STypeOK, CalmInv, AdaptersAccountedFor, Unresolved
<1>1. CASE Ignores \/ Handles
  BY <1>1 DEF Ignores, Handles
<1>2. ASSUME NEW i \in Attempts, Opens(i) PROVE CalmInv'
  <2>1. PICK auto \in BOOLEAN :
          /\ overlap' = (overlap \/ \E j \in Attempts : Unresolved(j))
          /\ attempt'[i].stage = "opening"
          /\ attempt'[i].old = (IF auto THEN NoAttempt ELSE session)
          /\ attempt'[i].auto = auto
          /\ auto => session = NoAttempt
          /\ \A j \in Attempts \ {i} : attempt'[j] = attempt[j]
          /\ UNCHANGED <<session, closes>>
    BY <1>2 DEF Opens, StartOpen, BootInv
  <2> QED BY <2>1
<1>3. ASSUME NEW i \in Attempts, NEW ok \in BOOLEAN, OpenReturns(i, ok) PROVE CalmInv'
  BY <1>3 DEF OpenReturns, adapterVars
<1>4. ASSUME NEW i \in Attempts, ConnectSucceeded(i),
             \/ attempt[i].auto /\ closes' = closes
             \/ ~attempt[i].auto /\ closes' = CloseAdapter(attempt[i].old)
      PROVE  CalmInv'
  <2>1. /\ attempt[i].stage = "opened" /\ session' = i /\ overlap' = overlap
        /\ attempt' = [attempt EXCEPT ![i] = [Unused EXCEPT !.stage = "installed",
                                                            !.target = attempt[i].target]]
    BY <1>4 DEF ConnectSucceeded, Resolved
  <2>2. attempt'[i].stage = "installed" /\ \A j \in Attempts \ {i} : attempt'[j] = attempt[j]
    BY <2>1 DEF Unused
  <2> SUFFICES ASSUME ~overlap PROVE CalmInv'
    BY <2>1
  <2>3. \A j \in Attempts : ~Unresolved(j)'
    BY <2>1, <2>2
  <2>4. /\ attempt[i].old = session
        /\ closes[i] = 0
        /\ attempt[i].auto => session = NoAttempt
    BY <2>1 DEF AdapterInv
  <2>5. closes' = CloseAdapter(session) \/ (session = NoAttempt /\ closes' = closes)
    BY <1>4, <2>4
  <2>6. \A j \in Attempts : attempt'[j].stage = "installed" =>
          closes'[j] = (IF j = i THEN 0 ELSE 1)
    <3> TAKE j \in Attempts
    <3>1. CASE j = i
      BY <2>1, <2>4, <2>5, <3>1 DEF CloseAdapter, AdapterInv
    <3>2. CASE j # i /\ j = session
      BY <2>1, <2>2, <2>5, <3>2 DEF CloseAdapter
    <3>3. CASE j # i /\ j # session
      BY <2>2, <2>5, <3>3 DEF CloseAdapter
    <3> QED BY <3>1, <3>2, <3>3
  <2> QED BY <2>1, <2>3, <2>6
<1>5. ASSUME NEW i \in Attempts, ConnectFailed(i) PROVE CalmInv'
  BY <1>5 DEF ConnectFailed, Resolved, Unused, adapterVars
<1> QED BY <1>1, <1>2, <1>3, <1>4, <1>5, SwitchStep DEF PickerConnectSuccess, MidRunConnectSuccess

LEMMA CalmInvariant == SSpec => [](STypeOK /\ AdapterInv /\ BootInv /\ CalmInv)
<1>1. SInit => BootInv /\ CalmInv
  BY DEF SInit, BootInv, CalmInv, AdaptersAccountedFor, Unresolved, Unused
<1> QED BY <1>1, BootStep, CalmStep, SwitchingInvariant, PTL DEF SSpec

\* Unless connects overlap, no Adapter is leaked and none is closed twice: each one that
\* was installed is the live one, or was closed exactly once.
THEOREM NoAdapterLeaked == SSpec => []AdaptersAccountedFor
<1>1. STypeOK /\ CalmInv => AdaptersAccountedFor
  BY DEF CalmInv, AdaptersAccountedFor
<1> QED BY <1>1, CalmInvariant, PTL

=============================================================================
