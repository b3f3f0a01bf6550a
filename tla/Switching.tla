------------------------------ MODULE Switching ------------------------------
(***************************************************************************)
(* How a Session is opened and replaced: the startup auto-connect, the     *)
(* Connection Picker at startup and mid-run, the lock that a connect in    *)
(* flight puts on the keyboard, the swap of Adapters, and the modal stack  *)
(* the handlers pop (internal/app/connection_picker.go,                    *)
(* connection_picker_modal.go, modal_connecting.go, modal.go, help_modal.go*)
(* and the routing in model.go).                                           *)
(*                                                                         *)
(* An attempt is one call of Model.open; the Adapter it yields bears its   *)
(* name.  One Update of the Model is one action; messages in flight are    *)
(* delivered in any order.                                                 *)
(***************************************************************************)
EXTENDS Naturals, Sequences, FiniteSets

CONSTANTS
  Conns,        \* Connections the Picker lists
  NoConn,       \* no Connection name
  Attempts,     \* calls of open, and the Adapters they yield; each is used once
  NoAttempt,    \* nil, for an Adapter and for cancelConnect
  CommandLine,  \* what the command line may name: Connections, or NoConn for none
  MaxMail,      \* bound: messages not yet delivered, all different
  MaxModals     \* bound: depth of the modal stack

ASSUME SwitchingAssumptions ==
  /\ NoConn \notin Conns
  /\ NoAttempt \notin Attempts
  /\ CommandLine \subseteq Conns \cup {NoConn}
  /\ MaxMail \in Nat
  /\ MaxModals \in Nat

VARIABLES
  boot,         \* the message Init posted, until it is delivered
  appState,     \* App.Current: StateSelectConnection, StateReady or StateError
  session,      \* Session.Adapter: the attempt that opened it
  modals,       \* the modal stack, top last
  attempt,      \* what is known of each call of open
  cancelled,    \* unresolved attempts whose context was cancelled
  lock,         \* cancelConnect: the attempt whose context it cancels
  pendingAbort, \* pendingConnectAbort: a first Esc was seen
  closes,       \* how often each Adapter was handed to closeAdapter
  mail,         \* intents and midRunConnectMsg not yet delivered
  quit,         \* tea.Quit was returned: the program may stop at any moment
  overlap       \* some open was started while another was unresolved (history)

connectVars == <<attempt, cancelled, lock, pendingAbort, overlap>>
adapterVars == <<session, closes>>
svars == <<boot, appState, modals, connectVars, adapterVars, mail, quit>>

(*************************** states and types *****************************)

Kinds == {"startup_picker", "picker", "connecting", "help", "other"}
Modals == [kind : Kinds, active : Conns \cup {NoConn}]
Stages == {"unused", "opening", "opened", "failed", "installed", "over"}
AttemptStates ==
  [stage : Stages, target : Conns \cup {NoConn}, old : Attempts \cup {NoAttempt}, auto : BOOLEAN]
Unused == [stage |-> "unused", target |-> NoConn, old |-> NoAttempt, auto |-> FALSE]
Intent(type) == [type |-> type, conn |-> NoConn]
Request(c) == [type |-> "connect", conn |-> c]
Messages == {Intent(t) : t \in {"open_picker", "toggle_help", "focus_pane", "connect_abort"}}
              \cup {Request(c) : c \in Conns}

\* The type of every variable of Switching.
STypeOK ==
  /\ boot \in {"auto", "picker", "done"}
  /\ appState \in {"select", "ready", "error"}
  /\ session \in Attempts \cup {NoAttempt}
  /\ modals \in Seq(Modals)
  /\ attempt \in [Attempts -> AttemptStates]
  /\ cancelled \in SUBSET Attempts
  /\ lock \in Attempts \cup {NoAttempt}
  /\ pendingAbort \in BOOLEAN
  /\ closes \in [Attempts -> Nat]
  /\ mail \in SUBSET Messages
  /\ quit \in BOOLEAN
  /\ overlap \in BOOLEAN

Unresolved(i) == attempt[i].stage \in {"opening", "opened", "failed"}
Connection(i) == IF i = NoAttempt THEN NoConn ELSE attempt[i].target

TopKind == IF modals = <<>> THEN "none" ELSE modals[Len(modals)].kind
IsPicker(kind) == kind \in {"startup_picker", "picker"}
Pop(stack) == IF stack = <<>> THEN stack ELSE SubSeq(stack, 1, Len(stack) - 1)
Push(stack, kind, active) == Append(stack, [kind |-> kind, active |-> active])
Room == Len(modals) < MaxModals

SInit ==
  /\ \E target \in CommandLine : boot = IF target = NoConn THEN "picker" ELSE "auto"
  /\ appState = "select"
  /\ session = NoAttempt
  /\ modals = <<>>
  /\ attempt = [i \in Attempts |-> Unused]
  /\ cancelled = {}
  /\ lock = NoAttempt
  /\ pendingAbort = FALSE
  /\ closes = [i \in Attempts |-> 0]
  /\ mail = {}
  /\ quit = FALSE
  /\ overlap = FALSE

(******************************** messages ********************************)

Posted(m) == m \notin mail /\ Cardinality(mail) < MaxMail /\ mail' = mail \cup {m}
Taken(m) == m \in mail /\ mail' = mail \ {m}
NoMail == UNCHANGED mail

\* No connect is in flight and modals of this kind have the keyboard.
KeysReach(kind) == lock = NoAttempt /\ TopKind = kind
KeysReachPanes == KeysReach("none") /\ appState = "ready"

(*************************** opening a Session ****************************)

\* Open with a fresh context; cancelConnect now cancels this one.
StartOpen(i, c, auto) ==
  /\ attempt[i].stage = "unused"
  /\ attempt' = [attempt EXCEPT ![i] =
       [stage |-> "opening", target |-> c, old |-> IF auto THEN NoAttempt ELSE session,
        auto |-> auto]]
  /\ lock' = i
  /\ pendingAbort' = FALSE
  /\ overlap' = (overlap \/ \E j \in Attempts : Unresolved(j))
  /\ UNCHANGED cancelled

\* Variants: the lock is kept; the context is not cancelled.
ReleaseKeepsLock(resolved) ==
  /\ cancelled' = (cancelled \cup {lock}) \ {NoAttempt, resolved}
  /\ pendingAbort' = FALSE /\ UNCHANGED lock
ReleaseWithoutCancel(resolved) ==
  cancelled' = cancelled \ {resolved} /\ lock' = NoAttempt /\ pendingAbort' = FALSE

\* Call and clear cancelConnect, whichever attempt it belongs to; the context of
\* the attempt that has just been resolved no longer matters.
ReleaseLock(resolved) ==
  /\ cancelled' = (cancelled \cup {lock}) \ {NoAttempt, resolved}
  /\ lock' = NoAttempt
  /\ pendingAbort' = FALSE

PickerInit ==
  /\ boot = "picker"
  /\ boot' = "done"
  /\ modals' = Push(modals, "startup_picker", NoConn)
  /\ UNCHANGED <<appState, connectVars, adapterVars, mail, quit>>

\* handlePickerConnect: the auto-connect shows the Connecting modal.
PickerConnect(i) ==
  /\ boot = "auto"
  /\ boot' = "done"
  /\ \E target \in CommandLine \ {NoConn} : StartOpen(i, target, TRUE)
  /\ modals' = Push(modals, "connecting", NoConn)
  /\ UNCHANGED <<appState, adapterVars, mail, quit>>

\* handleMidRunConnect does not look at a connect already in flight.
MidRunConnect(i, c) ==
  /\ Taken(Request(c))
  /\ StartOpen(i, c, FALSE)
  /\ UNCHANGED <<boot, appState, modals, adapterVars, quit>>

\* open returns within its connect timeout; a cancelled context makes it fail,
\* unless it had already succeeded.
OpenReturns(i, ok) ==
  /\ attempt[i].stage = "opening"
  /\ attempt' = [attempt EXCEPT ![i].stage = IF ok THEN "opened" ELSE "failed"]
  /\ UNCHANGED <<boot, appState, modals, cancelled, lock, pendingAbort, overlap,
                 adapterVars, mail, quit>>

\* Variants: the Adapter of the Session is closed after the swap; none is closed.
CloseAdapterOfSession(old) ==
  [i \in Attempts |-> IF old # NoAttempt /\ i = session' THEN closes[i] + 1 ELSE closes[i]]
CloseNoAdapter(old) == [i \in Attempts |-> IF i = old THEN closes[i] ELSE closes[i]]

\* Hand an Adapter to closeAdapter, if there was one.
CloseAdapter(old) == [i \in Attempts |-> IF i = old THEN closes[i] + 1 ELSE closes[i]]

\* The message of i, which carries the old Adapter, is consumed.
Resolved(i, stage, kept) ==
  attempt' = [attempt EXCEPT ![i] = [Unused EXCEPT !.stage = stage, !.target = kept]]

ConnectSucceeded(i) ==
  /\ attempt[i].stage = "opened"
  /\ Resolved(i, "installed", attempt[i].target)
  /\ ReleaseLock(i)
  /\ session' = i
  /\ appState' = "ready"
  /\ UNCHANGED <<boot, mail, quit, overlap>>

\* handlePickerConnectSuccess: nothing to reset, nothing to close.
PickerConnectSuccess(i) ==
  /\ attempt[i].auto
  /\ ConnectSucceeded(i)
  /\ modals' = IF TopKind = "connecting" THEN Pop(modals) ELSE modals
  /\ UNCHANGED closes

\* handleMidRunConnectSuccess closes the Adapter that was live when i was started.
MidRunConnectSuccess(i) ==
  /\ ~attempt[i].auto
  /\ ConnectSucceeded(i)
  /\ closes' = CloseAdapter(attempt[i].old)
  /\ modals' = IF IsPicker(TopKind) THEN Pop(modals) ELSE modals

\* Variant: a failed connect drops the Session it was to replace.
ConnectFailedDropsSession(i) ==
  /\ attempt[i].stage = "failed"
  /\ Resolved(i, "over", NoConn)
  /\ ReleaseLock(i)
  /\ session' = NoAttempt
  /\ UNCHANGED <<boot, closes, mail, overlap>>

ConnectFailed(i) ==
  /\ attempt[i].stage = "failed"
  /\ Resolved(i, "over", NoConn)
  /\ ReleaseLock(i)
  /\ UNCHANGED <<boot, adapterVars, mail, overlap>>

\* handlePickerConnectFailed: an abort quits, so does a Connection String when
\* there is nothing to pick; otherwise the startup Picker is shown.
PickerConnectFailed(i) ==
  /\ attempt[i].auto
  /\ ConnectFailed(i)
  /\ LET rest == IF TopKind = "connecting" THEN Pop(modals) ELSE modals IN
       \/ i \in cancelled /\ quit' = TRUE /\ modals' = rest /\ UNCHANGED appState
       \/ quit' = TRUE /\ modals' = rest /\ appState' = "error"
       \/ /\ modals' = Push(rest, "startup_picker", NoConn)
          /\ appState' = "select"
          /\ UNCHANGED quit

\* returnToPickerOrReady: the modal on top tells whether there is a Session.
MidRunConnectFailed(i) ==
  /\ ~attempt[i].auto
  /\ ConnectFailed(i)
  /\ appState' = IF TopKind = "startup_picker" THEN "select" ELSE "ready"
  /\ UNCHANGED <<modals, quit>>

(******************************* the keyboard *****************************)

\* What a key or a click leaves alone: it only touches the stack, the state and mail.
NoConnectChange == UNCHANGED <<boot, connectVars, adapterVars>>
StackOnly == NoConnectChange /\ UNCHANGED quit
Quit == quit' = TRUE /\ NoConnectChange /\ NoMail /\ UNCHANGED <<appState, modals>>

\* Keys are withheld from a modal while a connect is in flight; clicks are not,
\* once the application is Ready (handleMouseClick).
Reachable(kind) == TopKind = kind /\ (lock = NoAttempt \/ appState = "ready")
PickerReachable == Reachable("picker") \/ Reachable("startup_picker")

CloseToReady == modals' = Pop(modals) /\ appState' = "ready" /\ NoMail /\ StackOnly
ShowOver(kind, active) ==
  Room /\ modals' = Push(modals, kind, active) /\ NoMail /\ StackOnly

Post(m) == Posted(m) /\ StackOnly /\ UNCHANGED <<appState, modals>>

\* confirmSelection: the active Connection closes the Picker, another one is requested.
ConfirmSelection(c) ==
  /\ PickerReachable
  /\ \/ modals[Len(modals)].active = c /\ CloseToReady
     \/ /\ modals[Len(modals)].active # c
        /\ Post(Request(c))

\* Esc and ctrl+c: at startup there is nothing to return to.
LeavePicker ==
  \/ KeysReach("startup_picker") /\ Quit
  \/ KeysReach("picker") /\ CloseToReady

PickerHelp == (KeysReach("picker") \/ KeysReach("startup_picker")) /\ Post(Intent("toggle_help"))

PaneKey == KeysReachPanes /\ (\E t \in {"toggle_help", "open_picker", "focus_pane"} : Post(Intent(t)))

QuitKey == (KeysReachPanes \/ KeysReach("none")) /\ Quit

\* The Connecting modal: Esc, Enter and ctrl+c all abort.
ConnectingKey ==
  lock # NoAttempt /\ TopKind = "connecting" /\ appState = "select" /\ Post(Intent("connect_abort"))

\* handleMidRunConnectingKeyPress: the keys a connect in flight lets through.
KeysLocked == lock # NoAttempt /\ ~(TopKind = "connecting" /\ appState = "select")

LockedEsc ==
  /\ KeysLocked
  /\ cancelled' = IF pendingAbort THEN cancelled \cup {lock} ELSE cancelled
  /\ pendingAbort' = ~pendingAbort
  /\ UNCHANGED <<boot, appState, modals, attempt, lock, overlap, adapterVars, mail, quit>>

LockedOtherKey ==
  /\ KeysLocked
  /\ pendingAbort' = FALSE
  /\ UNCHANGED <<boot, appState, modals, attempt, cancelled, lock, overlap, adapterVars,
                 mail, quit>>

LockedQuit ==
  /\ KeysLocked
  /\ ReleaseLock(NoAttempt)
  /\ quit' = TRUE
  /\ UNCHANGED <<boot, appState, modals, attempt, overlap, adapterVars, mail>>

\* Filtering to no match, clearing the filter and zooming behind the modal report Ready.
HelpBrowse == Reachable("help") /\ appState' = "ready" /\ UNCHANGED modals /\ NoMail /\ StackOnly
HelpDismiss == Reachable("help") /\ CloseToReady
HelpForward == KeysReach("help") /\ Post(Intent("focus_pane"))

\* A help row that stands for a key closes the modal and posts the key's intent; the
\* intents of the Command Pane and of the Results Pane are not told apart here.
PaneRow ==
  Reachable("help") /\ modals' = Pop(modals) /\ NoMail /\ StackOnly /\ UNCHANGED appState
HelpRow ==
  \/ PaneRow
  \/ /\ Reachable("help")
     /\ \E t \in {"open_picker", "focus_pane"} : Posted(Intent(t))
     /\ modals' = Pop(modals)
     /\ StackOnly /\ UNCHANGED appState

\* A slash command is started from the help modal or from the slash wizard.
ModalSlash == (Reachable("help") \/ Reachable("other")) /\ CloseToReady

\* History search, the wizards and the confirm dialog.
OpenOther ==
  \/ KeysReachPanes /\ ShowOver("other", NoConn) /\ UNCHANGED appState
  \/ PickerReachable /\ ShowOver("other", NoConn) /\ UNCHANGED appState
CloseOther ==
  /\ Reachable("other")
  /\ modals' = Pop(modals)
  /\ appState' \in {appState, "ready"}
  /\ NoMail /\ StackOnly

(******************************* intents **********************************)

ToggleHelp ==
  /\ Taken(Intent("toggle_help"))
  /\ \/ TopKind = "help" /\ modals' = Pop(modals)
     \/ TopKind # "help" /\ Room /\ modals' = Push(modals, "help", NoConn)
  /\ StackOnly /\ UNCHANGED appState

\* handleFocusPane pops whatever modal is on top.
FocusPane ==
  /\ Taken(Intent("focus_pane"))
  /\ modals' = Pop(modals)
  /\ appState' = "ready"
  /\ StackOnly

\* The switch is refused while a Statement is Running, which is not told apart here.
RefusePicker ==
  Taken(Intent("open_picker")) /\ StackOnly /\ UNCHANGED <<modals, appState>>

OpenPicker ==
  /\ Taken(Intent("open_picker"))
  /\ Room
  /\ modals' = Push(modals, "picker", Connection(session))
  /\ appState' = "ready"
  /\ StackOnly

ConnectAbort ==
  /\ Taken(Intent("connect_abort"))
  /\ ReleaseLock(NoAttempt)
  /\ modals' = IF TopKind = "connecting" THEN Pop(modals) ELSE modals
  /\ quit' = TRUE
  /\ UNCHANGED <<boot, appState, attempt, overlap, adapterVars>>

\* Submitting /connect shows the Picker; handleSubmitIntent has looked at Running.
SlashConnect == ShowOver("picker", Connection(session)) /\ appState' = "ready"

\* A slash command that came back shows a wizard, or pops a modal with its error.
SlashWizard == ShowOver("other", NoConn) /\ appState' = "ready"
SlashError == CloseToReady

\* SetReady, as the handlers of a submission and of its result call it.
ReportReady == appState' = "ready" /\ UNCHANGED modals /\ NoMail /\ StackOnly

(****************************** specification *****************************)

KeyStep ==
  \/ \E c \in Conns : ConfirmSelection(c)
  \/ LeavePicker \/ PickerHelp \/ PaneKey \/ QuitKey
  \/ ConnectingKey \/ LockedEsc \/ LockedOtherKey \/ LockedQuit
  \/ HelpBrowse \/ HelpDismiss \/ HelpForward \/ HelpRow
  \/ OpenOther \/ CloseOther

IntentStep == ToggleHelp \/ FocusPane \/ RefusePicker \/ OpenPicker \/ ConnectAbort

ConnectStep(i) ==
  \/ PickerConnect(i)
  \/ \E c \in Conns : MidRunConnect(i, c)
  \/ \E ok \in BOOLEAN : OpenReturns(i, ok)
  \/ PickerConnectSuccess(i) \/ MidRunConnectSuccess(i)
  \/ PickerConnectFailed(i) \/ MidRunConnectFailed(i)

\* Until the startup connect is over no key reaches the Command Pane; from then on a
\* row of the help, over the startup Picker too, submits what is in it.
SlashesRun ==
  /\ boot = "done"
  /\ \A i \in Attempts : ~(Unresolved(i) /\ attempt[i].auto)

SlashStep ==
  \/ ModalSlash
  \/ SlashesRun /\ (SlashConnect \/ SlashWizard \/ SlashError \/ ReportReady)

SNext ==
  \/ PickerInit
  \/ KeyStep
  \/ IntentStep
  \/ SlashStep
  \/ \E i \in Attempts : ConnectStep(i)

SSpec == SInit /\ [][SNext]_svars

\* open ends with its connect timeout, and bubbletea delivers its message.
SFairness ==
  \A i \in Attempts :
    /\ WF_svars(\E ok \in BOOLEAN : OpenReturns(i, ok))
    /\ WF_svars(PickerConnectSuccess(i) \/ MidRunConnectSuccess(i))
    /\ WF_svars(PickerConnectFailed(i) \/ MidRunConnectFailed(i))

SFairSpec == SSpec /\ SFairness

(******************************* properties *******************************)

\* The Adapter of the live Session is never handed to closeAdapter, however
\* connects overlap: the old Adapter is the one that was live at their start.
LiveAdapterNeverClosed == session # NoAttempt => closes[session] = 0

\* cancelConnect is only set while its own connect has not been resolved, so the
\* keyboard is not withheld for a connect that is over.
LockHasOwner == lock # NoAttempt => Unresolved(lock)

\* A first Esc is only remembered for the connect it was typed at: the next connect
\* is not aborted by a single Esc.
AbortArmedOnlyInFlight == pendingAbort => lock # NoAttempt

\* While connects do not overlap, every open in flight can be cancelled or was, and
\* every Adapter that came out of open is live, closed once, or about to be installed.
OpenIsCancellable ==
  ~overlap => \A i \in Attempts :
    attempt[i].stage = "opening" => lock = i \/ i \in cancelled
AdaptersAccountedFor ==
  ~overlap => \A i \in Attempts :
    attempt[i].stage = "installed" => closes[i] = (IF i = session THEN 0 ELSE 1)

\* A failed switch leaves the working Session untouched (ADR 0019): the Session only
\* changes to an Adapter that open has just delivered, never to nil and never back.
SwitchIsTransactional ==
  [][session' # session =>
       \E i \in Attempts : session' = i /\ attempt[i].stage = "opened"]_svars

\* A connect in flight does not hold the keyboard for ever.
LockLifts == \A i \in Attempts : lock = i ~> lock # i \/ quit

(********************** what the documents say of it **********************)

\* StateReady means there is a live Session (ADR 0019).
ReadyHasSession == appState = "ready" => session # NoAttempt

\* The modal is not interactive while a connect is in flight (handleKeyPressMsg): no
\* second one starts, at least until the user quits.
OneOpenInFlight == overlap => quit

\* The startup Picker is the one without a Session behind it.
StartupPickerWithoutSession ==
  session # NoAttempt => \A k \in 1 .. Len(modals) : modals[k].kind # "startup_picker"

=============================================================================
