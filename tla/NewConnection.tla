---------------------------- MODULE NewConnection ----------------------------
(***************************************************************************)
(* The New Connection Wizard over the Connection Picker, the append to     *)
(* connections.toml that it asks for, the connections cache, and other     *)
(* writers of the same files (internal/app/new_connection_wizard_modal.go, *)
(* confirm_modal.go, the handlers at the end of model.go,                  *)
(* internal/config/append.go, load.go, types.go and cmd/sqlcery/main.go).  *)
(*                                                                         *)
(* The append runs beside the user, who goes on pressing keys.  What the   *)
(* user types is a member of a small set; inline error texts, the filter   *)
(* of the mode list and the fuzzy match are left out.  The wizard's own    *)
(* messages are delivered at once, the answers of the append are not.  A   *)
(* text that no later step can read before it is set again is cleared here *)
(* where the code leaves it.                                               *)
(***************************************************************************)
EXTENDS Naturals, Sequences

CONSTANTS
  Saves,         \* appends that may be asked for, by this process or another
  Locations,     \* "global" and "project": the two connections.toml
  Types,         \* database types, in the order of the list
  TypeMatches,   \* for each text of the type filter, the types it leaves
  FieldsOf,      \* wizardFieldsByType: the fields of a type, in order
  Required,      \* fields that must not be blank
  Ports,         \* port fields
  Optional,      \* fields that are omitted when empty but must not be blank: ssh_host
  DefaultOf,     \* the text a field starts with
  Texts,         \* what may be typed into a field
  PortNumbers,   \* the texts that are valid ports
  Blank,         \* the texts that are only spaces
  Empty,         \* the empty one of them
  Names,         \* what may be typed as a name; the blank ones are in Blank
  Dsns,          \* what may be typed as a connection string
  ParseOf,       \* ParseConnectionString: the Connection of each, or NoConn
  DerivedName,   \* derivedNameFromConnection, for each Connection that is parsed
  OthersNames,   \* the names another process may add
  OthersConn,    \* the Connection it adds
  NoConn, NoText

Elements(list) == {list[i] : i \in DOMAIN list}

ASSUME NewConnectionAssumptions ==
  /\ Empty \in Blank /\ Empty \in DOMAIN TypeMatches /\ Empty \in DOMAIN ParseOf
  /\ TypeMatches[Empty] = Types
  /\ \A text \in DOMAIN TypeMatches : TypeMatches[text] \in Seq(Elements(Types))
  /\ \A t \in Elements(Types) : FieldsOf[t] \in Seq(Elements(FieldsOf[t])) \ {<<>>}
  /\ Optional \cap (Required \cup Ports) = {}
  /\ PortNumbers \cap Blank = {}
  /\ Dsns \subseteq DOMAIN ParseOf

VARIABLES
  modals,      \* the modal stack
  wizard,      \* the wizard's steps and texts
  loaded,      \* names in the connections cache
  listed,      \* candidates of the Picker
  files,       \* for each location, the tables of its connections.toml, in order
  saves,       \* the appends
  reported,    \* names the success of whose save this process was told of (history)
  rushed,      \* Enter was repeated, a wizard opened during a save, or another wrote (history)
  overlapped,  \* two appends to one file ran at once (history)
  disturbed    \* an answer met something else than the wizard on top (history)

fileVars == <<files, saves>>
ghosts == <<reported, rushed, overlapped, disturbed>>
cvars == <<modals, wizard, loaded, listed, fileVars, ghosts>>

(************************** Connections and files *************************)

Entry(name, conn) == [name |-> name, conn |-> conn]
NamesIn(file) == {file[i].name : i \in DOMAIN file}
AllNames == UNION {NamesIn(files[l]) : l \in Locations}

\* What Connection.Validate asks of every type but the blank SSH host.
Complete(conn) ==
  /\ \A f \in DOMAIN conn.values \cap Required : conn.values[f] \notin Blank
  /\ \A f \in DOMAIN conn.values \cap Ports : conn.values[f] \in PortNumbers
BlankOptional(conn) ==
  \E f \in DOMAIN conn.values \cap Optional : conn.values[f] \in Blank \ {Empty}

\* ParseConnectionString returns what Validate accepts; another sqlcery asks what this one asks.
ASSUME OutsideConnections ==
  /\ \A d \in DOMAIN ParseOf : ParseOf[d] # NoConn => Complete(ParseOf[d]) /\ ~BlankOptional(ParseOf[d])
  /\ Complete(OthersConn)

\* TOML refuses a table defined twice, Connections.Validate every other fault.
DefinedOnce(file) == \A i, j \in DOMAIN file : file[i].name = file[j].name => i = j
Valid(conn) == Complete(conn) /\ ~BlankOptional(conn)
Loads(file) == DefinedOnce(file) /\ \A i \in DOMAIN file : Valid(file[i].conn)
FilesLoad == \A l \in Locations : Loads(files[l])

(******************************* the wizard *******************************)

TopModal == IF modals = <<>> THEN "none" ELSE modals[Len(modals)]
Pop(stack) == IF stack = <<>> THEN stack ELSE SubSeq(stack, 1, Len(stack) - 1)

\* selectedTypeName is recomputed from the filter and the selection whenever it is needed.
Filtered == TypeMatches[wizard.filter]
SelectedType == Filtered[wizard.selected]
Fields == FieldsOf[SelectedType]
Field == Fields[wizard.index]

NoValues == [f \in {} |-> NoText]
Fresh == [step |-> "mode", mode |-> "none", name |-> Empty, filter |-> Empty, selected |-> 1,
          index |-> 1, values |-> NoValues, value |-> Empty,
          dsn |-> Empty, conn |-> NoConn, dsnName |-> Empty, location |-> "global",
          taken |-> {}, submitted |-> FALSE]

\* A key reaches the wizard when it is on top and at the step.
At(step) == TopModal = "wizard" /\ wizard.step = step
Typing == UNCHANGED <<modals, loaded, listed, fileVars, ghosts>>

ChooseMode ==
  /\ At("mode")
  /\ \/ wizard' = [wizard EXCEPT !.mode = "dsn", !.step = "dsn"]
     \/ wizard' = [wizard EXCEPT !.mode = "step-by-step", !.step = "name"]
  /\ Typing

EditName ==
  /\ At("name")
  /\ \E n \in Names : wizard' = [wizard EXCEPT !.name = n]
  /\ Typing

\* validateName: not blank, and not a name of the cache when the wizard was opened.
Acceptable(n) == n \notin Blank \cup wizard.taken

ConfirmName ==
  /\ At("name") /\ Acceptable(wizard.name)
  /\ wizard' = [wizard EXCEPT !.step = "type", !.filter = Empty, !.selected = 1]
  /\ Typing

FilterTypes ==
  /\ At("type")
  /\ \E text \in DOMAIN TypeMatches : wizard' = [wizard EXCEPT !.filter = text, !.selected = 1]
  /\ Typing

SelectType ==
  /\ At("type")
  /\ \E i \in DOMAIN Filtered : wizard' = [wizard EXCEPT !.selected = i]
  /\ Typing

ConfirmType ==
  /\ At("type") /\ Filtered # <<>>
  /\ wizard' = [wizard EXCEPT !.step = "field", !.index = 1, !.values = NoValues,
                              !.value = DefaultOf[Fields[1]]]
  /\ Typing

EditField ==
  /\ At("field")
  /\ \E text \in Texts : wizard' = [wizard EXCEPT !.value = text]
  /\ Typing

\* Variant: only the fields with a default are checked.
AcceptableValueIfPort(f, v) == f \in Ports => v \in PortNumbers

\* confirmField validates the field it leaves.
AcceptableValue(f, v) == IF f \in Ports THEN v \in PortNumbers ELSE f \in Required => v \notin Blank

Committed == [f \in DOMAIN wizard.values \cup {Field} |->
                IF f = Field THEN wizard.value ELSE wizard.values[f]]

\* A field reached again starts from its default, whatever was committed before.
ConfirmField ==
  /\ At("field") /\ AcceptableValue(Field, wizard.value)
  /\ wizard' = IF wizard.index < Len(Fields)
               THEN [wizard EXCEPT !.values = Committed, !.index = @ + 1,
                                   !.value = DefaultOf[Fields[wizard.index + 1]]]
               ELSE [wizard EXCEPT !.values = Committed, !.value = Empty, !.step = "save"]
  /\ Typing

EditDsn ==
  /\ At("dsn")
  /\ \E d \in Dsns : wizard' = [wizard EXCEPT !.dsn = d]
  /\ Typing

ConfirmDsn ==
  /\ At("dsn") /\ ParseOf[wizard.dsn] # NoConn
  /\ wizard' = [wizard EXCEPT !.conn = ParseOf[wizard.dsn], !.dsnName = DerivedName[ParseOf[wizard.dsn]],
                              !.step = "save"]
  /\ Typing

EditDsnName ==
  /\ At("save") /\ wizard.mode = "dsn"
  /\ \E n \in Names : wizard' = [wizard EXCEPT !.dsnName = n]
  /\ Typing

\* By keys, the wheel or a click on one of the last two lines.
SelectLocation ==
  /\ At("save")
  /\ \E l \in Locations : wizard' = [wizard EXCEPT !.location = l]
  /\ Typing

\* Back at a list, what was entered after it is gone; only the connection string stays.
AtMode == [Fresh EXCEPT !.dsn = wizard.dsn, !.location = wizard.location,
                        !.taken = wizard.taken, !.submitted = wizard.submitted]
AtType == [wizard EXCEPT !.step = "type", !.index = 1, !.values = NoValues, !.value = Empty]

\* A field reached backwards shows the value committed for it.
AtField(i) == [wizard EXCEPT !.step = "field", !.index = i, !.value = wizard.values[Fields[i]]]

\* Esc goes back one step, and clears the filter first.
EscBack ==
  CASE wizard.step \in {"name", "dsn"} -> AtMode
    [] wizard.step = "type" /\ wizard.filter \notin Blank -> [wizard EXCEPT !.filter = Empty, !.selected = 1]
    [] wizard.step = "type" /\ wizard.filter \in Blank -> [wizard EXCEPT !.step = "name", !.selected = 1]
    [] wizard.step = "field" -> IF wizard.index > 1 THEN AtField(wizard.index - 1) ELSE AtType
    [] wizard.step = "save" -> IF wizard.mode = "dsn"
                               THEN [wizard EXCEPT !.step = "dsn", !.conn = NoConn, !.dsnName = Empty]
                               ELSE AtField(Len(Fields))

PressEsc ==
  /\ TopModal = "wizard" /\ wizard.step # "mode"
  /\ wizard' = EscBack
  /\ Typing

InFlight(s) == saves[s].stage \in {"asked", "read", "written", "failed"}

(************************** the modals around it **************************)

\* A wizard that is closed is gone with its texts.
KeptIn(stack) == IF \E i \in DOMAIN stack : stack[i] = "wizard" THEN wizard ELSE Fresh

OnlyModals == UNCHANGED <<wizard, loaded, fileVars, ghosts>>

OpenPicker ==
  /\ modals = <<>>
  /\ modals' = <<"picker">> /\ listed' = loaded
  /\ OnlyModals

ClosePicker ==
  /\ TopModal = "picker"
  /\ modals' = Pop(modals)
  /\ UNCHANGED listed /\ OnlyModals

\* handleOpenNewConnectionWizard takes a snapshot of the cache for the name check.
OpenWizard ==
  /\ TopModal = "picker"
  /\ modals' = Append(modals, "wizard")
  /\ wizard' = [Fresh EXCEPT !.taken = loaded]
  /\ rushed' = (rushed \/ \E s \in Saves : InFlight(s))
  /\ UNCHANGED <<loaded, listed, fileVars, reported, overlapped, disturbed>>

\* ctrl+c anywhere, Esc at the first step: "Discard new connection?"
AskDiscard ==
  /\ TopModal = "wizard"
  /\ modals' = Append(modals, "confirm")
  /\ UNCHANGED listed /\ OnlyModals

\* No closes the question; Yes closes it and then what is under it.
AnswerDiscard ==
  /\ TopModal = "confirm"
  /\ modals' \in {Pop(modals), Pop(Pop(modals))}
  /\ wizard' = KeptIn(modals')
  /\ UNCHANGED <<loaded, listed, fileVars, ghosts>>

ToggleHelp ==
  /\ TopModal \in {"wizard", "help"}
  /\ modals' = IF TopModal = "help" THEN Pop(modals) ELSE Append(modals, "help")
  /\ UNCHANGED listed /\ OnlyModals

(************************** saving a Connection ***************************)

Free == [stage |-> "free", own |-> FALSE, name |-> Empty, conn |-> NoConn,
         location |-> "global", existing |-> <<>>]
Asked(own, name, conn, l) ==
  [stage |-> "asked", own |-> own, name |-> name, conn |-> conn, location |-> l, existing |-> <<>>]

\* buildConnection, or the parsed connection string.
SavedConn ==
  IF wizard.mode = "dsn" THEN wizard.conn
  ELSE [type |-> SelectedType,
        values |-> [f \in {Fields[i] : i \in DOMAIN Fields} |->
                      IF f \in DOMAIN wizard.values THEN wizard.values[f] ELSE Empty]]
SavedName == IF wizard.mode = "dsn" THEN wizard.dsnName ELSE wizard.name

\* submitSaveLocation and handleWriteConnection: the DSN name is validated now, a name
\* of the other mode was validated at its step.  Enter is not withheld while the
\* answer is awaited.
Submit ==
  /\ At("save")
  /\ wizard.mode = "dsn" => Acceptable(wizard.dsnName)
  /\ \E s \in Saves :
       /\ saves[s].stage = "free"
       /\ saves' = [saves EXCEPT ![s] = Asked(TRUE, SavedName, SavedConn, wizard.location)]
  /\ wizard' = [wizard EXCEPT !.submitted = TRUE]
  /\ rushed' = (rushed \/ wizard.submitted \/ \E s \in Saves : InFlight(s))
  /\ UNCHANGED <<modals, loaded, listed, files, reported, overlapped, disturbed>>

\* Another sqlcery saves a Connection, under a name its own cache does not hold.
OtherProcessSaves ==
  /\ \E s \in Saves, n \in OthersNames, l \in Locations :
       /\ saves[s].stage = "free" /\ n \notin AllNames
       /\ saves' = [saves EXCEPT ![s] = Asked(FALSE, n, OthersConn, l)]
  /\ rushed' = TRUE
  /\ UNCHANGED <<modals, wizard, loaded, listed, files, reported, overlapped, disturbed>>

Appending == UNCHANGED <<modals, wizard, loaded, listed, reported, rushed, disturbed>>

ReadFile(s) ==
  /\ saves[s].stage = "asked"
  /\ saves' = [saves EXCEPT ![s].stage = "read", ![s].existing = files[saves[s].location]]
  /\ overlapped' = (overlapped \/ \E t \in Saves \ {s} :
                      saves[t].stage = "read" /\ saves[t].location = saves[s].location)
  /\ UNCHANGED files /\ Appending

\* Variant: the file is opened with O_TRUNC and written anew.
WithTableAlone(s) == <<Entry(saves[s].name, saves[s].conn)>>

\* What was there is kept and the new table comes last.
WithTable(s) == Append(saves[s].existing, Entry(saves[s].name, saves[s].conn))

\* The rename puts the whole new content in place.
RenameFile(s) ==
  /\ saves[s].stage = "read"
  /\ files' = [files EXCEPT ![saves[s].location] = WithTable(s)]
  /\ saves' = [saves EXCEPT ![s].stage = "written", ![s].existing = <<>>]
  /\ UNCHANGED overlapped /\ Appending

\* Reading, creating, writing, syncing or renaming fails: the file stays as it was.
AppendFails(s) ==
  /\ saves[s].stage \in {"asked", "read"}
  /\ saves' = [saves EXCEPT ![s].stage = "failed", ![s].existing = <<>>]
  /\ UNCHANGED <<files, overlapped>> /\ Appending

\* Variant: the cache is not reloaded.
ReloadedNever == loaded

\* LoadConnections replaces the cache, or fails and keeps it.
Reloaded == IF FilesLoad THEN AllNames ELSE loaded

\* handleWriteConnectionSuccess closes whatever modal is on top, and rebuilds the Picker
\* when that is what comes to light and the reload did not fail.
SaveSucceeded(s) ==
  /\ saves[s].stage = "written"
  /\ saves' = [saves EXCEPT ![s] = [Free EXCEPT !.stage = "done"]]
  /\ reported' = reported \cup (IF saves[s].own THEN {saves[s].name} ELSE {})
  /\ IF saves[s].own
     THEN /\ modals' = Pop(modals) /\ wizard' = KeptIn(Pop(modals))
          /\ loaded' = Reloaded
          /\ listed' = IF FilesLoad /\ Pop(modals) # <<>> /\ Pop(modals)[Len(Pop(modals))] = "picker"
                       THEN Reloaded ELSE listed
          /\ disturbed' = (disturbed \/ TopModal # "wizard" \/ ~wizard.submitted)
     ELSE UNCHANGED <<modals, wizard, loaded, listed, disturbed>>
  /\ UNCHANGED <<files, rushed, overlapped>>

\* handleWriteConnectionFailed leaves the wizard open; it may be submitted again.
SaveFailed(s) ==
  /\ saves[s].stage = "failed"
  /\ saves' = [saves EXCEPT ![s] = [Free EXCEPT !.stage = "lost"]]
  /\ wizard' = [wizard EXCEPT !.submitted = wizard.submitted /\ ~saves[s].own]
  /\ UNCHANGED <<modals, loaded, listed, files, ghosts>>

\* The program ends, its appends where they are, and is started again: it must load the files.
Restart ==
  /\ FilesLoad
  /\ saves' = [s \in Saves |->
                 IF saves[s].own /\ InFlight(s) THEN [Free EXCEPT !.stage = "lost"] ELSE saves[s]]
  /\ modals' = <<"picker">>
  /\ wizard' = Fresh
  /\ loaded' = AllNames /\ listed' = AllNames
  /\ UNCHANGED <<files, ghosts>>

(****************************** specification *****************************)

CInit ==
  /\ modals = <<"picker">>
  /\ wizard = Fresh
  /\ loaded = {} /\ listed = {}
  /\ files = [l \in Locations |-> <<>>]
  /\ saves = [s \in Saves |-> Free]
  /\ reported = {} /\ rushed = FALSE /\ overlapped = FALSE /\ disturbed = FALSE

WizardKey ==
  \/ ChooseMode \/ EditName \/ ConfirmName
  \/ FilterTypes \/ SelectType \/ ConfirmType \/ EditField \/ ConfirmField
  \/ EditDsn \/ ConfirmDsn \/ EditDsnName \/ SelectLocation \/ PressEsc
ModalKey == OpenPicker \/ ClosePicker \/ OpenWizard \/ AskDiscard \/ AnswerDiscard \/ ToggleHelp
SaveStep(s) == ReadFile(s) \/ RenameFile(s) \/ AppendFails(s) \/ SaveSucceeded(s) \/ SaveFailed(s)

CNext ==
  \/ WizardKey \/ ModalKey
  \/ Submit \/ OtherProcessSaves \/ Restart
  \/ \E s \in Saves : SaveStep(s)

CSpec == CInit /\ [][CNext]_cvars

(******************************* properties *******************************)

\* The type of every variable, and the steps the wizard can be in.
CTypeOK ==
  /\ modals \in UNION {[1 .. n -> {"picker", "wizard", "confirm", "help"}] : n \in 0 .. 3}
  /\ wizard.step \in {"mode", "name", "type", "field", "dsn", "save"}
  /\ wizard.step = "field" => Filtered # <<>> /\ wizard.index \in DOMAIN Fields
  /\ loaded \cup listed \cup reported \subseteq Names \cup OthersNames \cup {DerivedName[c] : c \in DOMAIN DerivedName}
  /\ \A s \in Saves : saves[s].stage \in {"free", "asked", "read", "written", "failed", "done", "lost"}

\* Whatever way the steps were gone forth and back and the types and filters changed on
\* the way, what is saved has every field its type needs, as Connection.Validate asks;
\* a file with one incomplete table cannot be loaded and keeps the program from
\* starting (main.go:55).
SavedIsComplete == \A s \in Saves : InFlight(s) => Complete(saves[s].conn)

\* A name is defined twice in a file only after Enter was pressed on a wizard that had
\* already asked for its save, a wizard was opened while a save was under way, or another
\* process wrote, or when a blank SSH host keeps the cache from being reloaded: the snapshot
\* the name is checked against is fresh enough otherwise.
DuplicatesNeedHaste ==
  \/ rushed
  \/ \A l \in Locations : DefinedOnce(files[l])
  \/ \E l \in Locations : \E i \in DOMAIN files[l] : BlankOptional(files[l][i].conn)

\* An append never takes a table away, through failures and restarts, unless two
\* appends read the same file one before the other's rename (append.go:80).
SavesKeepTables ==
  [][\A l \in Locations : overlapped \/ \A i \in DOMAIN files[l] :
       i \in DOMAIN files'[l] /\ files'[l][i] = files[l][i]]_cvars

\* The Picker lists the Connections that were saved and reported, unless an answer met
\* something else than the wizard that asked for it or the files do not load.
PickerListsSaved ==
  TopModal = "picker" =>
    \/ disturbed \/ rushed \/ ~FilesLoad
    \/ reported \subseteq listed

\* docs/adr/0020-connection-toml-append-write-strategy.md:73 "The wizard's name-collision
\* check (against the loaded `Connections`) runs *before* the write, guaranteeing no
\* duplicate `[connection.<name>]` table is appended."
NoDuplicateTable == \A l \in Locations : DefinedOnce(files[l])

=============================================================================
