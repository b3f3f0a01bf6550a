------------------------- MODULE NewConnectionProofs -------------------------
(***************************************************************************)
(* Appends to connections.toml keep the tables that are there, for any     *)
(* number of appends, files, names and Connections.                        *)
(***************************************************************************)
EXTENDS NewConnection, SequenceTheorems, TLAPS

(****************************** the invariant *****************************)

\* What an append knows of itself.
AppendRecords(names, conns, places, contents) ==
  [stage : {"free", "asked", "read", "written", "failed", "done", "lost"}, own : BOOLEAN,
   name : names, conn : conns, location : places, existing : contents]

\* Files are sequences, of whatever tables, and the appends are records, of whatever they hold.
FileTypes ==
  \E tables, names, conns, places, contents :
    /\ files \in [Locations -> Seq(tables)]
    /\ saves \in [Saves -> AppendRecords(names, conns, places, contents)]

\* Who has read a file has read what is in it still, and no one else has.
ReadIsFresh ==
  \A s \in Saves :
    saves[s].stage = "read" =>
      /\ saves[s].location \in Locations => saves[s].existing = files[saves[s].location]
      /\ \A t \in Saves \ {s} :
           saves[t].stage = "read" => saves[t].location # saves[s].location

FileInv == ~overlapped => FileTypes /\ ReadIsFresh

LEMMA SeqGrows ==
  ASSUME NEW S, NEW e, NEW q \in Seq(S)
  PROVE  q \in Seq(S \cup {e})
BY SeqDef

(******************************** the steps *******************************)

LEMMA FileInit == CInit => FileInv
<1> SUFFICES ASSUME CInit PROVE FileInv
  OBVIOUS
<1>1. files \in [Locations -> Seq({})]
  BY DEF CInit
<1>2. saves \in [Saves -> AppendRecords({Empty}, {NoConn}, {"global"}, {<<>>})]
  BY DEF CInit, Free, AppendRecords
<1>3. ReadIsFresh
  BY DEF CInit, Free, ReadIsFresh
<1> QED BY <1>1, <1>2, <1>3 DEF FileInv, FileTypes

LEMMA FilesUntouched ==
  ASSUME FileInv, UNCHANGED fileVars, UNCHANGED overlapped
  PROVE  FileInv'
BY DEF FileInv, FileTypes, ReadIsFresh, fileVars, AppendRecords

\* An append that changes its stage and has not read.
LEMMA NotReading ==
  ASSUME FileInv, NEW s \in Saves, NEW r,
         saves' = [saves EXCEPT ![s] = r], UNCHANGED <<files, overlapped>>,
         NEW names, NEW conns, NEW places, NEW contents, r \in AppendRecords(names, conns, places, contents),
         r.stage # "read"
  PROVE  FileInv'
<1> SUFFICES ASSUME ~overlapped' PROVE FileTypes' /\ ReadIsFresh'
  BY DEF FileInv
<1>a. ~overlapped /\ FileTypes /\ ReadIsFresh
  BY DEF FileInv
<1>1. PICK T, N, C, L, E : /\ files \in [Locations -> Seq(T)]
                           /\ saves \in [Saves -> AppendRecords(N, C, L, E)]
  BY <1>a DEF FileTypes
<1>2. saves' \in [Saves -> AppendRecords(N \cup names, C \cup conns, L \cup places, E \cup contents)]
  <2>1. AppendRecords(N, C, L, E) \subseteq AppendRecords(N \cup names, C \cup conns, L \cup places, E \cup contents)
    BY DEF AppendRecords
  <2>2. r \in AppendRecords(N \cup names, C \cup conns, L \cup places, E \cup contents)
    BY DEF AppendRecords
  <2> QED BY <1>1, <2>1, <2>2
<1>3. FileTypes'
  BY <1>1, <1>2 DEF FileTypes
<1>4. ReadIsFresh'
  BY <1>1, <1>a DEF ReadIsFresh
<1> QED BY <1>3, <1>4

LEMMA AppendSteps ==
  ASSUME FileInv, NEW s \in Saves, SaveStep(s)
  PROVE  FileInv'
<1> SUFFICES ASSUME ~overlapped' PROVE FileTypes' /\ ReadIsFresh'
  BY DEF FileInv
<1>b. ~overlapped
  BY DEF SaveStep, ReadFile, RenameFile, AppendFails, SaveSucceeded, SaveFailed, ghosts
<1>a. ~overlapped /\ FileTypes /\ ReadIsFresh
  BY <1>b DEF FileInv
<1>1. PICK T, N, C, L, E : /\ files \in [Locations -> Seq(T)]
                           /\ saves \in [Saves -> AppendRecords(N, C, L, E)]
  BY <1>a DEF FileTypes
<1>2. CASE ReadFile(s)
  <2> DEFINE r == [saves[s] EXCEPT !.stage = "read", !.existing = files[saves[s].location]]
  <2>1. saves' = [saves EXCEPT ![s] = r] /\ files' = files
    BY <1>1, <1>2 DEF ReadFile
  <2>2. FileTypes'
    <3>1. r \in AppendRecords(N, C, L, E \cup {files[saves[s].location]})
      BY <1>1 DEF AppendRecords
    <3>2. AppendRecords(N, C, L, E) \subseteq AppendRecords(N, C, L, E \cup {files[saves[s].location]})
      BY DEF AppendRecords
    <3>3. saves' \in [Saves -> AppendRecords(N, C, L, E \cup {files[saves[s].location]})]
      BY <1>1, <2>1, <3>1, <3>2
    <3> QED BY <1>1, <2>1, <3>3 DEF FileTypes
  <2>3. ReadIsFresh'
    <3>1. \A t \in Saves \ {s} : saves[t].stage = "read" => saves[t].location # saves[s].location
      BY <1>2 DEF ReadFile
    <3>2. /\ saves'[s].stage = "read" /\ saves'[s].location = saves[s].location
          /\ saves'[s].existing = files[saves[s].location]
          /\ \A t \in Saves \ {s} : saves'[t] = saves[t]
      BY <1>1, <2>1 DEF AppendRecords
    <3> QED BY <1>a, <2>1, <3>1, <3>2 DEF ReadIsFresh
  <2> QED BY <2>2, <2>3
<1>3. CASE RenameFile(s)
  <2> DEFINE r == [saves[s] EXCEPT !.stage = "written", !.existing = <<>>]
             l == saves[s].location
             e == Entry(saves[s].name, saves[s].conn)
  <2>1. /\ saves' = [saves EXCEPT ![s] = r] /\ files' = [files EXCEPT ![l] = WithTable(s)]
        /\ saves[s].stage = "read"
    BY <1>1, <1>3 DEF RenameFile
  <2>2. r \in AppendRecords(N, C, L, E \cup {<<>>})
    BY <1>1 DEF AppendRecords
  <2>3. AppendRecords(N, C, L, E) \subseteq AppendRecords(N, C, L, E \cup {<<>>})
    BY DEF AppendRecords
  <2>4. saves' \in [Saves -> AppendRecords(N, C, L, E \cup {<<>>})]
    BY <1>1, <2>1, <2>2, <2>3
  <2>5. files' \in [Locations -> Seq(T \cup {e})]
    <3>1. \A m \in Locations : files[m] \in Seq(T \cup {e})
      BY <1>1, SeqGrows
    <3>2. l \in Locations => WithTable(s) = Append(files[l], e)
      BY <1>a, <2>1 DEF ReadIsFresh, WithTable
    <3>3. l \in Locations => WithTable(s) \in Seq(T \cup {e})
      BY <3>1, <3>2
    <3> QED BY <1>1, <2>1, <3>1, <3>3
  <2>6. FileTypes'
    BY <2>4, <2>5 DEF FileTypes
  <2>7. ReadIsFresh'
    <3>1. saves'[s].stage = "written" /\ \A t \in Saves \ {s} : saves'[t] = saves[t]
      BY <1>1, <2>1 DEF AppendRecords
    <3>2. ASSUME NEW t \in Saves \ {s}, saves[t].stage = "read", saves[t].location \in Locations
          PROVE  files'[saves[t].location] = files[saves[t].location]
      <4>1. saves[t].location # l
        BY <1>a, <2>1, <3>2 DEF ReadIsFresh
      <4> QED BY <1>1, <2>1, <3>2, <4>1
    <3> QED BY <1>a, <3>1, <3>2 DEF ReadIsFresh
  <2> QED BY <2>6, <2>7
<1>4. CASE AppendFails(s)
  <2> DEFINE r == [saves[s] EXCEPT !.stage = "failed", !.existing = <<>>]
  <2>1. saves' = [saves EXCEPT ![s] = r] /\ UNCHANGED <<files, overlapped>>
    BY <1>1, <1>4 DEF AppendFails
  <2>2. r \in AppendRecords(N, C, L, {<<>>}) /\ r.stage # "read"
    BY <1>1 DEF AppendRecords
  <2> HIDE DEF r
  <2>3. FileInv'
    BY <2>1, <2>2, NotReading
  <2> QED BY <2>3 DEF FileInv
<1>5. CASE SaveSucceeded(s) \/ SaveFailed(s)
  <2>1. PICK stage \in {"done", "lost"} : saves' = [saves EXCEPT ![s] = [Free EXCEPT !.stage = stage]]
    BY <1>5 DEF SaveSucceeded, SaveFailed
  <2>2. UNCHANGED <<files, overlapped>>
    BY <1>5 DEF SaveSucceeded, SaveFailed, ghosts
  <2> DEFINE r == [Free EXCEPT !.stage = stage]
  <2>3. r \in AppendRecords({Empty}, {NoConn}, {"global"}, {<<>>}) /\ r.stage # "read"
    BY DEF AppendRecords, Free
  <2> HIDE DEF r
  <2>4. FileInv'
    BY <2>1, <2>2, <2>3, NotReading DEF r
  <2> QED BY <2>4 DEF FileInv
<1> QED BY <1>2, <1>3, <1>4, <1>5 DEF SaveStep

\* A save that is asked for adds a record and touches no file.
LEMMA AskedStep ==
  ASSUME FileInv, UNCHANGED <<files, overlapped>>,
         NEW s \in Saves, NEW own \in BOOLEAN, NEW n, NEW c, NEW l,
         saves' = [saves EXCEPT ![s] = Asked(own, n, c, l)]
  PROVE  FileInv'
<1> DEFINE r == Asked(own, n, c, l)
<1>1. r \in AppendRecords({n}, {c}, {l}, {<<>>}) /\ r.stage # "read"
  BY DEF AppendRecords, Asked
<1> HIDE DEF r
<1> QED BY <1>1, NotReading DEF r

LEMMA AskSteps ==
  ASSUME FileInv, Submit \/ OtherProcessSaves
  PROVE  FileInv'
<1>1. UNCHANGED <<files, overlapped>>
  BY DEF Submit, OtherProcessSaves
<1>2. CASE Submit
  <2>1. PICK s \in Saves :
          saves' = [saves EXCEPT ![s] = Asked(TRUE, SavedName, SavedConn, wizard.location)]
    BY <1>2 DEF Submit
  <2> QED BY <1>1, <2>1, AskedStep
<1>3. CASE OtherProcessSaves
  <2>1. PICK s \in Saves, n \in OthersNames, l \in Locations :
          saves' = [saves EXCEPT ![s] = Asked(FALSE, n, OthersConn, l)]
    BY <1>3 DEF OtherProcessSaves
  <2> QED BY <1>1, <2>1, AskedStep
<1> QED BY <1>2, <1>3

LEMMA RestartStep ==
  ASSUME FileInv, Restart
  PROVE  FileInv'
<1> SUFFICES ASSUME ~overlapped' PROVE FileTypes' /\ ReadIsFresh'
  BY DEF FileInv
<1>1. ~overlapped /\ FileTypes /\ ReadIsFresh /\ files' = files
  BY DEF FileInv, Restart, ghosts
<1>2. PICK T, N, C, L, E : /\ files \in [Locations -> Seq(T)]
                           /\ saves \in [Saves -> AppendRecords(N, C, L, E)]
  BY <1>1 DEF FileTypes
<1> DEFINE lost == [Free EXCEPT !.stage = "lost"]
<1>3. saves' = [s \in Saves |-> IF saves[s].own /\ InFlight(s) THEN lost ELSE saves[s]]
  BY DEF Restart
<1>4. lost \in AppendRecords(N \cup {Empty}, C \cup {NoConn}, L \cup {"global"}, E \cup {<<>>})
      /\ lost.stage # "read"
  BY DEF AppendRecords, Free
<1>5. AppendRecords(N, C, L, E) \subseteq AppendRecords(N \cup {Empty}, C \cup {NoConn}, L \cup {"global"}, E \cup {<<>>})
  BY DEF AppendRecords
<1> HIDE DEF lost
<1>6. saves' \in [Saves -> AppendRecords(N \cup {Empty}, C \cup {NoConn}, L \cup {"global"}, E \cup {<<>>})]
  BY <1>2, <1>3, <1>4, <1>5
<1>7. FileTypes'
  BY <1>1, <1>2, <1>6 DEF FileTypes
<1>8. \A s \in Saves : saves'[s].stage = "read" => saves'[s] = saves[s]
  BY <1>3, <1>4
<1>9. ReadIsFresh'
  BY <1>1, <1>8 DEF ReadIsFresh
<1> QED BY <1>7, <1>9

LEMMA FileStep == FileInv /\ [CNext]_cvars => FileInv'
<1> SUFFICES ASSUME FileInv, [CNext]_cvars PROVE FileInv'
  OBVIOUS
<1>1. CASE WizardKey
  BY <1>1, FilesUntouched
     DEF WizardKey, Typing, ghosts, ChooseMode, EditName, ConfirmName, FilterTypes, SelectType, ConfirmType,
         EditField, ConfirmField, EditDsn, ConfirmDsn, EditDsnName, SelectLocation, PressEsc
<1>2. CASE ModalKey
  BY <1>2, FilesUntouched
     DEF ModalKey, OnlyModals, ghosts, OpenPicker, ClosePicker, OpenWizard, AskDiscard, AnswerDiscard, ToggleHelp
<1>3. CASE UNCHANGED cvars
  BY <1>3, FilesUntouched DEF cvars, ghosts
<1> QED BY <1>1, <1>2, <1>3, AskSteps, RestartStep, AppendSteps DEF CNext

LEMMA FileInvariant == CSpec => []FileInv
BY FileInit, FileStep, PTL DEF CSpec

(****************************** tables are kept ***************************)

LEMMA StepKeepsTables ==
  ASSUME FileInv, CNext, NEW l \in Locations, ~overlapped, NEW i \in DOMAIN files[l]
  PROVE  i \in DOMAIN files'[l] /\ files'[l][i] = files[l][i]
<1>1. CASE files' = files
  BY <1>1
<1>2. ASSUME NEW s \in Saves, RenameFile(s)
      PROVE  i \in DOMAIN files'[l] /\ files'[l][i] = files[l][i]
  <2>1. PICK T : files \in [Locations -> Seq(T)]
    BY DEF FileInv, FileTypes
  <2>2. files' = [files EXCEPT ![saves[s].location] = WithTable(s)] /\ saves[s].stage = "read"
    BY <1>2 DEF RenameFile
  <2>3. CASE saves[s].location # l
    BY <2>1, <2>2, <2>3
  <2>4. CASE saves[s].location = l
    <3> DEFINE e == Entry(saves[s].name, saves[s].conn)
    <3>1. files'[l] = Append(files[l], e)
      BY <2>1, <2>2, <2>4 DEF FileInv, ReadIsFresh, WithTable
    <3>2. files[l] \in Seq(T \cup {e}) /\ e \in T \cup {e}
      BY <2>1, SeqGrows
    <3> HIDE DEF e
    <3> QED BY <3>1, <3>2
  <2> QED BY <2>3, <2>4
<1>3. CASE WizardKey \/ ModalKey
  BY <1>1, <1>3
   DEF WizardKey, ModalKey, OnlyModals, Typing, fileVars, ChooseMode, EditName, ConfirmName, FilterTypes,
       SelectType, ConfirmType, EditField, ConfirmField, EditDsn, ConfirmDsn, EditDsnName, SelectLocation,
       PressEsc, OpenPicker, ClosePicker, OpenWizard, AskDiscard, AnswerDiscard, ToggleHelp
<1>4. CASE Submit \/ OtherProcessSaves \/ Restart
  BY <1>1, <1>4 DEF Submit, OtherProcessSaves, Restart
<1>5. ASSUME NEW s \in Saves, SaveStep(s), ~RenameFile(s)
      PROVE  files' = files
  BY <1>5 DEF SaveStep, ReadFile, AppendFails, SaveSucceeded, SaveFailed
<1> QED BY <1>1, <1>2, <1>3, <1>4, <1>5 DEF CNext

\* No table of a connections.toml is dropped or changed, by appends of any process, their failures or
\* restarts, until two appends to one file have overlapped (AppendConnection).
THEOREM TablesAreKept == CSpec => SavesKeepTables
<1> DEFINE Kept == \A l \in Locations : overlapped \/ \A i \in DOMAIN files[l] :
                     i \in DOMAIN files'[l] /\ files'[l][i] = files[l][i]
<1>1. FileInv /\ [CNext]_cvars => [Kept]_cvars
  BY StepKeepsTables
<1>2. CSpec => [][Kept]_cvars
  BY <1>1, FileInvariant, PTL DEF CSpec
<1> QED BY <1>2 DEF SavesKeepTables

(************************* complete Connections ***************************)

WizardFields == {"step", "mode", "name", "filter", "selected", "index", "values", "value", "dsn",
                 "conn", "dsnName", "location", "taken", "submitted"}
SaveFields == {"stage", "own", "name", "conn", "location", "existing"}

\* The first n fields of the type have been committed, each with a value it accepts.
CommittedUpTo(n) ==
  \A i \in 1 .. n : /\ Fields[i] \in DOMAIN wizard.values
                    /\ AcceptableValue(Fields[i], wizard.values[Fields[i]])

\* What the wizard has gathered at each of its steps.
WizardInv ==
  /\ DOMAIN wizard = WizardFields
  /\ wizard.step \in {"mode", "name", "type", "field", "dsn", "save"}
  /\ wizard.filter \in DOMAIN TypeMatches
  /\ wizard.dsn \in DOMAIN ParseOf
  /\ wizard.step = "dsn" => wizard.mode = "dsn"
  /\ wizard.step \in {"name", "type", "field"} => wizard.mode # "dsn"
  /\ wizard.step = "type" => Filtered = <<>> \/ wizard.selected \in DOMAIN Filtered
  /\ wizard.step = "field" => /\ wizard.selected \in DOMAIN Filtered
                              /\ wizard.index \in DOMAIN Fields
                              /\ CommittedUpTo(wizard.index - 1)
  /\ wizard.step = "save" /\ wizard.mode # "dsn" => /\ wizard.selected \in DOMAIN Filtered
                                                    /\ CommittedUpTo(Len(Fields))
  /\ wizard.step = "save" /\ wizard.mode = "dsn" => Complete(wizard.conn)

SavesInv ==
  /\ DOMAIN saves = Saves
  /\ \A s \in Saves : DOMAIN saves[s] = SaveFields /\ (InFlight(s) => Complete(saves[s].conn))

CompleteInv == WizardInv /\ SavesInv

LEMMA FieldsAreASequence ==
  ASSUME wizard.filter \in DOMAIN TypeMatches, wizard.selected \in DOMAIN Filtered
  PROVE  Fields \in Seq(Elements(Fields)) /\ Len(Fields) \in Nat /\ Len(Fields) > 0
         /\ DOMAIN Fields = 1 .. Len(Fields)
<1>1. Filtered \in Seq(Elements(Types))
  BY NewConnectionAssumptions DEF Filtered
<1>2. SelectedType \in Elements(Types)
  BY <1>1 DEF SelectedType
<1>3. Fields \in Seq(Elements(Fields)) /\ Fields # <<>>
  BY <1>2, NewConnectionAssumptions DEF Fields
<1> QED BY <1>3

LEMMA FilteredIsASequence ==
  ASSUME wizard.filter \in DOMAIN TypeMatches
  PROVE  Filtered = <<>> \/ 1 \in DOMAIN Filtered
<1>1. Filtered \in Seq(Elements(Types))
  BY NewConnectionAssumptions DEF Filtered
<1> QED BY <1>1

LEMMA FreshWizard ==
  /\ DOMAIN Fresh = WizardFields /\ Fresh.step = "mode" /\ Fresh.filter = Empty /\ Fresh.dsn = Empty
BY DEF Fresh, WizardFields

\* A wizard at its first step has gathered nothing.
LEMMA AtFirstStep ==
  ASSUME DOMAIN wizard' = WizardFields, wizard'.step = "mode", wizard'.filter \in DOMAIN TypeMatches,
         wizard'.dsn \in DOMAIN ParseOf
  PROVE  WizardInv'
BY DEF WizardInv

\* The type that is selected, and its fields, are where they were.
LEMMA SameType ==
  ASSUME wizard'.filter = wizard.filter, wizard'.selected = wizard.selected
  PROVE  Filtered' = Filtered /\ Fields' = Fields
BY DEF Filtered, SelectedType, Fields

LEMMA ListSteps ==
  ASSUME WizardInv, ChooseMode \/ EditName \/ ConfirmName \/ FilterTypes \/ SelectType
  PROVE  WizardInv'
<1>1. CASE ChooseMode
  <2>1. /\ DOMAIN wizard' = WizardFields /\ wizard'.filter = wizard.filter /\ wizard'.dsn = wizard.dsn
        /\ \/ wizard'.mode = "dsn" /\ wizard'.step = "dsn"
           \/ wizard'.mode = "step-by-step" /\ wizard'.step = "name"
    BY <1>1 DEF ChooseMode, WizardInv, WizardFields
  <2> QED BY <2>1 DEF WizardInv
<1>2. CASE EditName
  <2>1. /\ DOMAIN wizard' = WizardFields /\ wizard'.filter = wizard.filter /\ wizard'.dsn = wizard.dsn
        /\ wizard'.mode = wizard.mode /\ wizard'.step = "name" /\ wizard.step = "name"
    BY <1>2 DEF EditName, At, WizardInv, WizardFields
  <2> QED BY <2>1 DEF WizardInv
<1>3. CASE ConfirmName
  <2>1. /\ DOMAIN wizard' = WizardFields /\ wizard'.filter = Empty /\ wizard'.dsn = wizard.dsn
        /\ wizard'.mode = wizard.mode /\ wizard'.step = "type" /\ wizard.step = "name"
        /\ wizard'.selected = 1
    BY <1>3 DEF ConfirmName, At, WizardInv, WizardFields
  <2>2. wizard'.filter \in DOMAIN TypeMatches
    BY <2>1, NewConnectionAssumptions
  <2>3. Filtered' = <<>> \/ 1 \in DOMAIN Filtered'
    BY <2>2, NewConnectionAssumptions DEF Filtered
  <2> QED BY <2>1, <2>2, <2>3 DEF WizardInv
<1>4. CASE FilterTypes
  <2>1. /\ DOMAIN wizard' = WizardFields /\ wizard'.filter \in DOMAIN TypeMatches
        /\ wizard'.dsn = wizard.dsn
        /\ wizard'.mode = wizard.mode /\ wizard'.step = "type" /\ wizard.step = "type"
        /\ wizard'.selected = 1
    BY <1>4 DEF FilterTypes, At, WizardInv, WizardFields
  <2>2. Filtered' = <<>> \/ 1 \in DOMAIN Filtered'
    BY <2>1, NewConnectionAssumptions DEF Filtered
  <2> QED BY <2>1, <2>2 DEF WizardInv
<1>5. CASE SelectType
  <2>1. /\ DOMAIN wizard' = WizardFields /\ wizard'.filter = wizard.filter /\ wizard'.dsn = wizard.dsn
        /\ wizard'.mode = wizard.mode /\ wizard'.step = "type" /\ wizard.step = "type"
        /\ wizard'.selected \in DOMAIN Filtered
    BY <1>5 DEF SelectType, At, WizardInv, WizardFields
  <2>2. Filtered' = Filtered
    BY <2>1 DEF Filtered
  <2> QED BY <2>1, <2>2 DEF WizardInv
<1> QED BY <1>1, <1>2, <1>3, <1>4, <1>5

LEMMA ConfirmTypeStep ==
  ASSUME WizardInv, ConfirmType
  PROVE  WizardInv'
<1>1. /\ DOMAIN wizard' = WizardFields /\ wizard'.filter = wizard.filter /\ wizard'.dsn = wizard.dsn
      /\ wizard'.mode = wizard.mode /\ wizard'.step = "field" /\ wizard.step = "type"
      /\ wizard'.selected = wizard.selected /\ wizard'.index = 1
  BY DEF ConfirmType, At, WizardInv, WizardFields
<1>2. Filtered' = Filtered /\ Fields' = Fields
  BY <1>1, SameType
<1>3. wizard.selected \in DOMAIN Filtered
  BY <1>1 DEF ConfirmType, WizardInv
<1>4. 1 \in DOMAIN Fields
  BY <1>3, FieldsAreASequence DEF WizardInv
<1>5. CommittedUpTo(wizard.index - 1)'
  BY <1>1 DEF CommittedUpTo
<1> QED BY <1>1, <1>2, <1>3, <1>4, <1>5 DEF WizardInv

LEMMA EditFieldStep ==
  ASSUME WizardInv, EditField
  PROVE  WizardInv'
<1>1. /\ DOMAIN wizard' = WizardFields /\ wizard'.filter = wizard.filter /\ wizard'.dsn = wizard.dsn
      /\ wizard'.mode = wizard.mode /\ wizard'.step = "field" /\ wizard.step = "field"
      /\ wizard'.selected = wizard.selected /\ wizard'.index = wizard.index
      /\ wizard'.values = wizard.values
  BY DEF EditField, At, WizardInv, WizardFields
<1>2. Filtered' = Filtered /\ Fields' = Fields
  BY <1>1, SameType
<1>3. CommittedUpTo(wizard.index - 1)'
  BY <1>1, <1>2 DEF CommittedUpTo, WizardInv
<1> QED BY <1>1, <1>2, <1>3 DEF WizardInv

\* A field that is left has been checked, and none before it is lost.
LEMMA ConfirmFieldStep ==
  ASSUME WizardInv, ConfirmField
  PROVE  WizardInv'
<1>1. /\ wizard.step = "field" /\ wizard.selected \in DOMAIN Filtered
      /\ wizard.index \in DOMAIN Fields /\ CommittedUpTo(wizard.index - 1)
      /\ wizard.mode # "dsn" /\ AcceptableValue(Field, wizard.value)
  BY DEF ConfirmField, At, WizardInv
<1>2. /\ DOMAIN Fields = 1 .. Len(Fields) /\ Len(Fields) \in Nat
      /\ wizard.index \in 1 .. Len(Fields)
  BY <1>1, FieldsAreASequence DEF WizardInv
<1>3. /\ DOMAIN wizard' = WizardFields /\ wizard'.filter = wizard.filter /\ wizard'.dsn = wizard.dsn
      /\ wizard'.mode = wizard.mode /\ wizard'.selected = wizard.selected
      /\ wizard'.values = Committed
      /\ \/ /\ wizard.index < Len(Fields) /\ wizard'.step = "field"
            /\ wizard'.index = wizard.index + 1
         \/ ~(wizard.index < Len(Fields)) /\ wizard'.step = "save"
  <2>1. CASE wizard.index < Len(Fields)
    BY <1>1, <2>1 DEF ConfirmField, WizardInv, WizardFields
  <2>2. CASE ~(wizard.index < Len(Fields))
    BY <2>2 DEF ConfirmField, WizardInv, WizardFields
  <2> QED BY <2>1, <2>2
<1>4. Filtered' = Filtered /\ Fields' = Fields
  BY <1>3, SameType
<1>5. ASSUME NEW i \in 1 .. wizard.index
      PROVE  Fields[i] \in DOMAIN Committed /\ AcceptableValue(Fields[i], Committed[Fields[i]])
  <2>1. CASE Fields[i] = Field
    BY <1>1, <2>1 DEF Committed
  <2>2. CASE Fields[i] # Field
    <3>1. i \in 1 .. wizard.index - 1
      BY <1>2, <2>2 DEF Field
    <3>2. Fields[i] \in DOMAIN wizard.values /\ AcceptableValue(Fields[i], wizard.values[Fields[i]])
      BY <1>1, <3>1 DEF CommittedUpTo
    <3>3. Committed[Fields[i]] = wizard.values[Fields[i]] /\ Fields[i] \in DOMAIN Committed
      BY <2>2, <3>2 DEF Committed
    <3> QED BY <3>2, <3>3
  <2> QED BY <2>1, <2>2
<1>6. CASE wizard.index < Len(Fields)
  <2>1. wizard'.step = "field" /\ wizard'.index = wizard.index + 1
    BY <1>3, <1>6
  <2>2. wizard'.index \in DOMAIN Fields' /\ wizard'.index - 1 = wizard.index
    BY <1>2, <1>4, <1>6, <2>1
  <2>3. \A i \in 1 .. wizard.index : /\ Fields'[i] \in DOMAIN wizard'.values
                                     /\ AcceptableValue(Fields'[i], wizard'.values[Fields'[i]])
    BY <1>3, <1>4, <1>5
  <2>4. CommittedUpTo(wizard.index - 1)'
    BY <2>2, <2>3 DEF CommittedUpTo
  <2> QED BY <1>1, <1>3, <1>4, <2>1, <2>2, <2>4 DEF WizardInv
<1>7. CASE ~(wizard.index < Len(Fields))
  <2>1. wizard'.step = "save" /\ Len(Fields') = wizard.index
    BY <1>2, <1>3, <1>4, <1>7
  <2>2. \A i \in 1 .. wizard.index : /\ Fields'[i] \in DOMAIN wizard'.values
                                     /\ AcceptableValue(Fields'[i], wizard'.values[Fields'[i]])
    BY <1>3, <1>4, <1>5
  <2>3. CommittedUpTo(Len(Fields))'
    BY <2>1, <2>2 DEF CommittedUpTo
  <2> QED BY <1>1, <1>3, <1>4, <2>1, <2>3 DEF WizardInv
<1> QED BY <1>6, <1>7

LEMMA DsnSteps ==
  ASSUME WizardInv, EditDsn \/ ConfirmDsn
  PROVE  WizardInv'
<1>1. CASE EditDsn
  <2>1. /\ DOMAIN wizard' = WizardFields /\ wizard'.filter = wizard.filter /\ wizard'.dsn \in Dsns
        /\ wizard'.mode = wizard.mode /\ wizard'.step = "dsn" /\ wizard.step = "dsn"
    BY <1>1 DEF EditDsn, At, WizardInv, WizardFields
  <2> QED BY <2>1, NewConnectionAssumptions DEF WizardInv
<1>2. CASE ConfirmDsn
  <2>1. /\ DOMAIN wizard' = WizardFields /\ wizard'.filter = wizard.filter /\ wizard'.dsn = wizard.dsn
        /\ wizard'.mode = wizard.mode /\ wizard'.step = "save" /\ wizard.step = "dsn"
        /\ wizard'.conn = ParseOf[wizard.dsn] /\ ParseOf[wizard.dsn] # NoConn
    BY <1>2 DEF ConfirmDsn, At, WizardInv, WizardFields
  <2>2. Complete(wizard'.conn)
    BY <2>1, OutsideConnections DEF WizardInv
  <2> QED BY <2>1, <2>2 DEF WizardInv
<1> QED BY <1>1, <1>2

\* At the last step only the name and the location change.
LEMMA SaveKeys ==
  ASSUME WizardInv, EditDsnName \/ SelectLocation
  PROVE  WizardInv'
<1>1. /\ DOMAIN wizard' = WizardFields /\ wizard'.filter = wizard.filter /\ wizard'.dsn = wizard.dsn
      /\ wizard'.mode = wizard.mode /\ wizard'.step = wizard.step /\ wizard'.conn = wizard.conn
      /\ wizard'.selected = wizard.selected /\ wizard'.values = wizard.values
      /\ wizard.step = "save"
  BY DEF EditDsnName, SelectLocation, At, WizardInv, WizardFields
<1>2. Filtered' = Filtered /\ Fields' = Fields
  BY <1>1, SameType
<1>3. CommittedUpTo(Len(Fields)) => CommittedUpTo(Len(Fields))'
  BY <1>1, <1>2 DEF CommittedUpTo
<1> QED BY <1>1, <1>2, <1>3 DEF WizardInv

\* The fields before the one that is gone back to stay committed.
LEMMA BackToField ==
  ASSUME WizardInv, wizard.mode # "dsn", NEW i, wizard' = AtField(i), wizard.selected \in DOMAIN Filtered,
         i \in DOMAIN Fields, CommittedUpTo(i - 1)
  PROVE  WizardInv'
<1>1. /\ DOMAIN wizard' = WizardFields /\ wizard'.filter = wizard.filter /\ wizard'.dsn = wizard.dsn
      /\ wizard'.mode = wizard.mode /\ wizard'.step = "field" /\ wizard'.index = i
      /\ wizard'.selected = wizard.selected /\ wizard'.values = wizard.values
  BY DEF AtField, WizardInv, WizardFields
<1>2. Filtered' = Filtered /\ Fields' = Fields
  BY <1>1, SameType
<1>3. CommittedUpTo(wizard.index - 1)'
  BY <1>1, <1>2 DEF CommittedUpTo
<1> QED BY <1>1, <1>2, <1>3 DEF WizardInv

LEMMA EscStep ==
  ASSUME WizardInv, PressEsc
  PROVE  WizardInv'
<1>0. wizard' = EscBack /\ wizard.step \in {"name", "type", "field", "dsn", "save"}
  BY DEF PressEsc, WizardInv
<1>1. CASE wizard.step \in {"name", "dsn"}
  <2>1. wizard' = AtMode
    BY <1>0, <1>1 DEF EscBack
  <2>2. /\ DOMAIN wizard' = WizardFields /\ wizard'.step = "mode" /\ wizard'.filter = Empty
        /\ wizard'.dsn = wizard.dsn
    BY <2>1 DEF AtMode, Fresh, WizardFields
  <2> QED BY <2>2, AtFirstStep, NewConnectionAssumptions DEF WizardInv
<1>2. CASE wizard.step = "type" /\ wizard.filter \notin Blank
  <2>1. wizard' = [wizard EXCEPT !.filter = Empty, !.selected = 1]
    BY <1>0, <1>2 DEF EscBack
  <2>2. /\ DOMAIN wizard' = WizardFields /\ wizard'.step = "type" /\ wizard'.filter = Empty
        /\ wizard'.dsn = wizard.dsn /\ wizard'.mode = wizard.mode /\ wizard'.selected = 1
    BY <1>2, <2>1 DEF WizardInv, WizardFields
  <2>3. wizard'.filter \in DOMAIN TypeMatches
    BY <2>2, NewConnectionAssumptions
  <2>4. Filtered' = <<>> \/ 1 \in DOMAIN Filtered'
    BY <2>3, NewConnectionAssumptions DEF Filtered
  <2> QED BY <1>2, <2>2, <2>3, <2>4 DEF WizardInv
<1>3. CASE wizard.step = "type" /\ wizard.filter \in Blank
  <2>1. wizard' = [wizard EXCEPT !.step = "name", !.selected = 1]
    BY <1>0, <1>3 DEF EscBack
  <2>2. /\ DOMAIN wizard' = WizardFields /\ wizard'.step = "name" /\ wizard'.filter = wizard.filter
        /\ wizard'.dsn = wizard.dsn /\ wizard'.mode = wizard.mode
    BY <2>1 DEF WizardInv, WizardFields
  <2> QED BY <1>3, <2>2 DEF WizardInv
<1>4. CASE wizard.step = "field" /\ wizard.index > 1
  <2>1. wizard' = AtField(wizard.index - 1)
    BY <1>0, <1>4 DEF EscBack
  <2>2. /\ wizard.selected \in DOMAIN Filtered /\ wizard.index \in DOMAIN Fields
        /\ CommittedUpTo(wizard.index - 1) /\ wizard.mode # "dsn"
    BY <1>4 DEF WizardInv
  <2>3. DOMAIN Fields = 1 .. Len(Fields) /\ Len(Fields) \in Nat
    BY <2>2, FieldsAreASequence DEF WizardInv
  <2>4. wizard.index - 1 \in DOMAIN Fields
    BY <1>4, <2>2, <2>3
  <2>5. CommittedUpTo((wizard.index - 1) - 1)
    <3>1. \A i \in 1 .. (wizard.index - 1) - 1 : i \in 1 .. wizard.index - 1
      BY <2>2, <2>3
    <3> QED BY <2>2, <3>1 DEF CommittedUpTo
  <2> QED BY <2>1, <2>2, <2>4, <2>5, BackToField
<1>5. CASE wizard.step = "field" /\ ~(wizard.index > 1)
  <2>1. wizard' = AtType
    BY <1>0, <1>5 DEF EscBack
  <2>2. /\ DOMAIN wizard' = WizardFields /\ wizard'.step = "type" /\ wizard'.filter = wizard.filter
        /\ wizard'.dsn = wizard.dsn /\ wizard'.mode = wizard.mode
        /\ wizard'.selected = wizard.selected
    BY <2>1 DEF AtType, WizardInv, WizardFields
  <2>3. Filtered' = Filtered
    BY <2>2 DEF Filtered
  <2> QED BY <1>5, <2>2, <2>3 DEF WizardInv
<1>6. CASE wizard.step = "save" /\ wizard.mode = "dsn"
  <2>1. wizard' = [wizard EXCEPT !.step = "dsn", !.conn = NoConn, !.dsnName = Empty]
    BY <1>0, <1>6 DEF EscBack
  <2>2. /\ DOMAIN wizard' = WizardFields /\ wizard'.step = "dsn" /\ wizard'.filter = wizard.filter
        /\ wizard'.dsn = wizard.dsn /\ wizard'.mode = wizard.mode
    BY <2>1 DEF WizardInv, WizardFields
  <2> QED BY <1>6, <2>2 DEF WizardInv
<1>7. CASE wizard.step = "save" /\ wizard.mode # "dsn"
  <2>1. wizard' = AtField(Len(Fields))
    BY <1>0, <1>7 DEF EscBack
  <2>2. wizard.selected \in DOMAIN Filtered /\ CommittedUpTo(Len(Fields))
    BY <1>7 DEF WizardInv
  <2>3. DOMAIN Fields = 1 .. Len(Fields) /\ Len(Fields) \in Nat /\ Len(Fields) > 0
    BY <2>2, FieldsAreASequence DEF WizardInv
  <2>4. Len(Fields) \in DOMAIN Fields
    BY <2>3
  <2>5. CommittedUpTo(Len(Fields) - 1)
    <3>1. \A i \in 1 .. Len(Fields) - 1 : i \in 1 .. Len(Fields)
      BY <2>3
    <3> QED BY <2>2, <3>1 DEF CommittedUpTo
  <2> QED BY <1>7, <2>1, <2>2, <2>4, <2>5, BackToField
<1> QED BY <1>0, <1>1, <1>2, <1>3, <1>4, <1>5, <1>6, <1>7

LEMMA WizardKeySteps ==
  ASSUME WizardInv, WizardKey
  PROVE  WizardInv'
BY ListSteps, ConfirmTypeStep, EditFieldStep, ConfirmFieldStep, DsnSteps, SaveKeys, EscStep
   DEF WizardKey

\* The wizard is as it was, or another one.
LEMMA SameWizard ==
  ASSUME WizardInv, wizard' = wizard \/ wizard' = Fresh
  PROVE  WizardInv'
<1>1. CASE wizard' = wizard
  BY <1>1 DEF WizardInv, CommittedUpTo, Filtered, Fields, SelectedType
<1>2. CASE wizard' = Fresh
  BY <1>2, FreshWizard, AtFirstStep, NewConnectionAssumptions
<1> QED BY <1>1, <1>2

\* That an append was asked for, or failed, changes nothing that was gathered.
LEMMA Submitted ==
  ASSUME WizardInv, NEW yes, wizard' = [wizard EXCEPT !.submitted = yes]
  PROVE  WizardInv'
<1>1. /\ DOMAIN wizard' = WizardFields /\ wizard'.filter = wizard.filter /\ wizard'.dsn = wizard.dsn
      /\ wizard'.mode = wizard.mode /\ wizard'.step = wizard.step /\ wizard'.conn = wizard.conn
      /\ wizard'.selected = wizard.selected /\ wizard'.values = wizard.values
      /\ wizard'.index = wizard.index
  BY DEF WizardInv, WizardFields
<1>2. Filtered' = Filtered /\ Fields' = Fields
  BY <1>1, SameType
<1>3. /\ CommittedUpTo(Len(Fields)) => CommittedUpTo(Len(Fields))'
      /\ CommittedUpTo(wizard.index - 1) => CommittedUpTo(wizard.index - 1)'
  BY <1>1, <1>2 DEF CommittedUpTo
<1> QED BY <1>1, <1>2, <1>3 DEF WizardInv

LEMMA WizardStep == WizardInv /\ [CNext]_cvars => WizardInv'
<1> SUFFICES ASSUME WizardInv, [CNext]_cvars PROVE WizardInv'
  OBVIOUS
<1>1. CASE WizardKey
  BY <1>1, WizardKeySteps
<1>2. CASE OpenWizard
  <2>1. wizard' = [Fresh EXCEPT !.taken = loaded]
    BY <1>2 DEF OpenWizard
  <2>2. DOMAIN wizard' = WizardFields /\ wizard'.step = "mode" /\ wizard'.filter = Empty /\ wizard'.dsn = Empty
    BY <2>1, FreshWizard DEF WizardFields
  <2> QED BY <2>2, AtFirstStep, NewConnectionAssumptions
<1>3. CASE ModalKey /\ ~OpenWizard
  BY <1>3, SameWizard
     DEF ModalKey, OnlyModals, OpenPicker, ClosePicker, AskDiscard, AnswerDiscard, ToggleHelp, KeptIn
<1>4. CASE Submit
  BY <1>4, Submitted DEF Submit
<1>5. CASE OtherProcessSaves \/ Restart \/ UNCHANGED cvars
  BY <1>5, SameWizard DEF OtherProcessSaves, Restart, cvars
<1>6. ASSUME NEW s \in Saves, SaveStep(s)
      PROVE  WizardInv'
  <2>1. CASE SaveFailed(s)
    BY <2>1, Submitted DEF SaveFailed
  <2>2. CASE SaveSucceeded(s)
    BY <2>2, SameWizard DEF SaveSucceeded, KeptIn
  <2>3. CASE ReadFile(s) \/ RenameFile(s) \/ AppendFails(s)
    BY <2>3, SameWizard DEF ReadFile, RenameFile, AppendFails, Appending
  <2> QED BY <1>6, <2>1, <2>2, <2>3 DEF SaveStep
<1> QED BY <1>1, <1>2, <1>3, <1>4, <1>5, <1>6 DEF CNext

\* What is submitted is what was gathered: a value for every field of the type, or what the
\* connection string says.
LEMMA SubmittedIsComplete ==
  ASSUME WizardInv, wizard.step = "save"
  PROVE  Complete(SavedConn)
<1>1. CASE wizard.mode = "dsn"
  BY <1>1 DEF WizardInv, SavedConn
<1>2. CASE wizard.mode # "dsn"
  <2>1. wizard.selected \in DOMAIN Filtered /\ CommittedUpTo(Len(Fields))
    BY <1>2 DEF WizardInv
  <2>2. DOMAIN Fields = 1 .. Len(Fields)
    BY <2>1, FieldsAreASequence DEF WizardInv
  <2> DEFINE values == [f \in {Fields[i] : i \in DOMAIN Fields} |->
                          IF f \in DOMAIN wizard.values THEN wizard.values[f] ELSE Empty]
  <2>3. SavedConn.values = values
    BY <1>2 DEF SavedConn
  <2>4. ASSUME NEW f \in DOMAIN values
        PROVE  AcceptableValue(f, values[f])
    <3>1. PICK i \in DOMAIN Fields : f = Fields[i]
      OBVIOUS
    <3>2. f \in DOMAIN wizard.values /\ AcceptableValue(f, wizard.values[f])
      BY <2>1, <2>2, <3>1 DEF CommittedUpTo
    <3> QED BY <3>2
  <2> HIDE DEF values
  <2>5. \A f \in DOMAIN values \cap Ports : values[f] \in PortNumbers
    BY <2>4 DEF AcceptableValue
  <2>6. \A f \in DOMAIN values \cap Required : values[f] \notin Blank
    BY <2>4, NewConnectionAssumptions DEF AcceptableValue
  <2> QED BY <2>3, <2>5, <2>6 DEF Complete
<1> QED BY <1>1, <1>2

LEMMA SavesStep == WizardInv /\ SavesInv /\ [CNext]_cvars => SavesInv'
<1> SUFFICES ASSUME WizardInv, SavesInv, [CNext]_cvars PROVE SavesInv'
  OBVIOUS
<1>0. ASSUME NEW s \in Saves, NEW r, DOMAIN r = SaveFields,
             r.stage \in {"asked", "read", "written", "failed"} => Complete(r.conn),
             saves' = [saves EXCEPT ![s] = r]
      PROVE  SavesInv'
  <2>1. DOMAIN saves' = Saves /\ saves'[s] = r /\ \A t \in Saves \ {s} : saves'[t] = saves[t]
    BY <1>0 DEF SavesInv
  <2> QED BY <1>0, <2>1 DEF SavesInv, InFlight
<1>1. CASE saves' = saves
  BY <1>1 DEF SavesInv, InFlight
<1>3. CASE Submit
  <2>1. PICK s \in Saves :
          saves' = [saves EXCEPT ![s] = Asked(TRUE, SavedName, SavedConn, wizard.location)]
    BY <1>3 DEF Submit
  <2>2. Complete(SavedConn)
    BY <1>3, SubmittedIsComplete DEF Submit, At
  <2> DEFINE r == Asked(TRUE, SavedName, SavedConn, wizard.location)
  <2>3. DOMAIN r = SaveFields /\ r.conn = SavedConn
    BY DEF Asked, SaveFields
  <2> HIDE DEF r
  <2> QED BY <1>0, <2>1, <2>2, <2>3 DEF r
<1>4. CASE OtherProcessSaves
  <2>1. PICK s \in Saves, n \in OthersNames, l \in Locations :
          saves' = [saves EXCEPT ![s] = Asked(FALSE, n, OthersConn, l)]
    BY <1>4 DEF OtherProcessSaves
  <2> DEFINE r == Asked(FALSE, n, OthersConn, l)
  <2>2. DOMAIN r = SaveFields /\ r.conn = OthersConn
    BY DEF Asked, SaveFields
  <2> HIDE DEF r
  <2> QED BY <1>0, <2>1, <2>2, OutsideConnections DEF r
<1>5. ASSUME NEW stage
      PROVE  LET r == [Free EXCEPT !.stage = stage]
             IN DOMAIN r = SaveFields /\ r.stage = stage
  BY DEF Free, SaveFields
<1>6. CASE Restart
  <2> DEFINE lost == [Free EXCEPT !.stage = "lost"]
  <2>1. DOMAIN lost = SaveFields /\ lost.stage = "lost"
    BY <1>5
  <2>2. saves' = [s \in Saves |-> IF saves[s].own /\ InFlight(s) THEN lost ELSE saves[s]]
    BY <1>6 DEF Restart
  <2> HIDE DEF lost
  <2> QED BY <2>1, <2>2 DEF SavesInv, InFlight
<1>7. ASSUME NEW s \in Saves, SaveStep(s)
      PROVE  SavesInv'
  <2>0. DOMAIN saves = Saves /\ DOMAIN saves[s] = SaveFields /\ (InFlight(s) => Complete(saves[s].conn))
    BY DEF SavesInv
  <2>1. CASE ReadFile(s)
    <3> DEFINE r == [saves[s] EXCEPT !.stage = "read", !.existing = files[saves[s].location]]
    <3>1. saves' = [saves EXCEPT ![s] = r] /\ InFlight(s)
      BY <2>0, <2>1 DEF ReadFile, InFlight, SaveFields
    <3>2. DOMAIN r = SaveFields /\ r.conn = saves[s].conn
      BY <2>0 DEF SaveFields
    <3> HIDE DEF r
    <3> QED BY <1>0, <2>0, <3>1, <3>2
  <2>2. CASE RenameFile(s)
    <3> DEFINE r == [saves[s] EXCEPT !.stage = "written", !.existing = <<>>]
    <3>1. saves' = [saves EXCEPT ![s] = r] /\ InFlight(s)
      BY <2>0, <2>2 DEF RenameFile, InFlight, SaveFields
    <3>2. DOMAIN r = SaveFields /\ r.conn = saves[s].conn
      BY <2>0 DEF SaveFields
    <3> HIDE DEF r
    <3> QED BY <1>0, <2>0, <3>1, <3>2
  <2>3. CASE AppendFails(s)
    <3> DEFINE r == [saves[s] EXCEPT !.stage = "failed", !.existing = <<>>]
    <3>1. saves' = [saves EXCEPT ![s] = r] /\ InFlight(s)
      BY <2>0, <2>3 DEF AppendFails, InFlight, SaveFields
    <3>2. DOMAIN r = SaveFields /\ r.conn = saves[s].conn
      BY <2>0 DEF SaveFields
    <3> HIDE DEF r
    <3> QED BY <1>0, <2>0, <3>1, <3>2
  <2>4. CASE SaveSucceeded(s) \/ SaveFailed(s)
    <3>1. PICK stage \in {"done", "lost"} : saves' = [saves EXCEPT ![s] = [Free EXCEPT !.stage = stage]]
      BY <2>4 DEF SaveSucceeded, SaveFailed
    <3> DEFINE r == [Free EXCEPT !.stage = stage]
    <3>2. DOMAIN r = SaveFields /\ r.stage \notin {"asked", "read", "written", "failed"}
      BY <1>5, <3>1
    <3> HIDE DEF r
    <3> QED BY <1>0, <3>1, <3>2 DEF r
  <2> QED BY <1>7, <2>1, <2>2, <2>3, <2>4 DEF SaveStep
<1>8. CASE WizardKey \/ ModalKey \/ UNCHANGED cvars
  BY <1>1, <1>8
     DEF cvars, WizardKey, ModalKey, OnlyModals, Typing, fileVars, ChooseMode, EditName, ConfirmName,
         FilterTypes, SelectType, ConfirmType, EditField, ConfirmField, EditDsn, ConfirmDsn, EditDsnName,
         SelectLocation, PressEsc, OpenPicker, ClosePicker, OpenWizard, AskDiscard, AnswerDiscard, ToggleHelp
<1> QED BY <1>3, <1>4, <1>6, <1>7, <1>8 DEF CNext

LEMMA CompleteInvInit == CInit => CompleteInv
<1> SUFFICES ASSUME CInit PROVE CompleteInv
  OBVIOUS
<1>1. wizard = Fresh /\ saves = [s \in Saves |-> Free]
  BY DEF CInit
<1>2. WizardInv
  BY <1>1, FreshWizard, NewConnectionAssumptions DEF WizardInv
<1>3. SavesInv
  BY <1>1 DEF SavesInv, Free, InFlight, SaveFields
<1> QED BY <1>2, <1>3 DEF CompleteInv

LEMMA CompleteInvariant == CSpec => []CompleteInv
<1>1. CompleteInv /\ [CNext]_cvars => CompleteInv'
  BY WizardStep, SavesStep DEF CompleteInv
<1> QED BY <1>1, CompleteInvInit, PTL DEF CSpec

\* Whatever way the steps of the wizard are gone, forth and back, and whatever type is chosen on
\* the way, the Connection that is saved has a value for every field its type needs (confirmField,
\* goBack, buildConnection and Connection.Validate).
THEOREM SavesAreComplete == CSpec => []SavedIsComplete
<1>1. CompleteInv => SavedIsComplete
  BY DEF CompleteInv, SavesInv, SavedIsComplete
<1> QED BY <1>1, CompleteInvariant, PTL

(*************************** names defined once ***************************)

Modals == {"picker", "wizard", "confirm", "help"}
Open == \E i \in DOMAIN modals : modals[i] = "wizard"

\* No table of a file makes its loading fail.
Clean == \A l \in Locations : \A i \in DOMAIN files[l] : ~BlankOptional(files[l][i].conn)
TablesComplete == \A l \in Locations : \A i \in DOMAIN files[l] : Complete(files[l][i].conn)

\* One save is under way at a time, this process asked for it, and the wizard knows.
OneSave ==
  /\ \A s, t \in Saves : InFlight(s) /\ InFlight(t) => s = t
  /\ \A s \in Saves : InFlight(s) => saves[s].own
  /\ Open /\ ~wizard.submitted => \A s \in Saves : ~InFlight(s)

\* The names of the files are in the cache, or about to be, and in the snapshot of a wizard that
\* may still ask for a save; the name it asks with is not.
NamesInv ==
  /\ \A l \in Locations : DefinedOnce(files[l])
  /\ \A s \in Saves : saves[s].stage \in {"asked", "read"} => saves[s].name \notin AllNames
  /\ \A n \in AllNames : n \in loaded \/ \E s \in Saves : saves[s].stage = "written" /\ saves[s].name = n
  /\ Open /\ (~wizard.submitted \/ \E s \in Saves : saves[s].stage \in {"asked", "read", "failed"})
       => AllNames \subseteq wizard.taken
  /\ Open /\ wizard.mode # "dsn" /\ wizard.step \in {"type", "field", "save"}
       => wizard.name \notin wizard.taken

HasteInv ==
  /\ modals \in Seq(Modals)
  /\ ~overlapped => TablesComplete
  /\ ~rushed => ~overlapped /\ OneSave
  /\ ~rushed /\ Clean => NamesInv

Late == {"type", "field", "save"}

LEMMA TheTopIsOpen ==
  ASSUME modals \in Seq(Modals), TopModal = "wizard"
  PROVE  Open
<1>1. modals # <<>>
  BY DEF TopModal
<1>2. modals[Len(modals)] = "wizard" /\ Len(modals) \in DOMAIN modals
  BY <1>1 DEF TopModal
<1> QED BY <1>2 DEF Open

LEMMA PopIsAPrefix ==
  ASSUME NEW S, NEW stack \in Seq(S)
  PROVE  /\ Pop(stack) \in Seq(S)
         /\ \A i \in DOMAIN Pop(stack) : i \in DOMAIN stack /\ Pop(stack)[i] = stack[i]
<1>1. CASE stack = <<>>
  BY <1>1 DEF Pop
<1>2. CASE stack # <<>>
  <2> DEFINE n == Len(stack) - 1
  <2>1. n \in Nat /\ n \in Int /\ Len(stack) = n + 1 /\ DOMAIN stack = 1 .. n + 1
    BY <1>2
  <2>2. Pop(stack) = SubSeq(stack, 1, n)
    BY <1>2 DEF Pop
  <2> HIDE DEF n
  <2>3. \A i \in 1 .. n : i \in DOMAIN stack /\ stack[i] \in S
    BY <2>1
  <2>4. /\ SubSeq(stack, 1, n) \in Seq(S) /\ Len(SubSeq(stack, 1, n)) = n
        /\ \A i \in 1 .. n : SubSeq(stack, 1, n)[i] = stack[i]
    <3>1. 1 \in Int /\ (IF 1 <= n THEN n - 1 + 1 ELSE 0) = n /\ 1 .. n - 1 + 1 = 1 .. n
      BY <2>1
    <3>2. \A i \in 1 .. n : 1 + i - 1 = i
      OBVIOUS
    <3>3. /\ SubSeq(stack, 1, n) \in Seq(S)
          /\ Len(SubSeq(stack, 1, n)) = IF 1 <= n THEN n - 1 + 1 ELSE 0
          /\ \A i \in 1 .. n - 1 + 1 : SubSeq(stack, 1, n)[i] = stack[1 + i - 1]
      BY <2>1, <2>3, SubSeqProperties
    <3> QED BY <3>1, <3>2, <3>3
  <2> QED BY <2>2, <2>3, <2>4
<1> QED BY <1>1, <1>2

\* Only OpenWizard opens a wizard.
LEMMA PoppedStack ==
  ASSUME modals \in Seq(Modals), modals' = Pop(modals) \/ modals' = Pop(Pop(modals))
  PROVE  modals' \in Seq(Modals) /\ (Open' => Open)
<1>1. \A i \in DOMAIN modals' : i \in DOMAIN modals /\ modals'[i] = modals[i]
  BY PopIsAPrefix
<1>2. modals' \in Seq(Modals)
  BY PopIsAPrefix
<1> QED BY <1>1, <1>2 DEF Open

LEMMA PushedStack ==
  ASSUME modals \in Seq(Modals), NEW m \in Modals \ {"wizard"}, modals' = Append(modals, m)
  PROVE  modals' \in Seq(Modals) /\ (Open' => Open)
<1>1. modals' \in Seq(Modals) /\ Len(modals') = Len(modals) + 1 /\ Len(modals) \in Nat
  OBVIOUS
<1>2. \A i \in DOMAIN modals' : modals'[i] = "wizard" => i \in DOMAIN modals /\ modals'[i] = modals[i]
  OBVIOUS
<1> QED BY <1>1, <1>2 DEF Open

LEMMA SameFiles ==
  ASSUME UNCHANGED files
  PROVE  /\ Clean' = Clean /\ TablesComplete' = TablesComplete /\ AllNames' = AllNames
         /\ \A l \in Locations : DefinedOnce(files[l])' = DefinedOnce(files[l])
BY DEF Clean, TablesComplete, AllNames, DefinedOnce, NamesIn

LEMMA ClosedOrKept ==
  ASSUME wizard' = KeptIn(modals')
  PROVE  Open' => wizard' = wizard
BY DEF KeptIn, Open

\* A step that leaves the files, the saves and the cache alone, and the snapshot of the wizard.
LEMMA NothingSaved ==
  ASSUME HasteInv, UNCHANGED <<files, saves, loaded, rushed, overlapped>>, modals' \in Seq(Modals),
         Open' => /\ Open /\ wizard'.taken = wizard.taken /\ wizard'.submitted = wizard.submitted
                  /\ wizard'.mode # "dsn" /\ wizard'.step \in Late =>
                       \/ wizard'.name \notin wizard'.taken
                       \/ wizard.mode # "dsn" /\ wizard.step \in Late /\ wizard'.name = wizard.name
  PROVE  HasteInv'
<1>1. /\ Clean' = Clean /\ TablesComplete' = TablesComplete /\ AllNames' = AllNames
      /\ \A l \in Locations : DefinedOnce(files[l])' = DefinedOnce(files[l])
  BY SameFiles
<1>2. OneSave => OneSave'
  BY DEF OneSave, InFlight
<1>3. NamesInv => NamesInv'
  <2> SUFFICES ASSUME NamesInv PROVE NamesInv'
    OBVIOUS
  <2>1. \A l \in Locations : DefinedOnce(files[l])'
    BY <1>1 DEF NamesInv
  <2>2. \A s \in Saves : saves'[s].stage \in {"asked", "read"} => saves'[s].name \notin AllNames'
    BY <1>1 DEF NamesInv
  <2>3. \A n \in AllNames' : n \in loaded' \/ \E s \in Saves : saves'[s].stage = "written" /\ saves'[s].name = n
    BY <1>1 DEF NamesInv
  <2>4. Open' /\ (~wizard'.submitted \/ \E s \in Saves : saves'[s].stage \in {"asked", "read", "failed"})
          => AllNames' \subseteq wizard'.taken
    BY <1>1 DEF NamesInv
  <2>5. Open' /\ wizard'.mode # "dsn" /\ wizard'.step \in Late => wizard'.name \notin wizard'.taken
    BY DEF NamesInv, Late
  <2> QED BY <2>1, <2>2, <2>3, <2>4, <2>5 DEF NamesInv, Late
<1> QED BY <1>1, <1>2, <1>3 DEF HasteInv

\* No key of the wizard changes its snapshot; a name is checked against it before the types.
LEMMA KeysKeepTheSnapshot ==
  ASSUME WizardInv, WizardKey
  PROVE  /\ wizard'.taken = wizard.taken /\ wizard'.submitted = wizard.submitted
         /\ wizard'.mode # "dsn" /\ wizard'.step \in Late =>
              \/ wizard'.name \notin wizard'.taken
              \/ wizard.mode # "dsn" /\ wizard.step \in Late /\ wizard'.name = wizard.name
<1>0. DOMAIN wizard = WizardFields
  BY DEF WizardInv
<1>1. CASE ChooseMode
  BY <1>0, <1>1 DEF ChooseMode, WizardFields, Late
<1>2. CASE EditName
  BY <1>0, <1>2 DEF EditName, At, WizardFields, Late
<1>3. CASE ConfirmName
  BY <1>0, <1>3 DEF ConfirmName, At, Acceptable, WizardFields, Late
<1>4. CASE FilterTypes
  BY <1>0, <1>4 DEF FilterTypes, At, WizardFields, Late
<1>5. CASE SelectType
  BY <1>0, <1>5 DEF SelectType, At, WizardFields, Late
<1>6. CASE ConfirmType
  BY <1>0, <1>6 DEF ConfirmType, At, WizardFields, Late
<1>7. CASE EditField
  BY <1>0, <1>7 DEF EditField, At, WizardFields, Late
<1>8. CASE ConfirmField
  <2>1. wizard.step = "field"
    BY <1>8 DEF ConfirmField, At
  <2>2. CASE wizard.index < Len(Fields)
    BY <1>0, <1>8, <2>1, <2>2 DEF ConfirmField, WizardFields, Late
  <2>3. CASE ~(wizard.index < Len(Fields))
    BY <1>0, <1>8, <2>1, <2>3 DEF ConfirmField, WizardFields, Late
  <2> QED BY <2>2, <2>3
<1>9. CASE EditDsn
  BY <1>0, <1>9 DEF EditDsn, At, WizardFields, Late
<1>10. CASE ConfirmDsn
  BY <1>0, <1>10 DEF ConfirmDsn, At, WizardInv, WizardFields, Late
<1>11. CASE EditDsnName
  BY <1>0, <1>11 DEF EditDsnName, At, WizardFields, Late
<1>12. CASE SelectLocation
  BY <1>0, <1>12 DEF SelectLocation, At, WizardFields, Late
<1>13. CASE PressEsc
  <2>0. wizard' = EscBack /\ wizard.step \in {"name", "type", "field", "dsn", "save"}
    BY <1>13 DEF PressEsc, WizardInv
  <2>1. CASE wizard.step \in {"name", "dsn"}
    BY <2>0, <2>1 DEF EscBack, AtMode, Fresh, Late
  <2>2. CASE wizard.step = "type"
    BY <1>0, <2>0, <2>2 DEF EscBack, WizardFields, Late
  <2>3. CASE wizard.step = "field"
    BY <1>0, <2>0, <2>3 DEF EscBack, AtField, AtType, WizardInv, WizardFields, Late
  <2>4. CASE wizard.step = "save" /\ wizard.mode = "dsn"
    BY <1>0, <2>0, <2>4 DEF EscBack, WizardFields, Late
  <2>5. CASE wizard.step = "save" /\ wizard.mode # "dsn"
    BY <1>0, <2>0, <2>5 DEF EscBack, AtField, WizardFields, Late
  <2> QED BY <2>0, <2>1, <2>2, <2>3, <2>4, <2>5
<1> QED BY <1>1, <1>2, <1>3, <1>4, <1>5, <1>6, <1>7, <1>8, <1>9, <1>10, <1>11, <1>12, <1>13
        DEF WizardKey

LEMMA HasteKeys ==
  ASSUME HasteInv, WizardInv, WizardKey
  PROVE  HasteInv'
<1>1. UNCHANGED <<files, saves, loaded, rushed, overlapped, modals>>
  BY DEF WizardKey, Typing, fileVars, ghosts, ChooseMode, EditName, ConfirmName, FilterTypes, SelectType,
         ConfirmType, EditField, ConfirmField, EditDsn, ConfirmDsn, EditDsnName, SelectLocation, PressEsc
<1>2. modals' \in Seq(Modals) /\ Open' = Open
  BY <1>1 DEF HasteInv, Open
<1> QED BY <1>1, <1>2, KeysKeepTheSnapshot, NothingSaved

LEMMA HasteModals ==
  ASSUME HasteInv, ModalKey
  PROVE  HasteInv'
<1>0. modals \in Seq(Modals)
  BY DEF HasteInv
<1>1. CASE OpenWizard
  <2>1. /\ UNCHANGED <<files, saves, loaded, overlapped>>
        /\ rushed' = (rushed \/ \E s \in Saves : InFlight(s))
        /\ modals' = Append(modals, "wizard") /\ wizard' = [Fresh EXCEPT !.taken = loaded]
    BY <1>1 DEF OpenWizard, fileVars
  <2>2. modals' \in Seq(Modals)
    BY <1>0, <2>1 DEF Modals
  <2>3. wizard'.taken = loaded /\ wizard'.step = "mode"
    BY <2>1 DEF Fresh
  <2>4. /\ Clean' = Clean /\ TablesComplete' = TablesComplete /\ AllNames' = AllNames
        /\ \A l \in Locations : DefinedOnce(files[l])' = DefinedOnce(files[l])
    BY <2>1, SameFiles
  <2>5. ASSUME ~rushed' PROVE ~rushed /\ ~overlapped' /\ OneSave'
    BY <2>1, <2>5 DEF HasteInv, OneSave, InFlight
  <2>6. ASSUME ~rushed', Clean' PROVE NamesInv'
    <3>1. NamesInv /\ \A s \in Saves : saves[s].stage # "written"
      BY <2>1, <2>4, <2>5, <2>6 DEF HasteInv, InFlight
    <3>2. AllNames' \subseteq loaded' /\ AllNames' \subseteq wizard'.taken
      BY <2>1, <2>3, <2>4, <3>1 DEF NamesInv
    <3>3. \A l \in Locations : DefinedOnce(files[l])'
      BY <2>4, <3>1 DEF NamesInv
    <3>4. \A s \in Saves : saves'[s].stage \in {"asked", "read"} => saves'[s].name \notin AllNames'
      BY <2>1, <2>4, <3>1 DEF NamesInv
    <3> QED BY <2>3, <3>2, <3>3, <3>4 DEF NamesInv
  <2> QED BY <2>1, <2>2, <2>4, <2>5, <2>6 DEF HasteInv
<1>2. CASE ~OpenWizard
  <2>1. UNCHANGED <<files, saves, loaded, rushed, overlapped>>
    BY <1>2 DEF ModalKey, OnlyModals, fileVars, ghosts, OpenPicker, ClosePicker, AskDiscard, AnswerDiscard,
                ToggleHelp
  <2>2. modals' \in Seq(Modals) /\ (Open' => Open /\ wizard' = wizard)
    <3>1. CASE OpenPicker
      <4>1. modals' = <<"picker">>
        BY <3>1 DEF OpenPicker
      <4> QED BY <4>1 DEF Modals, Open
    <3>2. CASE ClosePicker
      BY <1>0, <3>2, PoppedStack DEF ClosePicker, OnlyModals
    <3>3. CASE AskDiscard
      BY <1>0, <3>3, PushedStack DEF AskDiscard, OnlyModals, Modals
    <3>4. CASE AnswerDiscard
      BY <1>0, <3>4, PoppedStack, ClosedOrKept DEF AnswerDiscard
    <3>5. CASE ToggleHelp
      <4>1. modals' = Pop(modals) \/ modals' = Append(modals, "help")
        BY <3>5 DEF ToggleHelp
      <4> QED BY <1>0, <3>5, <4>1, PoppedStack, PushedStack DEF ToggleHelp, OnlyModals, Modals
    <3> QED BY <1>2, <3>1, <3>2, <3>3, <3>4, <3>5 DEF ModalKey
  <2> QED BY <2>1, <2>2, NothingSaved
<1> QED BY <1>1, <1>2

\* The name that is submitted is in no file: the snapshot it was checked against has all their names.
LEMMA HasteSubmit ==
  ASSUME HasteInv, WizardInv, SavesInv, Submit
  PROVE  HasteInv'
<1> DEFINE r == Asked(TRUE, SavedName, SavedConn, wizard.location)
<1>1. PICK s \in Saves : saves' = [saves EXCEPT ![s] = r]
  BY DEF Submit
<1>2. r.stage = "asked" /\ r.own = TRUE /\ r.name = SavedName
  BY DEF Asked
<1> HIDE DEF r
<1>3. saves'[s] = r /\ \A t \in Saves \ {s} : saves'[t] = saves[t]
  BY <1>1 DEF SavesInv
<1>4. /\ wizard'.submitted = TRUE /\ wizard'.taken = wizard.taken /\ wizard'.mode = wizard.mode
      /\ wizard'.step = wizard.step /\ wizard'.name = wizard.name
  BY DEF Submit, WizardInv, WizardFields
<1>5. /\ UNCHANGED <<modals, loaded, files, overlapped>>
      /\ rushed' = (rushed \/ wizard.submitted \/ \E t \in Saves : InFlight(t))
  BY DEF Submit
<1>6. /\ Clean' = Clean /\ TablesComplete' = TablesComplete /\ AllNames' = AllNames
      /\ \A l \in Locations : DefinedOnce(files[l])' = DefinedOnce(files[l])
  BY <1>5, SameFiles
<1>7. modals' \in Seq(Modals) /\ Open' = Open
  BY <1>5 DEF HasteInv, Open
<1>8. ASSUME ~rushed'
      PROVE  /\ ~rushed /\ ~wizard.submitted /\ ~overlapped'
             /\ \A t \in Saves : ~InFlight(t)
             /\ \A t \in Saves \ {s} : saves'[t].stage \notin {"asked", "read", "written", "failed"}
  BY <1>3, <1>5, <1>8 DEF HasteInv, InFlight
<1>9. ASSUME ~rushed' PROVE OneSave'
  BY <1>2, <1>3, <1>4, <1>8, <1>9 DEF OneSave, InFlight
<1>10. ASSUME ~rushed', Clean' PROVE NamesInv'
  <2>1. NamesInv
    BY <1>6, <1>8, <1>10 DEF HasteInv
  <2>2. AllNames \subseteq wizard.taken
    BY <1>8, <1>10, <2>1, TheTopIsOpen DEF NamesInv, HasteInv, Submit, At
  <2>3. SavedName \notin AllNames
    <3>1. Open /\ wizard.step = "save"
      BY TheTopIsOpen DEF HasteInv, Submit, At
    <3>2. CASE wizard.mode = "dsn"
      BY <2>2, <3>2 DEF Submit, Acceptable, SavedName
    <3>3. CASE wizard.mode # "dsn"
      BY <2>1, <2>2, <3>1, <3>3 DEF NamesInv, SavedName
    <3> QED BY <3>2, <3>3
  <2>4. \A l \in Locations : DefinedOnce(files[l])'
    BY <1>6, <2>1 DEF NamesInv
  <2>5. \A t \in Saves : saves'[t].stage \in {"asked", "read"} => saves'[t].name \notin AllNames'
    BY <1>2, <1>3, <1>6, <1>8, <1>10, <2>3
  <2>6. AllNames' \subseteq loaded'
    BY <1>5, <1>6, <1>8, <1>10, <2>1 DEF NamesInv, InFlight
  <2>7. AllNames' \subseteq wizard'.taken
    BY <1>4, <1>6, <2>2
  <2>8. Open' /\ wizard'.mode # "dsn" /\ wizard'.step \in {"type", "field", "save"}
          => wizard'.name \notin wizard'.taken
    BY <1>4, <1>7, <2>1 DEF NamesInv
  <2> QED BY <2>4, <2>5, <2>6, <2>7, <2>8 DEF NamesInv
<1> QED BY <1>5, <1>6, <1>7, <1>8, <1>9, <1>10 DEF HasteInv

LEMMA HasteOthers ==
  ASSUME HasteInv, OtherProcessSaves
  PROVE  HasteInv'
<1>1. UNCHANGED <<modals, files, overlapped>> /\ rushed'
  BY DEF OtherProcessSaves
<1> QED BY <1>1, SameFiles DEF HasteInv

\* After a restart nothing is under way and the cache is what the files hold.
LEMMA HasteRestart ==
  ASSUME HasteInv, Restart
  PROVE  HasteInv'
<1>1. /\ UNCHANGED <<files, rushed, overlapped>> /\ FilesLoad
      /\ modals' = <<"picker">> /\ loaded' = AllNames
  BY DEF Restart, ghosts
<1>2. /\ Clean' = Clean /\ TablesComplete' = TablesComplete /\ AllNames' = AllNames
      /\ \A l \in Locations : DefinedOnce(files[l])' = DefinedOnce(files[l])
  BY <1>1, SameFiles
<1>3. modals' \in Seq(Modals) /\ ~Open'
  BY <1>1 DEF Modals, Open
<1>4. ASSUME ~rushed
      PROVE  \A s \in Saves : saves'[s].stage \notin {"asked", "read", "written", "failed"}
  <2> DEFINE lost == [Free EXCEPT !.stage = "lost"]
  <2>1. lost.stage = "lost"
    BY DEF Free
  <2>2. saves' = [s \in Saves |-> IF saves[s].own /\ InFlight(s) THEN lost ELSE saves[s]]
    BY DEF Restart
  <2> HIDE DEF lost
  <2>3. \A s \in Saves : InFlight(s) => saves[s].own
    BY <1>4 DEF HasteInv, OneSave
  <2> QED BY <2>1, <2>2, <2>3 DEF InFlight
<1>5. ~rushed => OneSave'
  BY <1>4 DEF OneSave, InFlight
<1>6. ~rushed => NamesInv'
  <2>1. \A l \in Locations : DefinedOnce(files[l])'
    BY <1>1, <1>2 DEF FilesLoad, Loads
  <2> QED BY <1>1, <1>2, <1>3, <1>4, <2>1 DEF NamesInv
<1> QED BY <1>1, <1>2, <1>3, <1>5, <1>6 DEF HasteInv

\* An append that reads the file, or fails, is still the only one under way, with its name.
LEMMA StillUnderWay ==
  ASSUME HasteInv, SavesInv, UNCHANGED <<modals, wizard, loaded, files, rushed>>,
         ~overlapped' => ~overlapped, ~rushed => ~overlapped',
         NEW s \in Saves, NEW r, saves' = [saves EXCEPT ![s] = r],
         r.own = saves[s].own, r.name = saves[s].name,
         saves[s].stage \in {"asked", "read"}, r.stage \in {"read", "failed"}
  PROVE  HasteInv'
<1>1. saves'[s] = r /\ \A t \in Saves \ {s} : saves'[t] = saves[t]
  BY DEF SavesInv
<1>2. /\ Clean' = Clean /\ TablesComplete' = TablesComplete /\ AllNames' = AllNames
      /\ \A l \in Locations : DefinedOnce(files[l])' = DefinedOnce(files[l])
  BY SameFiles
<1>3. Open' = Open
  BY DEF Open
<1>4. \A t \in Saves : InFlight(t)' = InFlight(t) /\ saves'[t].own = saves[t].own
  BY <1>1 DEF InFlight
<1>5. OneSave => OneSave'
  BY <1>3, <1>4 DEF OneSave
<1>6. NamesInv => NamesInv'
  <2> SUFFICES ASSUME NamesInv PROVE NamesInv'
    OBVIOUS
  <2>1. \A l \in Locations : DefinedOnce(files[l])'
    BY <1>2 DEF NamesInv
  <2>2. \A t \in Saves : saves'[t].stage \in {"asked", "read"} => saves'[t].name \notin AllNames'
    BY <1>1, <1>2 DEF NamesInv
  <2>3. \A n \in AllNames' : n \in loaded' \/ \E t \in Saves : saves'[t].stage = "written" /\ saves'[t].name = n
    <3>1. \A t \in Saves : saves[t].stage = "written" => saves'[t] = saves[t]
      BY <1>1
    <3> QED BY <1>2, <3>1 DEF NamesInv
  <2>4. Open' /\ (~wizard'.submitted \/ \E t \in Saves : saves'[t].stage \in {"asked", "read", "failed"})
          => AllNames' \subseteq wizard'.taken
    BY <1>1, <1>2, <1>3 DEF NamesInv
  <2>5. Open' /\ wizard'.mode # "dsn" /\ wizard'.step \in {"type", "field", "save"}
          => wizard'.name \notin wizard'.taken
    BY <1>3 DEF NamesInv
  <2> QED BY <2>1, <2>2, <2>3, <2>4, <2>5 DEF NamesInv
<1> QED BY <1>2, <1>5, <1>6 DEF HasteInv

LEMMA HasteReadOrFail ==
  ASSUME HasteInv, SavesInv, NEW s \in Saves, ReadFile(s) \/ AppendFails(s)
  PROVE  HasteInv'
<1>0. /\ DOMAIN saves = Saves /\ DOMAIN saves[s] = SaveFields
      /\ UNCHANGED <<modals, wizard, loaded, files, rushed>>
  BY DEF SavesInv, ReadFile, AppendFails, Appending
<1>1. CASE ReadFile(s)
  <2> DEFINE r == [saves[s] EXCEPT !.stage = "read", !.existing = files[saves[s].location]]
  <2>1. saves' = [saves EXCEPT ![s] = r] /\ saves[s].stage = "asked"
    BY <1>0, <1>1 DEF ReadFile, SaveFields
  <2>2. r.stage = "read" /\ r.own = saves[s].own /\ r.name = saves[s].name
    BY <1>0 DEF SaveFields
  <2>3. ~overlapped' => ~overlapped
    BY <1>1 DEF ReadFile
  <2>4. ASSUME ~rushed PROVE ~overlapped'
    <3>1. \A t \in Saves \ {s} : saves[t].stage # "read"
      BY <2>1, <2>4 DEF HasteInv, OneSave, InFlight
    <3> QED BY <1>1, <2>4, <3>1 DEF ReadFile, HasteInv
  <2> HIDE DEF r
  <2> QED BY <1>0, <2>1, <2>2, <2>3, <2>4, StillUnderWay
<1>2. CASE AppendFails(s)
  <2> DEFINE r == [saves[s] EXCEPT !.stage = "failed", !.existing = <<>>]
  <2>1. saves' = [saves EXCEPT ![s] = r] /\ saves[s].stage \in {"asked", "read"}
    BY <1>0, <1>2 DEF AppendFails, SaveFields
  <2>2. r.stage = "failed" /\ r.own = saves[s].own /\ r.name = saves[s].name
    BY <1>0 DEF SaveFields
  <2>3. overlapped' = overlapped
    BY <1>2 DEF AppendFails
  <2>4. ~rushed => ~overlapped'
    BY <2>3 DEF HasteInv
  <2> HIDE DEF r
  <2> QED BY <1>0, <2>1, <2>2, <2>3, <2>4, StillUnderWay
<1> QED BY <1>1, <1>2

\* The one table that is added is complete and has a name of its own.
LEMMA HasteRename ==
  ASSUME HasteInv, FileInv, SavesInv, CNext, NEW s \in Saves, RenameFile(s)
  PROVE  HasteInv'
<1> DEFINE r == [saves[s] EXCEPT !.stage = "written", !.existing = <<>>]
           e == Entry(saves[s].name, saves[s].conn)
           l == saves[s].location
<1>0. /\ DOMAIN saves = Saves /\ DOMAIN saves[s] = SaveFields
      /\ UNCHANGED <<modals, wizard, loaded, rushed, overlapped>>
  BY DEF SavesInv, RenameFile, Appending
<1>1. /\ saves' = [saves EXCEPT ![s] = r] /\ saves[s].stage = "read"
      /\ files' = [files EXCEPT ![l] = WithTable(s)]
  BY <1>0 DEF RenameFile, SaveFields
<1>2. r.stage = "written" /\ r.own = saves[s].own /\ r.name = saves[s].name
  BY <1>0 DEF SaveFields
<1>3. e.name = saves[s].name /\ e.conn = saves[s].conn
  BY DEF Entry
<1>4. Complete(e.conn)
  BY <1>1, <1>3 DEF SavesInv, InFlight
<1> HIDE DEF r
<1>5. saves'[s] = r /\ \A t \in Saves \ {s} : saves'[t] = saves[t]
  BY <1>0, <1>1
<1>6. ASSUME ~overlapped, NEW m \in Locations
      PROVE  \/ files'[m] = files[m]
             \/ /\ DOMAIN files'[m] = DOMAIN files[m] \cup {Len(files[m]) + 1}
                /\ files'[m][Len(files[m]) + 1] = e
                /\ \A i \in DOMAIN files[m] : files'[m][i] = files[m][i]
                /\ Len(files[m]) + 1 \notin DOMAIN files[m]
  <2>1. PICK T : files \in [Locations -> Seq(T)]
    BY <1>6 DEF FileInv, FileTypes
  <2>2. CASE m # l
    BY <1>1, <2>1, <2>2
  <2>3. CASE m = l
    <3>1. files'[m] = Append(files[m], e)
      BY <1>1, <1>6, <2>1, <2>3 DEF FileInv, ReadIsFresh, WithTable
    <3>2. files[m] \in Seq(T \cup {e}) /\ e \in T \cup {e}
      BY <2>1, SeqGrows
    <3> HIDE DEF e, l
    <3> QED BY <3>1, <3>2
  <2> QED BY <2>2, <2>3
<1> HIDE DEF e, l
<1>7. ~overlapped' => TablesComplete'
  <2> SUFFICES ASSUME ~overlapped, NEW m \in Locations, NEW i \in DOMAIN files'[m]
               PROVE  Complete(files'[m][i].conn)
    BY <1>0 DEF TablesComplete
  <2>1. TablesComplete
    BY DEF HasteInv
  <2> QED BY <1>4, <1>6, <2>1 DEF TablesComplete
<1>8. Open' = Open
  BY <1>0 DEF Open
<1>9. \A t \in Saves : InFlight(t)' = InFlight(t) /\ saves'[t].own = saves[t].own
  BY <1>1, <1>2, <1>5 DEF InFlight
<1>10. ASSUME ~rushed PROVE ~overlapped /\ OneSave /\ OneSave'
  BY <1>0, <1>8, <1>9, <1>10 DEF HasteInv, OneSave
<1>11. ASSUME ~rushed, Clean' PROVE NamesInv'
  <2>0. ~overlapped /\ OneSave
    BY <1>10, <1>11
  <2>1. Clean
    <3>1. \A m \in Locations : \A i \in DOMAIN files[m] :
            i \in DOMAIN files'[m] /\ files'[m][i] = files[m][i]
      BY <2>0, StepKeepsTables
    <3> QED BY <1>11, <3>1 DEF Clean
  <2>2. NamesInv
    BY <1>11, <2>1 DEF HasteInv
  <2>3. e.name \notin AllNames
    BY <1>1, <1>3, <2>2 DEF NamesInv
  <2>4. \A t \in Saves \ {s} : ~InFlight(t)
    BY <1>1, <2>0 DEF OneSave, InFlight
  <2>5. \A m \in Locations : DefinedOnce(files[m])'
    <3> SUFFICES ASSUME NEW m \in Locations, NEW i \in DOMAIN files'[m], NEW j \in DOMAIN files'[m],
                        files'[m][i].name = files'[m][j].name
                 PROVE  i = j
      BY DEF DefinedOnce
    <3>1. \A k \in DOMAIN files[m] : files[m][k].name # e.name
      BY <2>3 DEF AllNames, NamesIn
    <3>2. DefinedOnce(files[m])
      BY <2>2 DEF NamesInv
    <3> QED BY <1>6, <2>0, <3>1, <3>2 DEF DefinedOnce
  <2>6. \A n \in AllNames' : n \in AllNames \/ n = e.name
    <3> SUFFICES ASSUME NEW m \in Locations, NEW i \in DOMAIN files'[m]
                 PROVE  files'[m][i].name \in AllNames \/ files'[m][i].name = e.name
      BY DEF AllNames, NamesIn
    <3>1. \A k \in DOMAIN files[m] : files[m][k].name \in AllNames
      BY DEF AllNames, NamesIn
    <3> QED BY <1>6, <2>0, <3>1
  <2>7. \A t \in Saves : saves'[t].stage \notin {"asked", "read", "failed"}
    BY <1>2, <1>5, <2>4 DEF InFlight
  <2>8. \A n \in AllNames' : n \in loaded' \/ \E t \in Saves : saves'[t].stage = "written" /\ saves'[t].name = n
    <3> SUFFICES ASSUME NEW n \in AllNames', n \notin loaded
                 PROVE  \E t \in Saves : saves'[t].stage = "written" /\ saves'[t].name = n
      BY <1>0
    <3>1. CASE n = e.name
      BY <1>2, <1>3, <1>5, <3>1
    <3>2. CASE n # e.name
      <4>1. PICK t \in Saves : saves[t].stage = "written" /\ saves[t].name = n
        BY <2>2, <2>6, <3>2 DEF NamesInv
      <4> QED BY <1>1, <1>5, <4>1
    <3> QED BY <3>1, <3>2
  <2>9. Open => wizard.submitted
    BY <1>1, <2>0 DEF OneSave, InFlight
  <2>10. Open' /\ wizard'.mode # "dsn" /\ wizard'.step \in {"type", "field", "save"}
           => wizard'.name \notin wizard'.taken
    BY <1>0, <1>8, <2>2 DEF NamesInv
  <2>11. Open' => wizard'.submitted
    BY <1>0, <1>8, <2>9
  <2> QED BY <2>5, <2>7, <2>8, <2>10, <2>11 DEF NamesInv
<1> QED BY <1>0, <1>7, <1>10, <1>11 DEF HasteInv

\* The answer of the only save finds files that load, unless a blank host keeps them from it.
LEMMA HasteSucceeded ==
  ASSUME HasteInv, SavesInv, NEW s \in Saves, SaveSucceeded(s)
  PROVE  HasteInv'
<1> DEFINE r == [Free EXCEPT !.stage = "done"]
<1>1. saves' = [saves EXCEPT ![s] = r] /\ saves[s].stage = "written"
  BY DEF SaveSucceeded
<1>2. r.stage = "done"
  BY DEF Free
<1> HIDE DEF r
<1>3. saves'[s] = r /\ \A t \in Saves \ {s} : saves'[t] = saves[t]
  BY <1>1 DEF SavesInv
<1>4. /\ UNCHANGED <<files, rushed, overlapped>>
      /\ \/ /\ saves[s].own /\ modals' = Pop(modals) /\ wizard' = KeptIn(modals')
            /\ loaded' = Reloaded
         \/ ~saves[s].own /\ UNCHANGED <<modals, wizard, loaded>>
  BY DEF SaveSucceeded
<1>5. /\ Clean' = Clean /\ TablesComplete' = TablesComplete /\ AllNames' = AllNames
      /\ \A l \in Locations : DefinedOnce(files[l])' = DefinedOnce(files[l])
  BY <1>4, SameFiles
<1>6. modals' \in Seq(Modals) /\ (Open' => Open /\ wizard' = wizard)
  <2>1. CASE saves[s].own
    BY <1>4, <2>1, PoppedStack, ClosedOrKept DEF HasteInv
  <2>2. CASE ~saves[s].own
    BY <1>4, <2>2 DEF HasteInv, Open
  <2> QED BY <2>1, <2>2
<1>7. ASSUME ~rushed
      PROVE  /\ saves[s].own /\ ~overlapped /\ (Open => wizard.submitted)
             /\ \A t \in Saves : saves'[t].stage \notin {"asked", "read", "written", "failed"}
  BY <1>1, <1>2, <1>3, <1>7 DEF HasteInv, OneSave, InFlight
<1>8. ~rushed => OneSave'
  BY <1>7 DEF OneSave, InFlight
<1>9. ASSUME ~rushed, Clean PROVE NamesInv'
  <2>1. NamesInv
    BY <1>9 DEF HasteInv
  <2>2. TablesComplete
    BY <1>7, <1>9 DEF HasteInv
  <2>3. FilesLoad
    BY <1>9, <2>1, <2>2 DEF FilesLoad, Loads, Valid, NamesInv, TablesComplete, Clean
  <2>4. AllNames' \subseteq loaded'
    BY <1>4, <1>5, <1>7, <1>9, <2>3 DEF Reloaded
  <2>5. \A l \in Locations : DefinedOnce(files[l])'
    BY <1>5, <2>1 DEF NamesInv
  <2>6. Open' => wizard'.submitted
    BY <1>6, <1>7, <1>9
  <2>7. Open' /\ wizard'.mode # "dsn" /\ wizard'.step \in {"type", "field", "save"}
          => wizard'.name \notin wizard'.taken
    BY <1>6, <2>1 DEF NamesInv
  <2> QED BY <1>7, <1>9, <2>4, <2>5, <2>6, <2>7 DEF NamesInv
<1> QED BY <1>4, <1>5, <1>6, <1>7, <1>8, <1>9 DEF HasteInv

\* A wizard whose save failed may ask again: its snapshot still has all the names.
LEMMA HasteFailed ==
  ASSUME HasteInv, WizardInv, SavesInv, NEW s \in Saves, SaveFailed(s)
  PROVE  HasteInv'
<1> DEFINE r == [Free EXCEPT !.stage = "lost"]
<1>1. saves' = [saves EXCEPT ![s] = r] /\ saves[s].stage = "failed"
  BY DEF SaveFailed
<1>2. r.stage = "lost"
  BY DEF Free
<1> HIDE DEF r
<1>3. saves'[s] = r /\ \A t \in Saves \ {s} : saves'[t] = saves[t]
  BY <1>1 DEF SavesInv
<1>4. UNCHANGED <<modals, loaded, files, rushed, overlapped>>
  BY DEF SaveFailed, ghosts
<1>5. /\ Clean' = Clean /\ TablesComplete' = TablesComplete /\ AllNames' = AllNames
      /\ \A l \in Locations : DefinedOnce(files[l])' = DefinedOnce(files[l])
  BY <1>4, SameFiles
<1>6. /\ wizard'.taken = wizard.taken /\ wizard'.mode = wizard.mode
      /\ wizard'.step = wizard.step /\ wizard'.name = wizard.name
  BY DEF SaveFailed, WizardInv, WizardFields
<1>7. modals' \in Seq(Modals) /\ Open' = Open
  BY <1>4 DEF HasteInv, Open
<1>8. ASSUME ~rushed
      PROVE  \A t \in Saves : saves'[t].stage \notin {"asked", "read", "written", "failed"}
  BY <1>1, <1>2, <1>3, <1>8 DEF HasteInv, OneSave, InFlight
<1>9. ~rushed => OneSave'
  BY <1>8 DEF OneSave, InFlight
<1>10. ASSUME ~rushed, Clean PROVE NamesInv'
  <2>1. NamesInv
    BY <1>10 DEF HasteInv
  <2>2. \A t \in Saves : saves[t].stage # "written"
    BY <1>1, <1>10 DEF HasteInv, OneSave, InFlight
  <2>3. AllNames' \subseteq loaded'
    BY <1>4, <1>5, <2>1, <2>2 DEF NamesInv
  <2>4. \A l \in Locations : DefinedOnce(files[l])'
    BY <1>5, <2>1 DEF NamesInv
  <2>5. Open' => AllNames' \subseteq wizard'.taken
    BY <1>1, <1>5, <1>6, <1>7, <2>1 DEF NamesInv
  <2>6. Open' /\ wizard'.mode # "dsn" /\ wizard'.step \in {"type", "field", "save"}
          => wizard'.name \notin wizard'.taken
    BY <1>6, <1>7, <2>1 DEF NamesInv
  <2> QED BY <1>8, <1>10, <2>3, <2>4, <2>5, <2>6 DEF NamesInv
<1> QED BY <1>4, <1>5, <1>7, <1>9, <1>10 DEF HasteInv

LEMMA HasteStutter ==
  ASSUME HasteInv, UNCHANGED cvars
  PROVE  HasteInv'
<1>1. UNCHANGED <<modals, wizard, loaded, files, saves, rushed, overlapped>>
  BY DEF cvars, fileVars, ghosts
<1>2. modals' \in Seq(Modals) /\ Open' = Open
  BY <1>1 DEF HasteInv, Open
<1> QED BY <1>1, <1>2, NothingSaved

LEMMA HasteStep == HasteInv /\ FileInv /\ CompleteInv /\ [CNext]_cvars => HasteInv'
<1> SUFFICES ASSUME HasteInv, FileInv, WizardInv, SavesInv, [CNext]_cvars PROVE HasteInv'
  BY DEF CompleteInv
<1>1. ASSUME NEW s \in Saves, SaveStep(s), CNext
      PROVE  HasteInv'
  BY <1>1, HasteReadOrFail, HasteRename, HasteSucceeded, HasteFailed DEF SaveStep
<1> QED BY <1>1, HasteKeys, HasteModals, HasteSubmit, HasteOthers, HasteRestart, HasteStutter DEF CNext

LEMMA HasteInit == CInit => HasteInv
<1> SUFFICES ASSUME CInit PROVE HasteInv
  OBVIOUS
<1>1. /\ modals = <<"picker">> /\ files = [l \in Locations |-> <<>>] /\ ~rushed /\ ~overlapped
  BY DEF CInit
<1>2. \A s \in Saves : saves[s].stage = "free"
  BY DEF CInit, Free
<1>3. modals \in Seq(Modals) /\ ~Open
  BY <1>1 DEF Modals, Open
<1>4. \A l \in Locations : DOMAIN files[l] = {}
  BY <1>1
<1>5. TablesComplete /\ AllNames = {} /\ \A l \in Locations : DefinedOnce(files[l])
  BY <1>4 DEF TablesComplete, AllNames, NamesIn, DefinedOnce
<1>6. OneSave
  BY <1>2 DEF OneSave, InFlight
<1>7. NamesInv
  BY <1>2, <1>3, <1>5 DEF NamesInv
<1> QED BY <1>1, <1>3, <1>5, <1>6, <1>7 DEF HasteInv

\* The wizard alone, at a user's pace and over files that load, never defines a name twice: the
\* snapshot validateName checks against has every name of both files while the wizard can still
\* save (handleOpenNewConnectionWizard, handleWriteConnectionSuccess, AppendConnection).
THEOREM DuplicatesAreHasty == CSpec => []DuplicatesNeedHaste
<1>1. HasteInv => DuplicatesNeedHaste
  BY DEF HasteInv, NamesInv, Clean, DuplicatesNeedHaste
<1>2. CSpec => []HasteInv
  BY HasteInit, HasteStep, FileInvariant, CompleteInvariant, PTL DEF CSpec
<1> QED BY <1>1, <1>2, PTL

==============================================================================
