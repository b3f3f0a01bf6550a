----------------------------- MODULE HistoryStore -----------------------------
(***************************************************************************)
(* One History file and the SQLcery processes that share it                *)
(* (internal/history/history.go, internal/filelock/filelock.go).           *)
(*                                                                         *)
(* A handle is one value of type History: a process makes one each time it *)
(* opens a Session on the Connection.  Append runs in Update, so a handle  *)
(* does one thing at a time; what interleaves are the handles of different *)
(* processes, and a process may die at any point.                          *)
(*                                                                         *)
(* Reading the file and renaming a complete temporary file over it are one *)
(* step each: a reader sees the old file or the new one.                   *)
(***************************************************************************)
EXTENDS Naturals, Sequences, FiniteSets, Functions

CONSTANTS
  Handles,      \* History values, of any process
  NoHandle,     \* nobody holds the lock file
  Statements,   \* Statement texts, compared exactly
  MaxEntries,   \* 1000 in the code
  Foreign       \* what the file may hold that Save did not write

ASSUME HistoryAssumptions ==
  /\ NoHandle \notin Handles
  /\ MaxEntries \in Nat \ {0}
  /\ Foreign \subseteq Seq(Statements)

VARIABLES
  file,         \* the statements of <connection_id>.json, oldest first; <<>> if absent
  holder,       \* whose descriptor of the lock file is locked
  pc,           \* how far the handle is in NewPersistentHistory or in Append
  backed,       \* History.store is not nil
  statements,   \* History.statements
  pending,      \* History.pending
  merged,       \* the slice being built: normalized, then persisted
  todo          \* what the loops of loadStatements and Save have not appended yet

memoryVars == <<backed, statements, pending>>
mergeVars == <<merged, todo>>
hvars == <<file, holder, pc, memoryVars, mergeVars>>

(******************************* operators ********************************)

\* The slice without the first occurrence of s.
Without(q, s) ==
  IF s \in Range(q)
    THEN LET i == CHOOSE i \in 1 .. Len(q) : q[i] = s /\ \A j \in 1 .. i - 1 : q[j] # s
         IN  [j \in 1 .. Len(q) - 1 |-> IF j < i THEN q[j] ELSE q[j + 1]]
    ELSE q

Capped(q) == IF Len(q) > MaxEntries THEN SubSeq(q, Len(q) - MaxEntries + 1, Len(q)) ELSE q

\* appendStatement: the latest occurrence replaces the earlier one.
AppendStatement(q, s) == Capped(Append(Without(q, s), s))

\* At most MaxEntries different Statements: what the loops leave.
WellFormed(q) == Len(q) =< MaxEntries /\ \A i, j \in 1 .. Len(q) : q[i] = q[j] => i = j

EndsWith(q, p) ==
  /\ Len(p) =< Len(q)
  /\ \A i \in 1 .. Len(p) : p[i] = q[Len(q) - Len(p) + i]

\* The file has no room: whatever is appended drops its oldest Statement.
Full(q) == Cardinality(Range(q)) >= MaxEntries

(*************************** states and types *****************************)

Steps == {"closed", "loading", "idle", "saving", "locked", "merging", "written",
          "replaced", "failed"}
Critical == {"locked", "merging", "written", "replaced", "failed"}

\* The type of every variable of HistoryStore.
HTypeOK ==
  /\ file \in Seq(Statements)
  /\ holder \in Handles \cup {NoHandle}
  /\ pc \in [Handles -> Steps]
  /\ backed \in [Handles -> BOOLEAN]
  /\ statements \in [Handles -> Seq(Statements)]
  /\ pending \in [Handles -> Seq(Statements)]
  /\ merged \in [Handles -> Seq(Statements)]
  /\ todo \in [Handles -> Seq(Statements)]

HInit ==
  /\ file \in Foreign
  /\ holder = NoHandle
  /\ pc = [h \in Handles |-> "closed"]
  /\ backed = [h \in Handles |-> FALSE]
  /\ statements = [h \in Handles |-> <<>>]
  /\ pending = [h \in Handles |-> <<>>]
  /\ merged = [h \in Handles |-> <<>>]
  /\ todo = [h \in Handles |-> <<>>]

Goto(h, from, to) == pc[h] = from /\ pc' = [pc EXCEPT ![h] = to]

\* Start the loop that appends the Statements of q one by one to an empty slice.
BeginMerge(h, q) ==
  /\ merged' = [merged EXCEPT ![h] = <<>>]
  /\ todo' = [todo EXCEPT ![h] = q]

(********************* opening and closing a History **********************)

\* NewPersistentHistory reads the file without the lock.
Open(h) ==
  /\ Goto(h, "closed", "loading")
  /\ BeginMerge(h, file)
  /\ UNCHANGED <<file, holder, memoryVars>>

\* An unreadable file: the Model goes on with a History of its own, without a store.
OpenFails(h) ==
  /\ Goto(h, "closed", "idle")
  /\ UNCHANGED <<file, holder, memoryVars, mergeVars>>

\* One turn of the loop of loadStatements, or of the loop over pending in Save.
MergeOne(h) ==
  /\ pc[h] \in {"loading", "merging"}
  /\ todo[h] # <<>>
  /\ merged' = [merged EXCEPT ![h] = AppendStatement(@, Head(todo[h]))]
  /\ todo' = [todo EXCEPT ![h] = Tail(@)]
  /\ UNCHANGED <<file, holder, pc, memoryVars>>

Opened(h) ==
  /\ todo[h] = <<>>
  /\ Goto(h, "loading", "idle")
  /\ backed' = [backed EXCEPT ![h] = TRUE]
  /\ statements' = [statements EXCEPT ![h] = merged[h]]
  /\ BeginMerge(h, <<>>)
  /\ UNCHANGED <<file, holder, pending>>

Forgotten(h) ==
  /\ backed' = [backed EXCEPT ![h] = FALSE]
  /\ statements' = [statements EXCEPT ![h] = <<>>]
  /\ pending' = [pending EXCEPT ![h] = <<>>]
  /\ BeginMerge(h, <<>>)

\* A switch of Session replaces Model.history; the process goes on.
Close(h) ==
  /\ Goto(h, "idle", "closed")
  /\ Forgotten(h)
  /\ UNCHANGED <<file, holder>>

\* The process ends, between any two steps; its locks end with it.
Die(h) ==
  /\ pc[h] # "closed"
  /\ pc' = [pc EXCEPT ![h] = "closed"]
  /\ Forgotten(h)
  /\ holder' = IF holder = h THEN NoHandle ELSE holder
  /\ UNCHANGED file

(********************************* Append *********************************)

\* Variant: pending is not deduplicated.
OwedTwice(q, s) == Append(q, s)

\* What Save has to bring to the file.
Owed(q, s) == AppendStatement(q, s)

Remember(h, s) ==
  /\ Goto(h, "idle", IF backed[h] THEN "saving" ELSE "idle")
  /\ statements' = [statements EXCEPT ![h] = AppendStatement(@, s)]
  /\ pending' = IF backed[h] THEN [pending EXCEPT ![h] = Owed(@, s)] ELSE pending
  /\ UNCHANGED <<file, holder, backed, mergeVars>>

\* Variant: the lock of another process is not waited for.
LockFreeIgnored == holder \in Handles \cup {NoHandle}

LockFree == holder = NoHandle

Acquire(h) ==
  /\ LockFree
  /\ Goto(h, "saving", "locked")
  /\ holder' = h
  /\ UNCHANGED <<file, memoryVars, mergeVars>>

\* MkdirAll or Acquire returns an error: Append returns it, pending is kept.
AcquireFails(h) ==
  /\ Goto(h, "saving", "idle")
  /\ UNCHANGED <<file, holder, memoryVars, mergeVars>>

\* Save reloads the file and merges pending behind it.
Load(h) ==
  /\ Goto(h, "locked", "merging")
  /\ BeginMerge(h, file \o pending[h])
  /\ UNCHANGED <<file, holder, memoryVars>>

LoadFails(h) ==
  /\ Goto(h, "locked", "failed")
  /\ UNCHANGED <<file, holder, memoryVars, mergeVars>>

\* CreateTemp, Chmod, Write and Close of the temporary file.
WriteTemporary(h, ok) ==
  /\ todo[h] = <<>>
  /\ Goto(h, "merging", IF ok THEN "written" ELSE "failed")
  /\ UNCHANGED <<file, holder, memoryVars, mergeVars>>

Replace(h) ==
  /\ Goto(h, "written", "replaced")
  /\ file' = merged[h]
  /\ UNCHANGED <<holder, memoryVars, mergeVars>>

ReplaceFails(h) ==
  /\ Goto(h, "written", "failed")
  /\ UNCHANGED <<file, holder, memoryVars, mergeVars>>

\* Variant: pending is forgotten when Save failed too.
SettledAlways(h, ok) == ok \in BOOLEAN

\* Append forgets pending when Save returned nil, that is when nothing failed.
Settled(h, ok) == ok /\ pc[h] = "replaced"

\* The deferred Release; its error is Save's, if Save had none of its own.
Release(h, ok) ==
  /\ pc[h] \in {"replaced", "failed"}
  /\ pc' = [pc EXCEPT ![h] = "idle"]
  /\ holder' = IF ok THEN NoHandle ELSE holder
  /\ pending' = IF Settled(h, ok) THEN [pending EXCEPT ![h] = <<>>] ELSE pending
  /\ BeginMerge(h, <<>>)
  /\ UNCHANGED <<file, backed, statements>>

\* Variant: the descriptor stays referenced, so that no finalizer closes it.
FinalizeNever(h) == holder = h /\ FALSE /\ UNCHANGED hvars

\* A descriptor that Unlock could not release is dropped, and closed by its finalizer.
Finalize(h) ==
  /\ holder = h
  /\ pc[h] \notin Critical
  /\ holder' = NoHandle
  /\ UNCHANGED <<file, pc, memoryVars, mergeVars>>

(****************************** specification *****************************)

SaveStep(h) ==
  \/ Acquire(h) \/ AcquireFails(h)
  \/ Load(h) \/ LoadFails(h)
  \/ \E ok \in BOOLEAN : WriteTemporary(h, ok)
  \/ Replace(h) \/ ReplaceFails(h)
  \/ \E ok \in BOOLEAN : Release(h, ok)

HNext ==
  \E h \in Handles :
    \/ Open(h) \/ OpenFails(h) \/ MergeOne(h) \/ Opened(h)
    \/ Close(h) \/ Die(h)
    \/ \E s \in Statements : Remember(h, s)
    \/ SaveStep(h)
    \/ Finalize(h)

HSpec == HInit /\ [][HNext]_hvars

\* File operations return and the garbage collector runs. The kernel grants a lock that
\* is free again and again: waiters of flock are woken in turn.
HFairness ==
  \A h \in Handles :
    /\ WF_hvars(MergeOne(h))
    /\ SF_hvars(Acquire(h))
    /\ WF_hvars(Load(h) \/ LoadFails(h))
    /\ WF_hvars(\E ok \in BOOLEAN : WriteTemporary(h, ok))
    /\ WF_hvars(Replace(h) \/ ReplaceFails(h))
    /\ WF_hvars(\E ok \in BOOLEAN : Release(h, ok))
    /\ WF_hvars(Finalize(h))

HFairSpec == HSpec /\ HFairness

(******************************* properties *******************************)

\* The file is what some Save wrote or what was found there, and a Save leaves at most
\* MaxEntries Statements without duplicates, whatever it found (ADR 0004).
FileWellFormed == file \in Foreign \/ WellFormed(file)

\* The in-memory History ends with what is still owed to the file, so a failed Save
\* takes nothing from recall and a later one brings the same order to the file.
RecallEndsWithPending == \A h \in Handles : EndsWith(statements[h], pending[h])

\* No update is lost between processes: a Statement of a file-backed History that is no
\* longer pending is in the file, unless the file was full and dropped its oldest.
NothingLost ==
  \A h \in Handles : backed[h] =>
    Range(statements[h]) \subseteq Range(file) \cup Range(pending[h]) \/ Full(file)

\* A new file ends with everything its writer owed, and has every Statement of the file
\* it replaces, or is full.
ReplacementMerges ==
  [][file' # file =>
       \E h \in Handles :
         /\ EndsWith(file', pending[h])
         /\ Range(file) \subseteq Range(file') \/ Full(file')]_hvars

\* The last a in q comes before the last b.
LastBefore(q, a, b) ==
  \E j \in DOMAIN q : q[j] = b /\ \A i \in DOMAIN q : i >= j => q[i] # a

\* r lists the MaxEntries most recent different Statements of q, oldest first: what is left
\* out of q comes before all of r, and r is then full.
IsMostRecent(r, q) ==
  /\ Len(r) =< MaxEntries
  /\ Range(r) \subseteq Range(q)
  /\ \A i, j \in DOMAIN r : i < j => LastBefore(q, r[i], r[j])
  /\ \A s \in Range(q) \ Range(r) :
       Len(r) = MaxEntries /\ \A i \in DOMAIN r : LastBefore(q, s, r[i])

\* A file is only replaced by the most recent Statements of what it held, followed by
\* what one process owed: concurrent Saves act as if they ran one after the other.
SavesAreAtomic ==
  [][file' # file =>
       \E h \in Handles : IsMostRecent(file', file \o pending[h])]_hvars

\* Append comes back: the interface does not wait for the lock for ever.
AppendReturns == \A h \in Handles : pc[h] = "saving" ~> pc[h] \in {"idle", "closed"}

=============================================================================
