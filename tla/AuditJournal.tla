---------------------------- MODULE AuditJournal ----------------------------
(***************************************************************************)
(* What auditing promises, whatever the Model, its goroutines and the      *)
(* modals do: an append-only journal that no execution outruns.            *)
(***************************************************************************)
EXTENDS Naturals, Sequences

CONSTANT Queries   \* execution identities

VARIABLES
  journal,   \* the events written, oldest first
  started,   \* identities whose Statement was handed to the database
  returned   \* identities whose Statement has come back from it

jvars == <<journal, started, returned>>

Entry(e, q) == [event |-> e, id |-> q]
Written(e, q) == \E i \in 1 .. Len(journal) : journal[i] = Entry(e, q)

JInit ==
  /\ journal = <<>>
  /\ started = {}
  /\ returned = {}

\* One attempt per identity writes the submitted event.
Submit(q) ==
  /\ ~Written("submitted", q)
  /\ journal' = Append(journal, Entry("submitted", q))
  /\ UNCHANGED <<started, returned>>

\* Fail closed: the database sees q only after its submitted event is written.
Start(q) ==
  /\ Written("submitted", q)
  /\ q \notin started
  /\ started' = started \cup {q}
  /\ UNCHANGED <<journal, returned>>

Finish(q) ==
  /\ q \in started \ returned
  /\ returned' = returned \cup {q}
  /\ UNCHANGED <<journal, started>>

\* The completed event of q, or one more copy of it after a torn success.
Complete(q) ==
  /\ q \in returned
  /\ journal' = Append(journal, Entry("completed", q))
  /\ UNCHANGED <<started, returned>>

JNext == \E q \in Queries : Submit(q) \/ Start(q) \/ Finish(q) \/ Complete(q)

JSpec == JInit /\ [][JNext]_jvars

=============================================================================
