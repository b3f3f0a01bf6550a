---------------------------- MODULE MCSwitching ----------------------------
(***************************************************************************)
(* Switching for TLC: two Connections and a few calls of open.             *)
(***************************************************************************)
EXTENDS Switching, TLC

\* Attempts are interchangeable, and so are the Connections the Picker lists.
Interchangeable == Permutations(Attempts) \cup Permutations(Conns)
=============================================================================
