----------------------------- MODULE MCSqlcery -----------------------------
(***************************************************************************)
(* Sqlcery for TLC: an auto-connect and one switch to another Connection.  *)
(***************************************************************************)
EXTENDS Sqlcery, TLC

\* Execution identities are interchangeable.
Identities == Permutations(Queries)
=============================================================================
