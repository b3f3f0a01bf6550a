---------------------------- MODULE MCExecution ----------------------------
(***************************************************************************)
(* Execution for TLC: one Session, a few executions, one Statement.         *)
(***************************************************************************)
EXTENDS Execution, TLC

\* Execution identities are interchangeable.
Identities == Permutations(Queries)
=============================================================================
