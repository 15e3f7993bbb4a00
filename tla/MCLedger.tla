------------------------------ MODULE MCLedger ------------------------------
(***************************************************************************)
(* Small instances of AuditLedger for TLC.                                 *)
(***************************************************************************)
EXTENDS AuditLedger, TLC

\* Writers are interchangeable, and so are drillers.
Threads == Permutations(Writers) \cup Permutations(Drillers)
=============================================================================
