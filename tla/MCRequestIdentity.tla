------------------------- MODULE MCRequestIdentity -------------------------
(***************************************************************************)
(* A small instance of RequestIdentity for TLC.                            *)
(***************************************************************************)
EXTENDS RequestIdentity, TLC

\* Threads are interchangeable.
Symmetric == Permutations(Threads)
=============================================================================
