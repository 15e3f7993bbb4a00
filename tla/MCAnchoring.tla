---------------------------- MODULE MCAnchoring ----------------------------
(***************************************************************************)
(* Small instances of Anchoring for TLC.                                   *)
(***************************************************************************)
EXTENDS Anchoring, TLC

\* Threads of one kind are interchangeable; the liveness runs do not use this.
Threads == Permutations(Anchorers) \cup Permutations(Writers)
=============================================================================
