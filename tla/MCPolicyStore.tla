--------------------------- MODULE MCPolicyStore ---------------------------
(***************************************************************************)
(* A small instance of PolicyStore for TLC.                                *)
(***************************************************************************)
EXTENDS PolicyStore, TLC

\* Threads are interchangeable, and so are agents, and settings.
Symmetric == Permutations(Threads) \cup Permutations(Agents) \cup Permutations(Settings)
=============================================================================
