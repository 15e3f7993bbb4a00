--------------------------- MODULE MCSpendEngine ---------------------------
(***************************************************************************)
(* Small instances of SpendEngine for TLC.                                 *)
(***************************************************************************)
EXTENDS SpendEngine, TLC

\* Threads are interchangeable, and the liveness runs do not use this.
Threads == Permutations(Handlers)

Cfg0 == [cap |-> 2, perRequest |-> 2, threshold |-> NoLimit, limit |-> NoLimit,
         frozen |-> FALSE, allowed |-> TRUE]

\* One agent, plain budget and rate limit.
RaceConfigs == {[Cfg0 EXCEPT !.cap = 1, !.limit = 2], [Cfg0 EXCEPT !.limit = 2]}

\* A spend of 1 is paid at once, a spend of 2 is held.
CrashConfigs == {[Cfg0 EXCEPT !.threshold = 1]}

\* Every spend of 2 is held; freezing, revoking and lowering the cap.
HeldConfig == [Cfg0 EXCEPT !.threshold = 1]

HoldConfigs == {HeldConfig, [HeldConfig EXCEPT !.frozen = TRUE],
                [HeldConfig EXCEPT !.allowed = FALSE], [HeldConfig EXCEPT !.cap = 1]}
=============================================================================
