------------------------------ MODULE Storage ------------------------------
(***************************************************************************)
(* The operational request log of policy_engine/storage.py: the table      *)
(* "requests", the budget and rate checks made against it, and the         *)
(* transactions that write it.                                             *)
(*                                                                         *)
(* One operator is one SQLite transaction.  try_reserve holds the write    *)
(* lock (BEGIN IMMEDIATE) across its reads and its insert; log_request,    *)
(* finalize and reset write first, so everything they do after that is     *)
(* under the lock too.  Each is therefore one step.                        *)
(*                                                                         *)
(* Time is a natural number of ticks.  Money is a whole number of cents,   *)
(* which is what the 1e-9 tolerance of try_reserve makes of its floats.    *)
(***************************************************************************)
EXTENDS Integers, FiniteSets

CONSTANTS
    Agents,            \* agent ids, known to the policy or not
    DayLength,         \* ticks in a UTC day
    VelocityWindow,    \* VELOCITY_WINDOW_SECONDS
    OutboundTimeout,   \* OUTBOUND_TIMEOUT_SECONDS
    NoLimit            \* None, for a control that is not set

ASSUME StorageAssumption ==
    /\ DayLength \in Nat \ {0}
    /\ VelocityWindow \in Nat \ {0}
    /\ OutboundTimeout \in Nat
    /\ NoLimit \notin Nat

VARIABLES
    requests,          \* row id -> row, for the rows now in the table
    lastId,            \* the AUTOINCREMENT counter: reset does not rewind it
    clock              \* what _now() returns

storageVars == <<requests, lastId, clock>>

\* Wrong: a parked request does not hold its budget.
CapCounting_NotHolds == {"approved", "pending"}

\* Rows in these states hold budget.
CapCounting == {"approved", "pending", "awaiting_approval"}

Decisions == CapCounting \cup {"denied"}

(***************************************************************************)
(* A row.  "born" is the decision it was inserted with (the "state" of its *)
(* request.reserved event); cap and limit are the daily_cap_usd and the    *)
(* max_requests_per_minute it was admitted under, kept so that properties  *)
(* can speak of them.                                                      *)
(***************************************************************************)
Limits == Nat \cup {NoLimit}

Row == [agent : Agents, amount : Nat, at : Nat, born : Decisions,
        decision : Decisions, cap : Nat, limit : Limits]

Day(t) == t \div DayLength

Counts(r) == requests[r].decision \in CapCounting

Holding(agent, day) ==
    {r \in DOMAIN requests : /\ requests[r].agent = agent
                             /\ Counts(r)
                             /\ Day(requests[r].at) = day}

\* The cents of a set of rows, one by one: SUM(amount_usd) is how many there are.
Cents(rows) == UNION {{r} \X (1 .. requests[r].amount) : r \in rows}

SpentOn(agent, day) == Cardinality(Cents(Holding(agent, day)))

\* Every row of the agent in the window counts, the denied ones included.
Recent(agent, now) ==
    {r \in DOMAIN requests : /\ requests[r].agent = agent
                             /\ requests[r].at > now - VelocityWindow}

\* Wrong: lets one request too many through.
OverVelocity_OffByOne(agent, limit) ==
    /\ limit # NoLimit
    /\ Cardinality(Recent(agent, clock)) > limit

OverVelocity(agent, limit) ==
    /\ limit # NoLimit
    /\ Cardinality(Recent(agent, clock)) >= limit

\* Wrong: the day is computed by the caller, a moment before the lock is held.
OverCap_CallersDay(agent, amount, cap) ==
    \A t \in {clock, clock - 1} : SpentOn(agent, Day(t)) + amount > cap

OverCap(agent, amount, cap) == SpentOn(agent, Day(clock)) + amount > cap

----------------------------------------------------------------------------
(***************************************************************************)
(* Transactions.                                                           *)
(***************************************************************************)
Extend(f, k, v) == [x \in DOMAIN f \cup {k} |-> IF x = k THEN v ELSE f[x]]

\* Wrong: the row's id is not taken.
Insert_ReusesId(row) ==
    /\ requests' = Extend(requests, lastId + 1, row)
    /\ UNCHANGED <<lastId, clock>>

Insert(row) ==
    /\ lastId' = lastId + 1
    /\ requests' = Extend(requests, lastId + 1, row)
    /\ UNCHANGED clock

\* log_request: ts was read before the transaction began.
LogRequest(agent, amount, ts) ==
    Insert([agent |-> agent, amount |-> amount, at |-> ts, born |-> "denied",
            decision |-> "denied", cap |-> 0, limit |-> NoLimit])

Rejected(agent, amount, cap, limit) ==
    OverVelocity(agent, limit) \/ OverCap(agent, amount, cap)

\* try_reserve, when it does not reject: ts and day are read under the lock.
TryReserve(agent, amount, cap, limit, state) ==
    /\ ~Rejected(agent, amount, cap, limit)
    /\ Insert([agent |-> agent, amount |-> amount, at |-> clock, born |-> state,
               decision |-> state, cap |-> cap, limit |-> limit])

\* finalize: UPDATE ... WHERE id = ?.  If reset removed the row, the read-back
\* finds nothing, the handler fails and nothing is written.
Finalize(r, decision) ==
    /\ requests' = [x \in DOMAIN requests |->
                       IF x = r THEN [requests[x] EXCEPT !.decision = decision]
                                ELSE requests[x]]
    /\ UNCHANGED <<lastId, clock>>

\* reap_stale_reservations, run by init_db before the engine serves anything.
Stale == {r \in DOMAIN requests : /\ requests[r].decision = "pending"
                                  /\ requests[r].at <= clock - OutboundTimeout}

ReapStale ==
    /\ requests' = [x \in DOMAIN requests |->
                       IF x \in Stale THEN [requests[x] EXCEPT !.decision = "denied"]
                                      ELSE requests[x]]
    /\ UNCHANGED <<lastId, clock>>

Reset ==
    /\ requests' = [x \in {} |-> 0]
    /\ UNCHANGED <<lastId, clock>>

StorageInit ==
    /\ requests = [x \in {} |-> 0]
    /\ lastId = 0
    /\ clock = 0

StorageTypeOK ==
    /\ lastId \in Nat
    /\ clock \in Nat
    /\ DOMAIN requests \subseteq 1 .. lastId
    /\ \A r \in DOMAIN requests : requests[r] \in Row
----------------------------------------------------------------------------
(***************************************************************************)
(* What the table promises.                                                *)
(***************************************************************************)
\* The daily cap (try_reserve), leaving out some rows: whatever has been finalized,
\* released, reaped or wiped since, a row that still holds budget fitted, with
\* everything admitted before it on its day, in the cap it was admitted under.
WithinCapBut(left) ==
    \A r \in DOMAIN requests \ left : Counts(r) =>
       Cardinality(Cents({q \in Holding(requests[r].agent, Day(requests[r].at)) \ left : q <= r}))
          <= requests[r].cap

Admitted(agent) == {r \in DOMAIN requests : /\ requests[r].agent = agent
                                            /\ requests[r].born # "denied"}

\* The rate limit (try_reserve): wherever a window is placed, the spends of an
\* agent admitted inside it are no more than the limit one of them was admitted
\* under.
RateBound ==
    \A a \in Agents, t \in 0 .. clock :
       LET inside == {r \in Admitted(a) :
                         t - VelocityWindow < requests[r].at /\ requests[r].at <= t}
       IN inside # {} =>
             \E r \in inside : \/ requests[r].limit = NoLimit
                               \/ Cardinality(inside) <= requests[r].limit
=============================================================================
