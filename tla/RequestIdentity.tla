-------------------------- MODULE RequestIdentity --------------------------
(***************************************************************************)
(* Who may call POST /spend: sign_request and verify_request of            *)
(* common/identity.py, with the table of nonces seen.  A signed request    *)
(* may be delivered any number of times, at any time, and so may a copy    *)
(* whose arguments are not the ones that were signed.                      *)
(*                                                                         *)
(* verify_request reads the clock, checks the signature, and only then     *)
(* takes the lock of the table: the clock may have moved on.  A signer's   *)
(* clock is not the engine's.                                              *)
(***************************************************************************)
EXTENDS Integers

CONSTANTS
    Agents,
    Nonces,            \* nonces are drawn per agent: two agents may draw one
    Threads,
    RequestTTL,        \* REQUEST_TTL_SECONDS
    Ahead, Behind,     \* how far a signer's clock may be off the engine's
    MaxClock, MaxRestarts

ASSUME IdentityAssumption ==
    /\ {RequestTTL, Ahead, Behind, MaxClock, MaxRestarts} \subseteq Nat
    /\ Agents # {} /\ Nonces # {}

VARIABLES
    clock,
    signed,            \* the requests signed so far, and their timestamps
    seen,              \* _seen_nonces
    threads,           \* what each verify_request is doing
    restarts

(***************************************************************************)
(* History of this process, which no action reads: how often it let each   *)
(* request in, and those it refused as "replayed"; the latest clock that   *)
(* the table was pruned by; the requests it let in before their time, and  *)
(* those it let in after a thread with a later clock had pruned the table. *)
(***************************************************************************)
VARIABLES accepted, replayed, swept, early, overtaken

history == <<accepted, replayed, swept, early, overtaken>>

vars == <<clock, signed, seen, threads, restarts, history>>

\* A request is told by its agent and its nonce.
Requests == Agents \X Nonces

\* Wrong: the table is looked up by nonce alone.
Key_NonceOnly(request) == request[2]

Key(request) == request

Idle == [pc |-> "idle", now |-> 0, request |-> CHOOSE r \in Requests : TRUE, genuine |-> FALSE]

Extend(f, x, y) == [z \in DOMAIN f \cup {x} |-> IF z = x THEN y ELSE f[z]]

\* sign_request, in the agent or behind /admin/sign: a new nonce each time.
Sign(request) ==
    /\ request \notin DOMAIN signed
    /\ \E timestamp \in clock - Behind .. clock + Ahead :
          signed' = Extend(signed, request, timestamp)
    /\ UNCHANGED <<clock, seen, threads, restarts, history>>

Fresh(now, timestamp) == timestamp - RequestTTL <= now /\ now <= timestamp + RequestTTL

\* A request arrives with its signature, or with one that was made for another.
Receive(t, request, genuine) ==
    /\ threads[t].pc = "idle" /\ request \in DOMAIN signed
    /\ Fresh(clock, signed[request])
    /\ threads' = [threads EXCEPT ![t] =
          [pc |-> "signature", now |-> clock, request |-> request, genuine |-> genuine]]
    /\ UNCHANGED <<clock, signed, seen, restarts, history>>

\* Wrong: the signature is left for later.
CheckSignature_Skips(t) ==
    /\ threads[t].pc = "signature"
    /\ threads' = [threads EXCEPT ![t].pc = "nonce"]
    /\ UNCHANGED <<clock, signed, seen, restarts, history>>

CheckSignature(t) ==
    /\ threads[t].pc = "signature"
    /\ threads' = IF threads[t].genuine
                  THEN [threads EXCEPT ![t].pc = "nonce"]
                  ELSE [threads EXCEPT ![t] = Idle]
    /\ UNCHANGED <<clock, signed, seen, restarts, history>>

\* Wrong: forgets a nonce a moment early.
Kept_TooFew(now) == {k \in DOMAIN seen : now - seen[k] < RequestTTL}

\* What _prune_expired leaves in the table.
Kept(now) == {k \in DOMAIN seen : now - seen[k] <= RequestTTL}

Pruned(now) == [k \in Kept(now) |-> seen[k]]

Later(x, y) == IF x < y THEN y ELSE x

\* The rest happens under _seen_lock.
Admit(t) ==
    LET request == threads[t].request
        now == threads[t].now
    IN  /\ threads[t].pc = "nonce" /\ Key(request) \notin Kept(now)
        /\ seen' = Extend(Pruned(now), Key(request), now)
        /\ accepted' = IF threads[t].genuine THEN [accepted EXCEPT ![request] = @ + 1]
                       ELSE accepted
        /\ threads' = [threads EXCEPT ![t] = Idle]
        /\ swept' = Later(swept, now)
        /\ early' = IF now < signed[request] THEN early \cup {request} ELSE early
        /\ overtaken' = IF now < swept THEN overtaken \cup {request} ELSE overtaken
        /\ UNCHANGED <<clock, signed, replayed, restarts>>

Refuse(t) ==
    LET request == threads[t].request
        now == threads[t].now
    IN  /\ threads[t].pc = "nonce" /\ Key(request) \in Kept(now)
        /\ seen' = Pruned(now)
        /\ replayed' = replayed \cup {request}
        /\ threads' = [threads EXCEPT ![t] = Idle]
        /\ swept' = Later(swept, now)
        /\ UNCHANGED <<clock, signed, accepted, early, overtaken, restarts>>

\* The table is in memory only: what was let in before is not remembered.
Restart ==
    /\ restarts < MaxRestarts
    /\ restarts' = restarts + 1
    /\ seen' = [k \in {} |-> 0]
    /\ threads' = [t \in Threads |-> Idle]
    /\ accepted' = [r \in Requests |-> 0]
    /\ replayed' = {} /\ early' = {} /\ overtaken' = {} /\ swept' = 0
    /\ UNCHANGED <<clock, signed>>

Tick ==
    /\ clock < MaxClock
    /\ clock' = clock + 1
    /\ UNCHANGED <<signed, seen, threads, restarts, history>>

Rest == (\A t \in Threads : threads[t].pc = "idle") /\ UNCHANGED vars

Init ==
    /\ clock = 0
    /\ signed = [r \in {} |-> 0]
    /\ seen = [k \in {} |-> 0]
    /\ threads = [t \in Threads |-> Idle]
    /\ accepted = [r \in Requests |-> 0]
    /\ replayed = {} /\ early = {} /\ overtaken = {} /\ swept = 0
    /\ restarts = 0

Verify(t) == CheckSignature(t) \/ Admit(t) \/ Refuse(t)

Next ==
    \/ \E r \in Requests : Sign(r)
    \/ \E t \in Threads, r \in Requests, genuine \in BOOLEAN : Receive(t, r, genuine)
    \/ \E t \in Threads : Verify(t)
    \/ Restart \/ Tick \/ Rest

Spec == Init /\ [][Next]_vars

Thread == [pc : {"idle", "signature", "nonce"}, now : Nat, request : Requests,
           genuine : BOOLEAN]

IdentityTypeOK ==
    /\ clock \in Nat /\ restarts \in Nat
    /\ DOMAIN signed \subseteq Requests /\ signed \in [DOMAIN signed -> Int]
    /\ DOMAIN seen \subseteq Requests /\ seen \in [DOMAIN seen -> Nat]
    /\ threads \in [Threads -> Thread]
    /\ accepted \in [Requests -> Nat]
    /\ replayed \subseteq Requests /\ early \subseteq Requests /\ overtaken \subseteq Requests
    /\ swept \in Nat
----------------------------------------------------------------------------
\* However often a request is delivered, and to however many threads at once, the
\* process lets it in once (verify_request: "a valid signature replayed twice must not
\* pass").  A request whose timestamp was still to come, which abs() lets pass, may
\* come back once more when its nonce has been pruned; and nothing is promised of one
\* that got the lock after a thread whose clock was later.
AcceptedOnce ==
    \A r \in Requests \ overtaken : accepted[r] <= IF r \in early THEN 2 ELSE 1

\* Nobody but the request itself uses up its nonce, neither another agent's nor a
\* copy with a wrong signature: what is refused as replayed was let in before.
RefusedOnlyIfAccepted == \A r \in replayed : accepted[r] > 0
=============================================================================
