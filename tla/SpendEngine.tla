---------------------------- MODULE SpendEngine ----------------------------
(***************************************************************************)
(* The spend path of the policy engine (policy_engine/app.py) over its     *)
(* request log: the handlers of POST /spend, of POST                       *)
(* /admin/holds/{id}/approve and of .../reject run as threads of one       *)
(* process and interleave with one another, with edits of the policy, with *)
(* /admin/reset, with the resource server answering or not answering, and  *)
(* with the process dying and coming back.                                 *)
(*                                                                         *)
(* A handler is a record: where it is (pc) and its local variables.  A     *)
(* step reads shared state once or runs one transaction.  FastAPI runs     *)
(* these handlers in a thread pool, so anything may happen between two     *)
(* steps.                                                                  *)
(*                                                                         *)
(* agent_cfg is a reference into the dict that policy_store caches.        *)
(* PATCH and freeze update that dict in place, so a handler reads through  *)
(* it whatever is there by then (view = Live); deregistering the agent or  *)
(* reloading the file replaces the object, and the handler keeps the old   *)
(* one (view = a configuration).                                           *)
(***************************************************************************)
EXTENDS Storage, Sequences

CONSTANTS
    Handlers,          \* threads of the pool
    Configs,           \* the agent configurations the policy may hold
    Amounts,           \* amounts a request may ask for, in cents
    Live, Absent,      \* markers: see view and policy
    MaxClock, MaxSpends, MaxReviews, MaxEdits, MaxResets, MaxCrashes

Config == [cap : Nat, perRequest : Nat, threshold : Limits, limit : Limits,
           frozen : BOOLEAN, allowed : BOOLEAN]

ASSUME EngineAssumption ==
    /\ Configs \subseteq Config
    /\ Amounts \subseteq Nat
    /\ Live \notin Config /\ Absent \notin Config /\ Live # Absent
    /\ {MaxClock, MaxSpends, MaxReviews, MaxEdits, MaxResets, MaxCrashes} \subseteq Nat

VARIABLES
    policy,            \* agent -> the configuration policy_store serves, or Absent
    handlers,          \* thread -> what it is doing
    calls,             \* the paid calls sent, in order, and what became of each
    granted,           \* rows with an approval.granted event in the ledger
    up,                \* the engine process is running
    startedAt,         \* when it last started
    used               \* how much of each bound has been used

(***************************************************************************)
(* History, which no action reads: the rows that two handlers were at work *)
(* on at once, because a review began while another handler had the row;   *)
(* and the rows whose handler ended in an exception that kept it from      *)
(* recording what became of the payment.                                   *)
(***************************************************************************)
VARIABLES contested, dropped

history == <<contested, dropped>>

engineVars == <<policy, handlers, calls, granted, up, startedAt, used, history>>
vars == <<storageVars, engineVars>>

PayPcs == {"setup", "await", "settled", "failed"}

Pcs == {"idle", "frozen", "allowed", "ceiling", "threshold", "caps", "reserve",
        "deny", "log", "park", "lookup", "block", "grant", "reject"} \cup PayPcs

(***************************************************************************)
(* A handler's locals.  row is the reservation it is working on, call the  *)
(* paid call it waits for (0: none).  barred is history only: the reasons  *)
(* for which policy has kept the agent from spending ever since the        *)
(* handler began.                                                          *)
(***************************************************************************)
Idle == [kind |-> "none", pc |-> "idle", agent |-> Absent, amount |-> 0,
         view |-> Absent, hold |-> FALSE, cap |-> 0, limit |-> NoLimit,
         at |-> 0, row |-> 0, call |-> 0, barred |-> {}]

Call == [row : Nat, state : {"open", "settled", "refused"}, lost : BOOLEAN]

\* Why policy keeps an agent from spending at all.
Bars(cfg) ==
    IF cfg = Absent THEN {"deregistered"}
    ELSE (IF cfg.frozen THEN {"frozen"} ELSE {})
           \cup (IF cfg.allowed THEN {} ELSE {"revoked"})

At(h, pc) == up /\ handlers[h].pc = pc

Become(h, rec) == handlers' = [handlers EXCEPT ![h] = rec]

Goto(h, pc) == Become(h, [handlers[h] EXCEPT !.pc = pc])

\* agent_cfg, as the handler sees it now.
Cfg(h) == IF handlers[h].view = Live THEN policy[handlers[h].agent]
                                     ELSE handlers[h].view

\* Where a refusal by policy takes a handler.
Refusal(h) == IF handlers[h].kind = "spend" THEN "deny" ELSE "block"

\* One policy check: reads agent_cfg, and goes on or refuses.
Check(h, from, passes, next) ==
    /\ At(h, from)
    /\ Become(h, [handlers[h] EXCEPT
                    !.pc = IF passes THEN next ELSE Refusal(h)])
    /\ UNCHANGED <<storageVars, policy, calls, granted, up, startedAt, used, history>>

Use(bound) == used' = [used EXCEPT ![bound] = @ + 1]

----------------------------------------------------------------------------
(***************************************************************************)
(* POST /spend.                                                            *)
(***************************************************************************)

\* The policy is fetched and the agent looked up.  verify_request touches no
\* state of this module: its verdict is the choice of ok.
Spend(h, agent, amount) ==
    /\ At(h, "idle") /\ used.spends < MaxSpends
    /\ \E ok \in BOOLEAN :
          Become(h, [Idle EXCEPT
              !.kind = "spend", !.agent = agent,
              !.amount = IF policy[agent] = Absent THEN 0 ELSE amount,
              !.view = IF policy[agent] = Absent THEN Absent ELSE Live,
              !.pc = IF ok /\ policy[agent] # Absent THEN "frozen" ELSE "deny",
              !.barred = Bars(policy[agent])])
    /\ Use("spends")
    /\ UNCHANGED <<storageVars, policy, calls, granted, up, startedAt, history>>

CheckFrozen(h) == Check(h, "frozen", ~Cfg(h).frozen, "allowed")

\* Also the last check of approve_hold, which goes on to the grant.
CheckAllowed(h) ==
    Check(h, "allowed", Cfg(h).allowed,
          IF handlers[h].kind = "spend" THEN "ceiling" ELSE "grant")

\* _resolve_params: the arguments may be wrong, whatever the agent's policy.
BadParams(h) ==
    /\ At(h, "ceiling")
    /\ Goto(h, "deny")
    /\ UNCHANGED <<storageVars, policy, calls, granted, up, startedAt, used, history>>

CheckCeiling(h) ==
    Check(h, "ceiling", handlers[h].amount <= Cfg(h).perRequest, "threshold")

NeedsApproval(cfg, amount) == cfg.threshold # NoLimit /\ amount > cfg.threshold

CheckThreshold(h) ==
    /\ At(h, "threshold")
    /\ Become(h, [handlers[h] EXCEPT
                    !.pc = "caps",
                    !.hold = NeedsApproval(Cfg(h), handlers[h].amount)])
    /\ UNCHANGED <<storageVars, policy, calls, granted, up, startedAt, used, history>>

\* The arguments of try_reserve are evaluated before it waits for the lock.
ReadCaps(h) ==
    /\ At(h, "caps")
    /\ Become(h, [handlers[h] EXCEPT
                    !.pc = "reserve", !.cap = Cfg(h).cap, !.limit = Cfg(h).limit])
    /\ UNCHANGED <<storageVars, policy, calls, granted, up, startedAt, used, history>>

\* Wrong: a parked request goes on to the payment.
Reserve_PaysHeld(h) ==
    LET me == handlers[h] IN
    /\ At(h, "reserve")
    /\ \/ /\ Rejected(me.agent, me.amount, me.cap, me.limit)
          /\ Goto(h, "deny")
          /\ UNCHANGED storageVars
       \/ /\ TryReserve(me.agent, me.amount, me.cap, me.limit,
                        IF me.hold THEN "awaiting_approval" ELSE "pending")
          /\ Become(h, [me EXCEPT !.pc = "setup", !.row = lastId'])
    /\ UNCHANGED <<policy, calls, granted, up, startedAt, used, history>>

Reserve(h) ==
    LET me == handlers[h] IN
    /\ At(h, "reserve")
    /\ \/ /\ Rejected(me.agent, me.amount, me.cap, me.limit)
          /\ Goto(h, "deny")
          /\ UNCHANGED storageVars
       \/ /\ TryReserve(me.agent, me.amount, me.cap, me.limit,
                        IF me.hold THEN "awaiting_approval" ELSE "pending")
          /\ Become(h, [me EXCEPT !.pc = IF me.hold THEN "park" ELSE "setup",
                                  !.row = lastId'])
    /\ UNCHANGED <<policy, calls, granted, up, startedAt, used, history>>

\* The hold's own finalize, which writes its reason and the state it already had.
Park(h) ==
    /\ At(h, "park")
    /\ Finalize(handlers[h].row, "awaiting_approval")
    /\ Become(h, Idle)
    /\ UNCHANGED <<policy, calls, granted, up, startedAt, used, history>>

\* _deny: log_request reads the time first, then opens its transaction.
Deny(h) ==
    /\ At(h, "deny")
    /\ Become(h, [handlers[h] EXCEPT !.pc = "log", !.at = clock])
    /\ UNCHANGED <<storageVars, policy, calls, granted, up, startedAt, used, history>>

Log(h) ==
    /\ At(h, "log")
    /\ LogRequest(handlers[h].agent, handlers[h].amount, handlers[h].at)
    /\ Become(h, Idle)
    /\ UNCHANGED <<policy, calls, granted, up, startedAt, used, history>>

----------------------------------------------------------------------------
(***************************************************************************)
(* _execute_payment, shared by /spend and by the release of a hold.        *)
(***************************************************************************)

\* Wrong: the exception leaves the handler, and the reservation as it is.
SetupFails_Raises(h) ==
    /\ At(h, "setup")
    /\ Become(h, Idle)
    /\ UNCHANGED <<storageVars, policy, calls, granted, up, startedAt, used, history>>

\* _session_for failed.
SetupFails(h) ==
    /\ At(h, "setup")
    /\ Goto(h, "failed")
    /\ UNCHANGED <<storageVars, policy, calls, granted, up, startedAt, used, history>>

\* What stands outside the two try blocks raised (mint_token, the URL): a 500,
\* and the reservation stays as it is.
PaymentRaises(h) ==
    /\ At(h, "setup")
    /\ Become(h, Idle)
    /\ dropped' = dropped \cup {handlers[h].row}
    /\ UNCHANGED <<storageVars, policy, calls, granted, up, startedAt, used, contested>>

Send(h) ==
    /\ At(h, "setup")
    /\ calls' = Append(calls, [row |-> handlers[h].row, state |-> "open", lost |-> FALSE])
    /\ Become(h, [handlers[h] EXCEPT !.pc = "await", !.call = Len(calls) + 1])
    /\ UNCHANGED <<storageVars, policy, granted, up, startedAt, used, history>>

\* The resource server settles the payment and answers 2xx, or answers anything
\* else and takes nothing.  It does so whether or not anyone still waits.
Answer(c) ==
    /\ calls[c].state = "open"
    /\ \E s \in {"settled", "refused"} : calls' = [calls EXCEPT ![c].state = s]
    /\ UNCHANGED <<storageVars, policy, handlers, granted, up, startedAt, used, history>>

Receive(h) ==
    /\ At(h, "await") /\ calls[handlers[h].call].state # "open"
    /\ Goto(h, IF calls[handlers[h].call].state = "settled" THEN "settled" ELSE "failed")
    /\ UNCHANGED <<storageVars, policy, calls, granted, up, startedAt, used, history>>

\* session.get raised: the timeout, or a connection that broke.  The call may
\* have been settled by then, or be settled later.
GiveUp(h) ==
    /\ At(h, "await")
    /\ calls' = [calls EXCEPT ![handlers[h].call].lost = TRUE]
    /\ Goto(h, "failed")
    /\ UNCHANGED <<storageVars, policy, granted, up, startedAt, used, history>>

FinalizeApproved(h) ==
    /\ At(h, "settled")
    /\ Finalize(handlers[h].row, "approved")
    /\ Become(h, Idle)
    /\ UNCHANGED <<policy, calls, granted, up, startedAt, used, history>>

\* Every failed payment, every blocked release and every rejection ends here.
FinalizeDenied(h) ==
    /\ At(h, "failed")
    /\ Finalize(handlers[h].row, "denied")
    /\ Become(h, Idle)
    /\ UNCHANGED <<policy, calls, granted, up, startedAt, used, history>>

(***************************************************************************)
(* Another connection held the write lock for longer than sqlite3.connect  *)
(* waits: the transaction raises, the handler ends with a 500 and the      *)
(* table stays as it is.  If this was the finalize of a payment, what      *)
(* became of it is not recorded; if the payment had settled, its answer is *)
(* lost.                                                                   *)
(***************************************************************************)
DatabaseBusy(h) ==
    LET me == handlers[h] IN
    /\ up /\ me.pc \in {"reserve", "park", "log", "settled", "failed"}
    /\ Become(h, Idle)
    /\ dropped' = IF me.pc \in {"settled", "failed"} THEN dropped \cup {me.row} ELSE dropped
    /\ calls' = IF me.pc = "settled" THEN [calls EXCEPT ![me.call].lost = TRUE] ELSE calls
    /\ UNCHANGED <<storageVars, policy, granted, up, startedAt, used, contested>>

----------------------------------------------------------------------------
(***************************************************************************)
(* POST /admin/holds/{id}/approve and .../reject.                          *)
(***************************************************************************)

\* A handler has the row in its hands.
AtWork(r) == \E k \in Handlers : handlers[k].row = r

\* Wrong: the row's decision is not looked at.
Review_AnyDecision(h, r, kind, pc) ==
    /\ At(h, "idle") /\ used.reviews < MaxReviews
    /\ Become(h, [Idle EXCEPT !.kind = kind, !.pc = pc, !.row = r,
                             !.agent = requests[r].agent,
                             !.barred = Bars(policy[requests[r].agent])])
    /\ contested' = IF AtWork(r) THEN contested \cup {r} ELSE contested
    /\ Use("reviews")
    /\ UNCHANGED <<storageVars, policy, calls, granted, up, startedAt, dropped>>

\* get_request found a hold (anything else is a 404 or a 409 and changes
\* nothing).  Whether another handler is at work on that row is not looked at.
Review(h, r, kind, pc) ==
    /\ At(h, "idle") /\ used.reviews < MaxReviews
    /\ requests[r].decision = "awaiting_approval"
    /\ Become(h, [Idle EXCEPT !.kind = kind, !.pc = pc, !.row = r,
                             !.agent = requests[r].agent,
                             !.barred = Bars(policy[requests[r].agent])])
    /\ contested' = IF AtWork(r) THEN contested \cup {r} ELSE contested
    /\ Use("reviews")
    /\ UNCHANGED <<storageVars, policy, calls, granted, up, startedAt, dropped>>

Approve(h, r) == Review(h, r, "approve", "lookup")

RejectHold(h, r) == Review(h, r, "reject", "reject")

\* Wrong: only that the agent still exists is looked at.
CheckAgent_AndNoMore(h) ==
    LET known == policy[handlers[h].agent] # Absent IN
    /\ At(h, "lookup")
    /\ Become(h, [handlers[h] EXCEPT !.pc = IF known THEN "grant" ELSE "block",
                                    !.view = IF known THEN Live ELSE Absent])
    /\ UNCHANGED <<storageVars, policy, calls, granted, up, startedAt, used, history>>

\* The policy as it is at release time; CheckFrozen and CheckAllowed follow.
CheckAgent(h) ==
    LET known == policy[handlers[h].agent] # Absent IN
    /\ At(h, "lookup")
    /\ Become(h, [handlers[h] EXCEPT !.pc = IF known THEN "frozen" ELSE "block",
                                    !.view = IF known THEN Live ELSE Absent])
    /\ UNCHANGED <<storageVars, policy, calls, granted, up, startedAt, used, history>>

\* append_event("approval.granted"), then on to the payment.
Grant(h) ==
    /\ At(h, "grant")
    /\ granted' = granted \cup {handlers[h].row}
    /\ Goto(h, "setup")
    /\ UNCHANGED <<storageVars, policy, calls, up, startedAt, used, history>>

\* append_event("approval.blocked") or ("approval.rejected").
RecordRefusal(h) ==
    /\ At(h, "block") \/ At(h, "reject")
    /\ Goto(h, "failed")
    /\ UNCHANGED <<storageVars, policy, calls, granted, up, startedAt, used, history>>

\* append_event raised (two appends met on one sequence number): a 500, and
\* the hold stays as it is.
EventLost(h) ==
    /\ At(h, "block") \/ At(h, "reject") \/ At(h, "grant")
    /\ Become(h, Idle)
    /\ UNCHANGED <<storageVars, policy, calls, granted, up, startedAt, used, history>>

----------------------------------------------------------------------------
(***************************************************************************)
(* The policy (policy_store.py), as the handlers see it change.            *)
(***************************************************************************)

\* Handlers holding a detached agent's configuration keep the old object.
ChangePolicy(p, detached) ==
    /\ up /\ used.edits < MaxEdits /\ Use("edits")
    /\ policy' = p
    /\ handlers' = [h \in Handlers |->
          [handlers[h] EXCEPT
             !.view = IF @ = Live /\ handlers[h].agent \in detached
                      THEN policy[handlers[h].agent] ELSE @,
             !.barred = {b \in @ : b \in Bars(p[handlers[h].agent])}]]
    /\ UNCHANGED <<storageVars, calls, granted, up, startedAt, history>>

\* update_agent (PATCH, and freeze): the cached dict is updated in place.
Patch(a, cfg) ==
    /\ policy[a] # Absent
    /\ ChangePolicy([policy EXCEPT ![a] = cfg], {})

AddAgent(a, cfg) ==
    /\ policy[a] = Absent /\ ~cfg.frozen
    /\ ChangePolicy([policy EXCEPT ![a] = cfg], {})

RemoveAgent(a) ==
    /\ policy[a] # Absent
    /\ ChangePolicy([policy EXCEPT ![a] = Absent], {a})

\* The file was edited: _load_locked replaces the whole cached object.
HotReload(p) == ChangePolicy(p, Agents)

----------------------------------------------------------------------------
(***************************************************************************)
(* Everything else that happens to the engine.                             *)
(***************************************************************************)
ResetLog ==
    /\ up /\ used.resets < MaxResets /\ Use("resets")
    /\ Reset
    /\ UNCHANGED <<policy, handlers, calls, granted, up, startedAt, history>>

\* The calls whose answer a handler waits for, or has and is yet to record.
Awaited == {handlers[h].call : h \in {k \in Handlers : handlers[k].pc \in {"await", "settled"}}}

\* Every thread dies.  The calls they had sent are on their own.
Crash ==
    /\ up /\ used.crashes < MaxCrashes /\ Use("crashes")
    /\ up' = FALSE
    /\ handlers' = [h \in Handlers |-> Idle]
    /\ calls' = [c \in DOMAIN calls |->
                    IF c \in Awaited THEN [calls[c] EXCEPT !.lost = TRUE] ELSE calls[c]]
    /\ UNCHANGED <<storageVars, policy, granted, startedAt, history>>

\* Wrong: reservations are also reaped while requests are being served.
Restart_ReapsAnyTime ==
    /\ up' = TRUE /\ startedAt' = clock
    /\ ReapStale
    /\ UNCHANGED <<policy, handlers, calls, granted, used, history>>

\* init_db, then the handlers: however soon after the crash.
Restart ==
    /\ ~up
    /\ up' = TRUE /\ startedAt' = clock
    /\ ReapStale
    /\ UNCHANGED <<policy, handlers, calls, granted, used, history>>

Tick ==
    /\ clock < MaxClock /\ clock' = clock + 1
    /\ UNCHANGED <<requests, lastId, engineVars>>

\* Nothing left to do: lets a search for deadlock find stuck handlers only.
Rest ==
    /\ up /\ \A h \in Handlers : handlers[h].pc = "idle"
    /\ UNCHANGED vars

----------------------------------------------------------------------------
Init ==
    /\ StorageInit
    /\ policy \in [Agents -> Configs \cup {Absent}]
    /\ handlers = [h \in Handlers |-> Idle]
    /\ calls = << >>
    /\ granted = {}
    /\ up = TRUE
    /\ startedAt = 0
    /\ contested = {} /\ dropped = {}
    /\ used = [spends |-> 0, reviews |-> 0, edits |-> 0, resets |-> 0, crashes |-> 0]

Step(h) ==
    \/ CheckFrozen(h) \/ CheckAllowed(h) \/ BadParams(h) \/ CheckCeiling(h)
    \/ CheckThreshold(h) \/ ReadCaps(h) \/ Reserve(h) \/ Park(h)
    \/ Deny(h) \/ Log(h)
    \/ SetupFails(h) \/ PaymentRaises(h) \/ Send(h) \/ Receive(h) \/ GiveUp(h)
    \/ FinalizeApproved(h) \/ FinalizeDenied(h) \/ DatabaseBusy(h)
    \/ CheckAgent(h) \/ Grant(h) \/ RecordRefusal(h) \/ EventLost(h)

Begin(h) ==
    \/ \E a \in Agents, n \in Amounts : Spend(h, a, n)
    \/ \E r \in DOMAIN requests : Approve(h, r) \/ RejectHold(h, r)

EditPolicy ==
    \/ \E a \in Agents : \/ RemoveAgent(a)
                         \/ \E cfg \in Configs : Patch(a, cfg) \/ AddAgent(a, cfg)
    \/ \E p \in [Agents -> Configs \cup {Absent}] : HotReload(p)

Next ==
    \/ \E h \in Handlers : Begin(h) \/ Step(h)
    \/ \E c \in DOMAIN calls : Answer(c)
    \/ EditPolicy
    \/ ResetLog \/ Crash \/ Restart \/ Tick \/ Rest

Spec == Init /\ [][Next]_vars

(***************************************************************************)
(* A thread that can run does run; session.get returns or raises, because  *)
(* it has a timeout; a dead engine is restarted; time passes.  Nothing is  *)
(* assumed of callers, reviewers, operators or the resource server.        *)
(***************************************************************************)
Fairness ==
    /\ \A h \in Handlers : WF_vars(Step(h))
    /\ WF_vars(Restart) /\ WF_vars(Tick)

FairSpec == Spec /\ Fairness

----------------------------------------------------------------------------
(***************************************************************************)
(* Properties.                                                             *)
(***************************************************************************)
Handler == [kind : {"none", "spend", "approve", "reject"}, pc : Pcs,
            agent : Agents \cup {Absent}, amount : Nat,
            view : Configs \cup {Live, Absent}, hold : BOOLEAN, cap : Nat,
            limit : Limits, at : Nat, row : Nat, call : Nat,
            barred : SUBSET {"deregistered", "frozen", "revoked"}]

\* Every variable has its type.
TypeOK ==
    /\ StorageTypeOK
    /\ policy \in [Agents -> Configs \cup {Absent}]
    /\ handlers \in [Handlers -> Handler]
    /\ calls \in Seq(Call)
    /\ granted \subseteq Nat
    /\ up \in BOOLEAN
    /\ startedAt \in Nat
    /\ contested \subseteq Nat /\ dropped \subseteq Nat
    /\ used \in [{"spends", "reviews", "edits", "resets", "crashes"} -> Nat]

\* The daily cap, over the rows that no two handlers were at work on at once.  A
\* denial that a second handler overwrites frees budget and takes it back.
WithinCap == WithinCapBut(contested)

\* While a handler is on its way to pay, or pays, or has yet to record that it
\* paid, the row it pays for holds budget, unless /admin/reset wiped it or a
\* second handler was at work on it.
PayingHoldsBudget ==
    \A h \in Handlers :
       /\ handlers[h].pc \in PayPcs
       /\ handlers[h].row \in DOMAIN requests \ contested
       => Counts(handlers[h].row)

\* "Nothing past this line may finalize the reservation as denied": a row is
\* denied although its payment settled only if the engine never got the answer,
\* or never recorded it, or two handlers were at work on the row.
SettledNotDenied ==
    \A c \in DOMAIN calls :
       /\ calls[c].state = "settled" /\ ~calls[c].lost
       /\ calls[c].row \in DOMAIN requests \ contested
       => requests[calls[c].row].decision # "denied"

\* No reservation is paid for twice, unless the engine lost the answer of the
\* first payment, or two handlers were at work on the row: a second call goes out
\* only after a refusal or a lost answer.
OnePayment ==
    \A c, d \in DOMAIN calls :
       c < d /\ calls[c].row = calls[d].row =>
          calls[c].lost \/ calls[c].state = "refused" \/ calls[c].row \in contested

\* A hold cannot be approved twice: no reservation is settled twice.
PaidOnce ==
    \A c, d \in DOMAIN calls :
       /\ calls[c].row = calls[d].row
       /\ calls[c].state = "settled" /\ calls[d].state = "settled"
       => c = d

\* No row that is approved or denied is turned into anything else, unless two
\* handlers were at work on it.
DecisionsStand ==
    \A r \in DOMAIN requests \ contested :
       /\ requests[r].decision \in {"approved", "denied"}
       /\ r \in DOMAIN requests'
       => requests'[r] = requests[r]

\* A decision that was reached stands: whatever handlers, reaping and inserts
\* do after it, only /admin/reset takes it away, or a second handler that was at
\* work on the row meanwhile.
DecisionIsFinal == [][DecisionsStand]_vars

\* A spend above the agent's threshold is paid only once a human has released
\* it: its approval.granted event is in the ledger before the call goes out.
HeldUntilGranted ==
    \A c \in DOMAIN calls :
       calls[c].row \in DOMAIN requests =>
          \/ requests[calls[c].row].born = "pending"
          \/ calls[c].row \in granted

\* The kill switch, and its stronger forms (the action revoked, the agent
\* deregistered): a request that begins after one, be it a spend or the release
\* of a hold, gets no budget and makes no payment while that one lasts.
BarredNeverPays ==
    \A h \in Handlers :
       handlers[h].barred # {} /\ handlers[h].kind # "reject" =>
          handlers[h].pc \in {"frozen", "allowed", "deny", "log", "lookup", "block", "failed"}

Pending(r) == r \in DOMAIN requests /\ requests[r].decision = "pending"

\* "Every exit path here MUST finalize the reservation": while the engine serves,
\* a reservation waits for its payment with no handler at work on it only if its
\* handler ended in an exception that _execute_payment does not catch, or if it
\* was taken less than the outbound timeout before the engine was last started.
LeaksExplained ==
    \A r \in DOMAIN requests :
       up /\ Pending(r) =>
          \/ AtWork(r)
          \/ r \in dropped
          \/ startedAt - OutboundTimeout < requests[r].at /\ requests[r].at <= startedAt

\* "Reservations could leak on a crash. Fixed.": one that no exception has left
\* behind is resolved in the end, crash or no crash, be it only because the engine
\* is started again.  (Only the reservations are looked at for which MaxClock
\* leaves time enough to be reaped.)
CrashReleases ==
    \A r \in 1 .. MaxSpends :
       Pending(r) /\ r \notin dropped /\ clock + OutboundTimeout <= MaxClock
          ~> ~Pending(r) \/ r \in dropped

----------------------------------------------------------------------------
(***************************************************************************)
(* The request log as a budget (Budget.tla).  A row that waits, for its    *)
(* payment or for a human, holds its amount; from the moment two handlers  *)
(* are at work on one it is disputed; rows that were born denied are no    *)
(* part of it.                                                             *)
(***************************************************************************)
ItemState(r) ==
    IF r \in contested THEN "disputed"
    ELSE CASE requests[r].decision = "approved" -> "spent"
           [] requests[r].decision = "denied"   -> "returned"
           [] OTHER                             -> "held"

Items ==
    [r \in {x \in DOMAIN requests : requests[x].born # "denied"} |->
        [agent |-> requests[r].agent, amount |-> requests[r].amount,
         day |-> Day(requests[r].at), cap |-> requests[r].cap,
         state |-> ItemState(r)]]

Promised == INSTANCE Budget WITH items <- Items

\* The engine keeps the budget: every step of its handlers, of a review, of reaping
\* after a crash, is a step of Budget or changes nothing in it.
KeepsBudget == Promised!Spec

----------------------------------------------------------------------------
(***************************************************************************)
(* The calls as exchanges with the resource server (Exchange.tla).  The    *)
(* engine knows what it has read and acted on.                             *)
(***************************************************************************)
Fates ==
    [c \in DOMAIN calls |->
        [state |-> calls[c].state,
         known |-> IF calls[c].lost THEN "lost"
                   ELSE IF c \in Awaited THEN "nothing" ELSE calls[c].state]]

Trade == INSTANCE Exchange WITH calls <- Fates

\* A call is not left unless it has ended and its outcome was recorded, or its answer is
\* counted as lost: by the thread that waits for it, or by all of them at a crash.
KeepsExchange == Trade!Spec
=============================================================================
