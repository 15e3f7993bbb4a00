------------------------- MODULE SpendEngineProofs -------------------------
(***************************************************************************)
(* Theorems about SpendEngine.                                             *)
(*                                                                         *)
(* LocalInv: types, what each pc says of a handler's locals, what the kill *)
(* switch and the approval threshold have let through.  PayInv: who owns   *)
(* which row, that an owned row is undecided, and what became of each      *)
(* payment; it excuses the rows that two handlers were at work on, and     *)
(* nothing else.  RateKept, of StorageProofs, is the rate limit's.  From   *)
(* PayInv follows that SpendEngine implements Budget, from LocalInv that   *)
(* it implements Exchange, and from LeakInv that only an exception or a    *)
(* restart that came too soon leaves a reservation behind.                 *)
(***************************************************************************)
EXTENDS SpendEngine, StorageProofs

SpendPcs == {"ceiling", "threshold", "caps", "reserve", "deny", "log"}

CheckPcs == {"frozen", "allowed", "ceiling", "threshold", "caps"}

\* Which handlers can be where, and with what in their hands.
LocalOK(h) ==
    LET me == handlers[h] IN
    /\ me.pc # "idle" => me.agent \in Agents /\ me.kind # "none"
    /\ me.pc = "idle" => me = Idle
    /\ me.pc \in SpendPcs => me.kind = "spend" /\ me.row = 0
    /\ me.pc \in {"frozen", "allowed"} => \/ me.kind = "spend" /\ me.row = 0
                                          \/ me.kind = "approve" /\ me.row # 0
    /\ me.pc = "park" => me.kind = "spend" /\ me.row # 0
    /\ me.pc \in {"lookup", "block", "grant"} => me.kind = "approve" /\ me.row # 0
    /\ me.pc = "reject" => me.kind = "reject" /\ me.row # 0
    /\ me.pc \in {"setup", "await", "settled"} =>
          me.kind \in {"spend", "approve"} /\ me.row # 0
    /\ me.pc = "failed" => me.row # 0
    /\ me.pc \in CheckPcs =>
          /\ me.view \in Configs \cup {Live}
          /\ me.view = Live => policy[me.agent] # Absent

\* A handler that waits for a call waits for one it sent for its own row.
CallKnown(h) ==
    handlers[h].pc \in {"await", "settled"} =>
       /\ handlers[h].call \in DOMAIN calls
       /\ calls[handlers[h].call].row = handlers[h].row
       /\ handlers[h].pc = "settled" => calls[handlers[h].call].state = "settled"

\* Paying for row r needs no human, or a human has released it.
Released(r) == r \in DOMAIN requests => requests[r].born = "pending" \/ r \in granted

\* A bar that has held since the handler began still holds, in the policy and
\* in what the handler sees of it, and has the handler before its check.
BarHolds(h) ==
    LET me == handlers[h] IN
    me.kind # "reject" =>
    /\ me.barred # {} =>
          me.pc \in {"frozen", "allowed", "deny", "log", "lookup", "block", "failed"}
    /\ \A b \in me.barred :
          /\ b \in Bars(policy[me.agent])
          /\ me.pc = "frozen" => b \in {"frozen", "revoked"} /\ b \in Bars(Cfg(h))
          /\ me.pc = "allowed" => b = "revoked" /\ b \in Bars(Cfg(h))

HandlerOK(h) ==
    /\ LocalOK(h)
    /\ handlers[h].row <= lastId
    /\ CallKnown(h)
    /\ handlers[h].pc = "setup" => Released(handlers[h].row)
    /\ BarHolds(h)

CallOK(c) == calls[c].row \in 1 .. lastId /\ Released(calls[c].row)

LocalInv ==
    /\ TypeOK
    /\ \A h \in Handlers : HandlerOK(h)
    /\ \A c \in DOMAIN calls : CallOK(c)

----------------------------------------------------------------------------
\* No two handlers are at work on one row, unless it is contested.
RowsOwned ==
    \A h, k \in Handlers :
       handlers[h].row = handlers[k].row /\ h # k => handlers[h].row \in contested \cup {0}

Undecided == {"pending", "awaiting_approval"}

\* The row a handler is at work on, alone, is undecided until it decides it.
OwnedUndecided ==
    \A h \in Handlers : handlers[h].row \in DOMAIN requests \ contested =>
       requests[handlers[h].row].decision \in Undecided

Awaits(h, c) == handlers[h].pc \in {"await", "settled"} /\ handlers[h].call = c

\* A payment whose answer is not lost and was not a refusal is either waited
\* for, or its row is approved and nobody is at work on it.
PaymentTracked(c) ==
    \/ calls[c].row \in contested
    \/ calls[c].lost
    \/ calls[c].state = "refused"
    \/ \E h \in Handlers : Awaits(h, c)
    \/ /\ \A h \in Handlers : handlers[h].row # calls[c].row
       /\ calls[c].row \in DOMAIN requests => requests[calls[c].row].decision = "approved"

\* Nothing is at work while the engine is down.
DownIdle == ~up => \A h \in Handlers : handlers[h].pc = "idle"

PayInv ==
    /\ LocalInv
    /\ WithinCap
    /\ DownIdle
    /\ RowsOwned
    /\ OwnedUndecided
    /\ \A c \in DOMAIN calls : PaymentTracked(c)
    /\ OnePayment

----------------------------------------------------------------------------
(***************************************************************************)
(* LocalInv is inductive.                                                  *)
(***************************************************************************)

\* What every step but an edit of the policy does to the world around a handler
\* that does not take it.
Grows ==
    /\ policy' = policy
    /\ lastId \in Nat /\ lastId' \in Nat /\ lastId <= lastId'
    /\ DOMAIN calls \subseteq DOMAIN calls'
    /\ \A c \in DOMAIN calls :
          /\ calls'[c].row = calls[c].row
          /\ calls[c].state = "settled" => calls'[c].state = "settled"
    /\ \A r \in 1 .. lastId : Released(r) => Released(r)'

LEMMA OthersKeep ==
    ASSUME TypeOK, Grows, NEW k \in Handlers, HandlerOK(k), handlers'[k] = handlers[k]
    PROVE  HandlerOK(k)'
<1>1. LocalOK(k)'
  BY DEF HandlerOK, LocalOK, Grows
<1>2. handlers'[k].row <= lastId'
  BY DEF HandlerOK, Grows, TypeOK, Handler
<1>3. CallKnown(k)'
  BY DEF HandlerOK, CallKnown, Grows
<1>4. (handlers[k].pc = "setup" => Released(handlers[k].row))'
  <2>1. handlers[k].pc = "setup" => handlers[k].row \in 1 .. lastId
    BY DEF HandlerOK, LocalOK, TypeOK, Handler
  <2> QED BY <2>1 DEF HandlerOK, Grows, Released
<1>5. BarHolds(k)'
  BY DEF HandlerOK, BarHolds, Grows, Cfg
<1> QED BY <1>1, <1>2, <1>3, <1>4, <1>5 DEF HandlerOK

\* What counts and history variables become.
OthersTyped ==
    /\ used' \in [{"spends", "reviews", "edits", "resets", "crashes"} -> Nat]
    /\ startedAt' \in Nat /\ contested' \subseteq Nat /\ dropped' \subseteq Nat

\* A step of one handler that touches nothing but its locals, counts and history.
LEMMA PureStep ==
    ASSUME LocalInv, NEW h \in Handlers, NEW rec \in Handler, Become(h, rec),
           UNCHANGED <<storageVars, policy, calls, granted, up>>, OthersTyped,
           HandlerOK(h)'
    PROVE  LocalInv'
<1>1. TypeOK'
  BY DEF LocalInv, TypeOK, StorageTypeOK, storageVars, Become, OthersTyped
<1>2. Grows
  BY DEF LocalInv, TypeOK, StorageTypeOK, storageVars, Grows, Released
<1>3. \A k \in Handlers : HandlerOK(k)'
  <2> SUFFICES ASSUME NEW k \in Handlers, k # h PROVE HandlerOK(k)'
    OBVIOUS
  <2>1. handlers'[k] = handlers[k]
    BY DEF LocalInv, TypeOK, Become
  <2> QED BY <1>2, <2>1, OthersKeep DEF LocalInv
<1>4. \A c \in DOMAIN calls' : CallOK(c)'
  BY DEF LocalInv, CallOK, Released, storageVars
<1> QED BY <1>1, <1>3, <1>4 DEF LocalInv

\* What a handler is about to read of its agent's configuration is there.
LEMMA CfgThere ==
    ASSUME LocalInv, NEW h \in Handlers, handlers[h].pc \in CheckPcs
    PROVE  Cfg(h) \in Configs /\ Cfg(h) \in Config /\ Cfg(h) # Absent
<1>1. handlers[h] \in Handler /\ policy \in [Agents -> Configs \cup {Absent}]
  BY DEF LocalInv, TypeOK
<1>2. /\ handlers[h].view \in Configs \cup {Live}
      /\ handlers[h].view = Live => policy[handlers[h].agent] # Absent
      /\ handlers[h].agent \in Agents
  BY DEF LocalInv, HandlerOK, LocalOK, CheckPcs
<1>3. Cfg(h) \in Configs
  BY <1>1, <1>2 DEF Cfg
<1> QED BY <1>3, EngineAssumption

LEMMA SpendKeeps ==
    ASSUME LocalInv, NEW h \in Handlers, NEW a \in Agents, NEW n \in Amounts, Spend(h, a, n)
    PROVE  LocalInv'
<1>1. PICK ok \in BOOLEAN :
        Become(h, [Idle EXCEPT
              !.kind = "spend", !.agent = a,
              !.amount = IF policy[a] = Absent THEN 0 ELSE n,
              !.view = IF policy[a] = Absent THEN Absent ELSE Live,
              !.pc = IF ok /\ policy[a] # Absent THEN "frozen" ELSE "deny",
              !.barred = Bars(policy[a])])
  BY DEF Spend
<1> DEFINE rec == [Idle EXCEPT
              !.kind = "spend", !.agent = a,
              !.amount = IF policy[a] = Absent THEN 0 ELSE n,
              !.view = IF policy[a] = Absent THEN Absent ELSE Live,
              !.pc = IF ok /\ policy[a] # Absent THEN "frozen" ELSE "deny",
              !.barred = Bars(policy[a])]
<1>2. n \in Nat
  BY EngineAssumption
<1>3. rec \in Handler
  BY <1>2 DEF Idle, Handler, Bars, Pcs, PayPcs, Limits
<1>4. handlers'[h] = rec
  BY <1>1 DEF Become, LocalInv, TypeOK
<1>5. HandlerOK(h)'
  <2>1. LocalOK(h)'
    BY <1>4 DEF LocalOK, Idle, Spend, SpendPcs, CheckPcs
  <2>2. rec.row = 0 /\ lastId' = lastId /\ lastId \in Nat
    BY DEF Idle, Spend, storageVars, LocalInv, TypeOK, StorageTypeOK
  <2>3. CallKnown(h)' /\ (handlers[h].pc = "setup" => Released(handlers[h].row))'
    BY <1>4 DEF CallKnown, Idle
  <2>4. BarHolds(h)'
    BY <1>4, EngineAssumption DEF BarHolds, Idle, Spend, Cfg, Bars
  <2> QED BY <1>4, <2>1, <2>2, <2>3, <2>4 DEF HandlerOK
<1>6. OthersTyped
  BY DEF LocalInv, TypeOK, Spend, Use, OthersTyped, history
<1> HIDE DEF rec
<1> QED BY <1>1, <1>3, <1>5, <1>6, PureStep DEF Spend, rec

(***************************************************************************)
(* The steps of a handler that change its pc and some locals, not its row. *)
(***************************************************************************)
LEMMA CheckFrozenKeeps ==
    ASSUME LocalInv, NEW h \in Handlers, CheckFrozen(h)
    PROVE  LocalInv'
<1> DEFINE rec == [handlers[h] EXCEPT
                      !.pc = IF ~Cfg(h).frozen THEN "allowed" ELSE Refusal(h)]
<1>1. /\ handlers[h] \in Handler /\ HandlerOK(h)
      /\ handlers[h].pc = "frozen"
  BY DEF LocalInv, TypeOK, CheckFrozen, Check, At
<1>2. Cfg(h) \in Configs /\ Cfg(h) \in Config /\ Cfg(h) # Absent
  BY <1>1, CfgThere DEF CheckPcs
<1>3. rec \in Handler
  BY <1>1, <1>2 DEF Handler, Pcs, PayPcs, Refusal
<1>4. Become(h, rec) /\ handlers'[h] = rec
  BY DEF CheckFrozen, Check, Become, LocalInv, TypeOK
<1>5. HandlerOK(h)'
  <2>1. LocalOK(h)'
    BY <1>1, <1>4 DEF HandlerOK, LocalOK, CheckFrozen, Check, SpendPcs, CheckPcs, Refusal
  <2>2. CallKnown(h)'
    BY <1>1, <1>4 DEF HandlerOK, CallKnown, CheckFrozen, Check, Refusal
  <2>3. BarHolds(h)'
    BY <1>1, <1>2, <1>4 DEF HandlerOK, LocalOK, BarHolds, CheckFrozen, Check, Cfg, Bars, Refusal
  <2>4. rec.row = handlers[h].row /\ rec.pc # "setup" /\ lastId' = lastId
    BY <1>1 DEF Handler, CheckFrozen, Check, storageVars, Refusal
  <2> QED BY <1>1, <1>4, <2>1, <2>2, <2>3, <2>4 DEF HandlerOK
<1>6. OthersTyped
  BY DEF LocalInv, TypeOK, CheckFrozen, Check, OthersTyped, history
<1> HIDE DEF rec
<1> QED BY <1>3, <1>4, <1>5, <1>6, PureStep DEF CheckFrozen, Check

LEMMA CheckAllowedKeeps ==
    ASSUME LocalInv, NEW h \in Handlers, CheckAllowed(h)
    PROVE  LocalInv'
<1> DEFINE rec == [handlers[h] EXCEPT
                      !.pc = IF Cfg(h).allowed
                             THEN IF handlers[h].kind = "spend" THEN "ceiling" ELSE "grant"
                             ELSE Refusal(h)]
<1>1. /\ handlers[h] \in Handler /\ HandlerOK(h)
      /\ handlers[h].pc = "allowed"
  BY DEF LocalInv, TypeOK, CheckAllowed, Check, At
<1>2. Cfg(h) \in Configs /\ Cfg(h) \in Config /\ Cfg(h) # Absent
  BY <1>1, CfgThere DEF CheckPcs
<1>3. rec \in Handler
  BY <1>1, <1>2 DEF Handler, Pcs, PayPcs, Refusal
<1>4. Become(h, rec) /\ handlers'[h] = rec
  BY DEF CheckAllowed, Check, Become, LocalInv, TypeOK
<1>5. HandlerOK(h)'
  <2>1. LocalOK(h)'
    BY <1>1, <1>4 DEF HandlerOK, LocalOK, CheckAllowed, Check, SpendPcs, CheckPcs, Refusal
  <2>2. CallKnown(h)'
    BY <1>1, <1>4 DEF HandlerOK, CallKnown, CheckAllowed, Check, Refusal
  <2>3. BarHolds(h)'
    BY <1>1, <1>2, <1>4 DEF HandlerOK, LocalOK, BarHolds, CheckAllowed, Check, Cfg, Bars, Refusal
  <2>4. rec.row = handlers[h].row /\ rec.pc # "setup" /\ lastId' = lastId
    BY <1>1 DEF Handler, CheckAllowed, Check, storageVars, Refusal
  <2> QED BY <1>1, <1>4, <2>1, <2>2, <2>3, <2>4 DEF HandlerOK
<1>6. OthersTyped
  BY DEF LocalInv, TypeOK, CheckAllowed, Check, OthersTyped, history
<1> HIDE DEF rec
<1> QED BY <1>3, <1>4, <1>5, <1>6, PureStep DEF CheckAllowed, Check

LEMMA BadParamsKeeps ==
    ASSUME LocalInv, NEW h \in Handlers, BadParams(h)
    PROVE  LocalInv'
<1> DEFINE rec == [handlers[h] EXCEPT !.pc = "deny"]
<1>1. /\ handlers[h] \in Handler /\ HandlerOK(h)
      /\ handlers[h].pc = "ceiling"
  BY DEF LocalInv, TypeOK, BadParams, Goto, At
<1>3. rec \in Handler
  BY <1>1 DEF Handler, Pcs, PayPcs
<1>4. Become(h, rec) /\ handlers'[h] = rec
  BY DEF BadParams, Goto, Become, LocalInv, TypeOK
<1>5. HandlerOK(h)'
  <2>1. LocalOK(h)'
    BY <1>1, <1>4 DEF HandlerOK, LocalOK, BadParams, Goto, SpendPcs, CheckPcs
  <2>2. CallKnown(h)'
    BY <1>1, <1>4 DEF HandlerOK, CallKnown, BadParams, Goto
  <2>3. BarHolds(h)'
    BY <1>1, <1>4 DEF HandlerOK, LocalOK, BarHolds, BadParams, Goto, Cfg, Bars
  <2>4. rec.row = handlers[h].row /\ rec.pc # "setup" /\ lastId' = lastId
    BY <1>1 DEF Handler, BadParams, Goto, storageVars
  <2> QED BY <1>1, <1>4, <2>1, <2>2, <2>3, <2>4 DEF HandlerOK
<1>6. OthersTyped
  BY DEF LocalInv, TypeOK, BadParams, Goto, OthersTyped, history
<1> HIDE DEF rec
<1> QED BY <1>3, <1>4, <1>5, <1>6, PureStep DEF BadParams, Goto

LEMMA CheckCeilingKeeps ==
    ASSUME LocalInv, NEW h \in Handlers, CheckCeiling(h)
    PROVE  LocalInv'
<1> DEFINE rec == [handlers[h] EXCEPT
                      !.pc = IF handlers[h].amount <= Cfg(h).perRequest
                             THEN "threshold" ELSE Refusal(h)]
<1>1. /\ handlers[h] \in Handler /\ HandlerOK(h)
      /\ handlers[h].pc = "ceiling"
  BY DEF LocalInv, TypeOK, CheckCeiling, Check, At
<1>2. Cfg(h) \in Configs /\ Cfg(h) \in Config /\ Cfg(h) # Absent
  BY <1>1, CfgThere DEF CheckPcs
<1>3. rec \in Handler
  BY <1>1, <1>2 DEF Handler, Pcs, PayPcs, Refusal
<1>4. Become(h, rec) /\ handlers'[h] = rec
  BY DEF CheckCeiling, Check, Become, LocalInv, TypeOK
<1>5. HandlerOK(h)'
  <2>1. LocalOK(h)'
    BY <1>1, <1>4 DEF HandlerOK, LocalOK, CheckCeiling, Check, SpendPcs, CheckPcs, Refusal
  <2>2. CallKnown(h)'
    BY <1>1, <1>4 DEF HandlerOK, CallKnown, CheckCeiling, Check, Refusal
  <2>3. BarHolds(h)'
    BY <1>1, <1>2, <1>4 DEF HandlerOK, LocalOK, BarHolds, CheckCeiling, Check, Cfg, Bars, Refusal
  <2>4. rec.row = handlers[h].row /\ rec.pc # "setup" /\ lastId' = lastId
    BY <1>1 DEF Handler, CheckCeiling, Check, storageVars, Refusal
  <2> QED BY <1>1, <1>4, <2>1, <2>2, <2>3, <2>4 DEF HandlerOK
<1>6. OthersTyped
  BY DEF LocalInv, TypeOK, CheckCeiling, Check, OthersTyped, history
<1> HIDE DEF rec
<1> QED BY <1>3, <1>4, <1>5, <1>6, PureStep DEF CheckCeiling, Check

LEMMA CheckThresholdKeeps ==
    ASSUME LocalInv, NEW h \in Handlers, CheckThreshold(h)
    PROVE  LocalInv'
<1> DEFINE rec == [handlers[h] EXCEPT
                      !.pc = "caps",
                      !.hold = NeedsApproval(Cfg(h), handlers[h].amount)]
<1>1. /\ handlers[h] \in Handler /\ HandlerOK(h)
      /\ handlers[h].pc = "threshold"
  BY DEF LocalInv, TypeOK, CheckThreshold, At
<1>2. Cfg(h) \in Configs /\ Cfg(h) \in Config /\ Cfg(h) # Absent
  BY <1>1, CfgThere DEF CheckPcs
<1>3. rec \in Handler
  BY <1>1, <1>2 DEF Handler, Pcs, PayPcs, NeedsApproval
<1>4. Become(h, rec) /\ handlers'[h] = rec
  BY DEF CheckThreshold, Become, LocalInv, TypeOK
<1>5. HandlerOK(h)'
  <2>1. LocalOK(h)'
    BY <1>1, <1>4 DEF HandlerOK, LocalOK, CheckThreshold, SpendPcs, CheckPcs
  <2>2. CallKnown(h)'
    BY <1>1, <1>4 DEF HandlerOK, CallKnown, CheckThreshold
  <2>3. BarHolds(h)'
    BY <1>1, <1>2, <1>4 DEF HandlerOK, LocalOK, BarHolds, CheckThreshold, Cfg, Bars
  <2>4. rec.row = handlers[h].row /\ rec.pc # "setup" /\ lastId' = lastId
    BY <1>1 DEF Handler, CheckThreshold, storageVars
  <2> QED BY <1>1, <1>4, <2>1, <2>2, <2>3, <2>4 DEF HandlerOK
<1>6. OthersTyped
  BY DEF LocalInv, TypeOK, CheckThreshold, OthersTyped, history
<1> HIDE DEF rec
<1> QED BY <1>3, <1>4, <1>5, <1>6, PureStep DEF CheckThreshold

LEMMA ReadCapsKeeps ==
    ASSUME LocalInv, NEW h \in Handlers, ReadCaps(h)
    PROVE  LocalInv'
<1> DEFINE rec == [handlers[h] EXCEPT
                      !.pc = "reserve", !.cap = Cfg(h).cap, !.limit = Cfg(h).limit]
<1>1. /\ handlers[h] \in Handler /\ HandlerOK(h)
      /\ handlers[h].pc = "caps"
  BY DEF LocalInv, TypeOK, ReadCaps, At
<1>2. Cfg(h) \in Configs /\ Cfg(h) \in Config /\ Cfg(h) # Absent
  BY <1>1, CfgThere DEF CheckPcs
<1>3. rec \in Handler
  BY <1>1, <1>2 DEF Handler, Pcs, PayPcs, Config
<1>4. Become(h, rec) /\ handlers'[h] = rec
  BY DEF ReadCaps, Become, LocalInv, TypeOK
<1>5. HandlerOK(h)'
  <2>1. LocalOK(h)'
    BY <1>1, <1>4 DEF HandlerOK, LocalOK, ReadCaps, SpendPcs, CheckPcs
  <2>2. CallKnown(h)'
    BY <1>1, <1>4 DEF HandlerOK, CallKnown, ReadCaps
  <2>3. BarHolds(h)'
    BY <1>1, <1>2, <1>4 DEF HandlerOK, LocalOK, BarHolds, ReadCaps, Cfg, Bars
  <2>4. rec.row = handlers[h].row /\ rec.pc # "setup" /\ lastId' = lastId
    BY <1>1 DEF Handler, ReadCaps, storageVars
  <2> QED BY <1>1, <1>4, <2>1, <2>2, <2>3, <2>4 DEF HandlerOK
<1>6. OthersTyped
  BY DEF LocalInv, TypeOK, ReadCaps, OthersTyped, history
<1> HIDE DEF rec
<1> QED BY <1>3, <1>4, <1>5, <1>6, PureStep DEF ReadCaps

LEMMA DenyKeeps ==
    ASSUME LocalInv, NEW h \in Handlers, Deny(h)
    PROVE  LocalInv'
<1> DEFINE rec == [handlers[h] EXCEPT !.pc = "log", !.at = clock]
<1>1. /\ handlers[h] \in Handler /\ HandlerOK(h)
      /\ handlers[h].pc = "deny"
  BY DEF LocalInv, TypeOK, Deny, At
<1>3. rec \in Handler
  BY <1>1 DEF Handler, Pcs, PayPcs, LocalInv, TypeOK, StorageTypeOK
<1>4. Become(h, rec) /\ handlers'[h] = rec
  BY DEF Deny, Become, LocalInv, TypeOK
<1>5. HandlerOK(h)'
  <2>1. LocalOK(h)'
    BY <1>1, <1>4 DEF HandlerOK, LocalOK, Deny, SpendPcs, CheckPcs
  <2>2. CallKnown(h)'
    BY <1>1, <1>4 DEF HandlerOK, CallKnown, Deny
  <2>3. BarHolds(h)'
    BY <1>1, <1>4 DEF HandlerOK, LocalOK, BarHolds, Deny, Cfg, Bars
  <2>4. rec.row = handlers[h].row /\ rec.pc # "setup" /\ lastId' = lastId
    BY <1>1 DEF Handler, Deny, storageVars
  <2> QED BY <1>1, <1>4, <2>1, <2>2, <2>3, <2>4 DEF HandlerOK
<1>6. OthersTyped
  BY DEF LocalInv, TypeOK, Deny, OthersTyped, history
<1> HIDE DEF rec
<1> QED BY <1>3, <1>4, <1>5, <1>6, PureStep DEF Deny

LEMMA SetupFailsKeeps ==
    ASSUME LocalInv, NEW h \in Handlers, SetupFails(h)
    PROVE  LocalInv'
<1> DEFINE rec == [handlers[h] EXCEPT !.pc = "failed"]
<1>1. /\ handlers[h] \in Handler /\ HandlerOK(h)
      /\ handlers[h].pc = "setup"
  BY DEF LocalInv, TypeOK, SetupFails, Goto, At
<1>3. rec \in Handler
  BY <1>1 DEF Handler, Pcs, PayPcs
<1>4. Become(h, rec) /\ handlers'[h] = rec
  BY DEF SetupFails, Goto, Become, LocalInv, TypeOK
<1>5. HandlerOK(h)'
  <2>1. LocalOK(h)'
    BY <1>1, <1>4 DEF HandlerOK, LocalOK, SetupFails, Goto, SpendPcs, CheckPcs
  <2>2. CallKnown(h)'
    BY <1>1, <1>4 DEF HandlerOK, CallKnown, SetupFails, Goto
  <2>3. BarHolds(h)'
    BY <1>1, <1>4 DEF HandlerOK, LocalOK, BarHolds, SetupFails, Goto, Cfg, Bars
  <2>4. rec.row = handlers[h].row /\ rec.pc # "setup" /\ lastId' = lastId
    BY <1>1 DEF Handler, SetupFails, Goto, storageVars
  <2> QED BY <1>1, <1>4, <2>1, <2>2, <2>3, <2>4 DEF HandlerOK
<1>6. OthersTyped
  BY DEF LocalInv, TypeOK, SetupFails, Goto, OthersTyped, history
<1> HIDE DEF rec
<1> QED BY <1>3, <1>4, <1>5, <1>6, PureStep DEF SetupFails, Goto

LEMMA ReceiveKeeps ==
    ASSUME LocalInv, NEW h \in Handlers, Receive(h)
    PROVE  LocalInv'
<1> DEFINE rec == [handlers[h] EXCEPT
                      !.pc = IF calls[handlers[h].call].state = "settled"
                             THEN "settled" ELSE "failed"]
<1>1. /\ handlers[h] \in Handler /\ HandlerOK(h)
      /\ handlers[h].pc = "await"
  BY DEF LocalInv, TypeOK, Receive, Goto, At
<1>3. rec \in Handler
  BY <1>1 DEF Handler, Pcs, PayPcs
<1>4. Become(h, rec) /\ handlers'[h] = rec
  BY DEF Receive, Goto, Become, LocalInv, TypeOK
<1>5. HandlerOK(h)'
  <2>1. LocalOK(h)'
    BY <1>1, <1>4 DEF HandlerOK, LocalOK, Receive, Goto, SpendPcs, CheckPcs
  <2>2. CallKnown(h)'
    BY <1>1, <1>4 DEF HandlerOK, CallKnown, Receive, Goto
  <2>3. BarHolds(h)'
    BY <1>1, <1>4 DEF HandlerOK, LocalOK, BarHolds, Receive, Goto, Cfg, Bars
  <2>4. rec.row = handlers[h].row /\ rec.pc # "setup" /\ lastId' = lastId
    BY <1>1 DEF Handler, Receive, Goto, storageVars
  <2> QED BY <1>1, <1>4, <2>1, <2>2, <2>3, <2>4 DEF HandlerOK
<1>6. OthersTyped
  BY DEF LocalInv, TypeOK, Receive, Goto, OthersTyped, history
<1> HIDE DEF rec
<1> QED BY <1>3, <1>4, <1>5, <1>6, PureStep DEF Receive, Goto

LEMMA CheckAgentKeeps ==
    ASSUME LocalInv, NEW h \in Handlers, CheckAgent(h)
    PROVE  LocalInv'
<1> DEFINE rec == [handlers[h] EXCEPT
                      !.pc = IF policy[handlers[h].agent] # Absent THEN "frozen" ELSE "block",
                      !.view = IF policy[handlers[h].agent] # Absent THEN Live ELSE Absent]
<1>1. /\ handlers[h] \in Handler /\ HandlerOK(h)
      /\ handlers[h].pc = "lookup"
  BY DEF LocalInv, TypeOK, CheckAgent, At
<1>3. rec \in Handler
  BY <1>1 DEF Handler, Pcs, PayPcs
<1>4. Become(h, rec) /\ handlers'[h] = rec
  BY DEF CheckAgent, Become, LocalInv, TypeOK
<1>5. HandlerOK(h)'
  <2>1. LocalOK(h)'
    BY <1>1, <1>4 DEF HandlerOK, LocalOK, CheckAgent, SpendPcs, CheckPcs
  <2>2. CallKnown(h)'
    BY <1>1, <1>4 DEF HandlerOK, CallKnown, CheckAgent
  <2>3. BarHolds(h)'
    BY <1>1, <1>4 DEF HandlerOK, LocalOK, BarHolds, CheckAgent, Cfg, Bars
  <2>4. rec.row = handlers[h].row /\ rec.pc # "setup" /\ lastId' = lastId
    BY <1>1 DEF Handler, CheckAgent, storageVars
  <2> QED BY <1>1, <1>4, <2>1, <2>2, <2>3, <2>4 DEF HandlerOK
<1>6. OthersTyped
  BY DEF LocalInv, TypeOK, CheckAgent, OthersTyped, history
<1> HIDE DEF rec
<1> QED BY <1>3, <1>4, <1>5, <1>6, PureStep DEF CheckAgent

LEMMA RecordRefusalKeeps ==
    ASSUME LocalInv, NEW h \in Handlers, RecordRefusal(h)
    PROVE  LocalInv'
<1> DEFINE rec == [handlers[h] EXCEPT !.pc = "failed"]
<1>1. /\ handlers[h] \in Handler /\ HandlerOK(h)
      /\ handlers[h].pc \in {"block", "reject"}
  BY DEF LocalInv, TypeOK, RecordRefusal, Goto, At
<1>3. rec \in Handler
  BY <1>1 DEF Handler, Pcs, PayPcs
<1>4. Become(h, rec) /\ handlers'[h] = rec
  BY DEF RecordRefusal, Goto, Become, LocalInv, TypeOK
<1>5. HandlerOK(h)'
  <2>1. LocalOK(h)'
    BY <1>1, <1>4 DEF HandlerOK, LocalOK, RecordRefusal, Goto, SpendPcs, CheckPcs
  <2>2. CallKnown(h)'
    BY <1>1, <1>4 DEF HandlerOK, CallKnown, RecordRefusal, Goto
  <2>3. BarHolds(h)'
    BY <1>1, <1>4 DEF HandlerOK, LocalOK, BarHolds, RecordRefusal, Goto, Cfg, Bars
  <2>4. rec.row = handlers[h].row /\ rec.pc # "setup" /\ lastId' = lastId
    BY <1>1 DEF Handler, RecordRefusal, Goto, storageVars
  <2> QED BY <1>1, <1>4, <2>1, <2>2, <2>3, <2>4 DEF HandlerOK
<1>6. OthersTyped
  BY DEF LocalInv, TypeOK, RecordRefusal, Goto, OthersTyped, history
<1> HIDE DEF rec
<1> QED BY <1>3, <1>4, <1>5, <1>6, PureStep DEF RecordRefusal, Goto

(***************************************************************************)
(* The steps that touch shared state.                                      *)
(***************************************************************************)
LEMMA IdleOK ==
    ASSUME NEW h \in Handlers, handlers'[h] = Idle, lastId' \in Nat
    PROVE  HandlerOK(h)'
BY DEF HandlerOK, LocalOK, CallKnown, BarHolds, Idle, SpendPcs, CheckPcs

LEMMA IdleType == Idle \in Handler
BY DEF Idle, Handler, Pcs, Limits

\* A step of one handler in a world that grows.
LEMMA GrowStep ==
    ASSUME LocalInv, NEW h \in Handlers, NEW rec, Become(h, rec), Grows,
           TypeOK', HandlerOK(h)',
           \A c \in DOMAIN calls' : c \in DOMAIN calls \/ CallOK(c)'
    PROVE  LocalInv'
<1>1. \A k \in Handlers : HandlerOK(k)'
  <2> SUFFICES ASSUME NEW k \in Handlers, k # h PROVE HandlerOK(k)'
    OBVIOUS
  <2>1. handlers'[k] = handlers[k]
    BY DEF LocalInv, TypeOK, Become
  <2> QED BY <2>1, OthersKeep DEF LocalInv
<1>2. ASSUME NEW c \in DOMAIN calls PROVE CallOK(c)'
  BY DEF LocalInv, CallOK, Grows, Released
<1> QED BY <1>1, <1>2 DEF LocalInv

\* Rows keep what they were born as; grants stay.
LEMMA RowsKept ==
    ASSUME LocalInv, policy' = policy, calls' = calls, lastId' = lastId,
           DOMAIN requests' \subseteq DOMAIN requests,
           \A r \in DOMAIN requests' : requests'[r].born = requests[r].born,
           granted \subseteq granted'
    PROVE  Grows
BY DEF LocalInv, TypeOK, StorageTypeOK, Grows, Released

\* Park, FinalizeApproved and FinalizeDenied.
LEMMA FinalizeKeeps ==
    ASSUME LocalInv, NEW h \in Handlers, NEW d \in Decisions,
           Finalize(handlers[h].row, d), Become(h, Idle),
           UNCHANGED <<policy, calls, granted, up, startedAt, used, history>>
    PROVE  LocalInv'
<1>1. /\ StorageTypeOK' /\ lastId' = lastId
      /\ DOMAIN requests' = DOMAIN requests
      /\ \A r \in DOMAIN requests : requests'[r].born = requests[r].born
  BY FinalizeRows DEF LocalInv, TypeOK
<1>2. handlers'[h] = Idle /\ handlers' \in [Handlers -> Handler]
  BY IdleType DEF LocalInv, TypeOK, Become
<1>3. TypeOK'
  BY <1>1, <1>2 DEF LocalInv, TypeOK, history
<1>4. HandlerOK(h)'
  BY <1>1, <1>2, IdleOK DEF LocalInv, TypeOK, StorageTypeOK
<1>5. Grows
  BY <1>1, RowsKept
<1> QED BY <1>3, <1>4, <1>5, GrowStep

LEMMA LogKeeps ==
    ASSUME LocalInv, NEW h \in Handlers, Log(h)
    PROVE  LocalInv'
<1> DEFINE row == [agent |-> handlers[h].agent, amount |-> handlers[h].amount,
                   at |-> handlers[h].at, born |-> "denied", decision |-> "denied",
                   cap |-> 0, limit |-> NoLimit]
<1>1. row \in Row /\ Insert(row)
  BY DEF Log, LogRequest, LocalInv, TypeOK, HandlerOK, LocalOK, At, Handler, Row,
         Decisions, Limits
<1> HIDE DEF row
<1>2. /\ StorageTypeOK' /\ lastId' = lastId + 1
      /\ DOMAIN requests' = DOMAIN requests \cup {lastId + 1}
      /\ \A r \in DOMAIN requests : requests'[r] = requests[r]
  BY <1>1, InsertRows DEF LocalInv, TypeOK
<1>3. handlers'[h] = Idle /\ handlers' \in [Handlers -> Handler]
  BY IdleType DEF Log, LocalInv, TypeOK, Become
<1>4. TypeOK'
  BY <1>2, <1>3 DEF Log, LocalInv, TypeOK, history
<1>5. HandlerOK(h)'
  BY <1>2, <1>3, IdleOK DEF LocalInv, TypeOK, StorageTypeOK
<1>6. Grows
  BY <1>2 DEF Log, LocalInv, TypeOK, StorageTypeOK, Grows, Released
<1> QED BY <1>4, <1>5, <1>6, GrowStep DEF Log

LEMMA ReserveKeeps ==
    ASSUME LocalInv, NEW h \in Handlers, Reserve(h)
    PROVE  LocalInv'
<1>1. /\ handlers[h] \in Handler /\ HandlerOK(h)
      /\ handlers[h].pc = "reserve"
      /\ handlers[h].kind = "spend" /\ handlers[h].agent \in Agents
      /\ handlers[h].row = 0 /\ handlers[h].barred = {}
  BY DEF LocalInv, TypeOK, HandlerOK, LocalOK, BarHolds, Reserve, At, SpendPcs
<1>2. CASE UNCHANGED storageVars /\ Goto(h, "deny")
  <2> DEFINE rec == [handlers[h] EXCEPT !.pc = "deny"]
  <2>1. rec \in Handler
    BY <1>1 DEF Handler, Pcs
  <2>2. Become(h, rec) /\ handlers'[h] = rec
    BY <1>2 DEF Goto, Become, LocalInv, TypeOK
  <2>3. LocalOK(h)'
    BY <1>1, <2>2 DEF LocalOK, SpendPcs, CheckPcs
  <2>4. CallKnown(h)' /\ BarHolds(h)'
    BY <1>1, <2>2 DEF CallKnown, BarHolds
  <2>5. handlers'[h].row <= lastId' /\ handlers'[h].pc # "setup"
    BY <1>1, <1>2, <2>2 DEF storageVars, LocalInv, TypeOK, StorageTypeOK
  <2>6. HandlerOK(h)'
    BY <2>3, <2>4, <2>5 DEF HandlerOK
  <2>7. OthersTyped
    BY DEF Reserve, LocalInv, TypeOK, OthersTyped, history
  <2> HIDE DEF rec
  <2> QED BY <1>2, <2>1, <2>2, <2>6, <2>7, PureStep DEF Reserve
<1>3. CASE ~(UNCHANGED storageVars /\ Goto(h, "deny"))
  <2> DEFINE me == handlers[h]
             state == IF me.hold THEN "awaiting_approval" ELSE "pending"
             row == [agent |-> me.agent, amount |-> me.amount, at |-> clock,
                     born |-> state, decision |-> state, cap |-> me.cap,
                     limit |-> me.limit]
             rec == [me EXCEPT !.pc = IF me.hold THEN "park" ELSE "setup", !.row = lastId']
  <2>1. Insert(row) /\ Become(h, rec)
    BY <1>3 DEF Reserve, TryReserve
  <2>2. row \in Row
    BY <1>1 DEF Handler, Row, Decisions, CapCounting, LocalInv, TypeOK, StorageTypeOK
  <2>3. row.born = "pending" \/ rec.pc = "park"
    OBVIOUS
  <2> HIDE DEF row
  <2>4. /\ StorageTypeOK' /\ lastId' = lastId + 1
        /\ DOMAIN requests' = DOMAIN requests \cup {lastId + 1}
        /\ requests'[lastId + 1] = row
        /\ \A r \in DOMAIN requests : requests'[r] = requests[r]
    BY <2>1, <2>2, InsertRows DEF LocalInv, TypeOK
  <2>5. lastId \in Nat
    BY DEF LocalInv, TypeOK, StorageTypeOK
  <2>6. rec \in Handler
    <3>1. lastId' \in Nat /\ (IF me.hold THEN "park" ELSE "setup") \in Pcs
      BY <2>4, <2>5 DEF Pcs, PayPcs
    <3> QED BY <1>1, <3>1 DEF Handler
  <2>7. handlers'[h] = rec /\ handlers' \in [Handlers -> Handler]
    BY <2>1, <2>6 DEF Become, LocalInv, TypeOK
  <2>8. LocalOK(h)'
    BY <1>1, <2>4, <2>5, <2>7 DEF LocalOK, SpendPcs, CheckPcs
  <2>9. CallKnown(h)' /\ BarHolds(h)'
    BY <1>1, <2>7 DEF CallKnown, BarHolds
  <2>10. (handlers[h].pc = "setup" => Released(handlers[h].row))'
    BY <2>3, <2>4, <2>7 DEF Released
  <2>11. handlers'[h].row <= lastId'
    BY <1>1, <2>4, <2>5, <2>7 DEF Handler
  <2>12. HandlerOK(h)'
    BY <2>8, <2>9, <2>10, <2>11 DEF HandlerOK
  <2>13. TypeOK'
    BY <2>4, <2>7 DEF Reserve, LocalInv, TypeOK, history
  <2>14. Grows
    BY <2>4, <2>5 DEF Reserve, LocalInv, TypeOK, StorageTypeOK, Grows, Released
  <2> HIDE DEF rec
  <2> QED BY <2>1, <2>12, <2>13, <2>14, GrowStep DEF Reserve
<1> QED BY <1>2, <1>3

\* The calls stay a sequence when one or more of them are updated.
LEMMA CallsUpdated ==
    ASSUME NEW s \in Seq(Call), NEW t, DOMAIN t = DOMAIN s,
           t = [c \in DOMAIN s |-> t[c]],
           \A c \in DOMAIN s : t[c] \in Call
    PROVE  t \in Seq(Call)
<1>1. Len(s) \in Nat /\ DOMAIN s = 1 .. Len(s)
  OBVIOUS
<1>2. t \in [1 .. Len(s) -> Call]
  BY <1>1
<1> QED BY <1>1, <1>2

LEMMA SendKeeps ==
    ASSUME LocalInv, NEW h \in Handlers, Send(h)
    PROVE  LocalInv'
<1> DEFINE call == [row |-> handlers[h].row, state |-> "open", lost |-> FALSE]
           rec == [handlers[h] EXCEPT !.pc = "await", !.call = Len(calls) + 1]
<1>1. /\ handlers[h] \in Handler /\ HandlerOK(h) /\ handlers[h].pc = "setup"
      /\ calls \in Seq(Call)
  BY DEF LocalInv, TypeOK, Send, At
<1>2. handlers[h].row \in 1 .. lastId /\ Released(handlers[h].row)
  BY <1>1 DEF HandlerOK, LocalOK, Handler, LocalInv, TypeOK, StorageTypeOK
<1>3. call \in Call /\ calls' = Append(calls, call)
  BY <1>1 DEF Call, Handler, Send
<1>4. /\ calls' \in Seq(Call) /\ Len(calls) \in Nat
      /\ DOMAIN calls = 1 .. Len(calls)
      /\ DOMAIN calls' = DOMAIN calls \cup {Len(calls) + 1}
      /\ \A c \in DOMAIN calls : calls'[c] = calls[c]
      /\ calls'[Len(calls) + 1] = call
  <2> HIDE DEF call
  <2> QED BY <1>1, <1>3
<1>5. rec \in Handler
  <2>1. Len(calls) + 1 \in Nat /\ "await" \in Pcs
    BY <1>4 DEF Pcs, PayPcs
  <2> QED BY <1>1, <2>1 DEF Handler
<1>6. Become(h, rec) /\ handlers'[h] = rec /\ handlers' \in [Handlers -> Handler]
  BY <1>5 DEF Send, Become, LocalInv, TypeOK
<1>7. TypeOK'
  BY <1>4, <1>6 DEF Send, LocalInv, TypeOK, StorageTypeOK, storageVars, history
<1>8. HandlerOK(h)'
  <2>1. LocalOK(h)'
    BY <1>1, <1>6 DEF HandlerOK, LocalOK, SpendPcs, CheckPcs
  <2>2. CallKnown(h)'
    BY <1>4, <1>6 DEF CallKnown
  <2>3. BarHolds(h)'
    BY <1>1, <1>6 DEF HandlerOK, BarHolds, Send
  <2>4. handlers'[h].row <= lastId' /\ handlers'[h].pc # "setup"
    BY <1>2, <1>6 DEF Send, storageVars
  <2> QED BY <2>1, <2>2, <2>3, <2>4 DEF HandlerOK
<1>9. Grows
  BY <1>4 DEF Send, storageVars, LocalInv, TypeOK, StorageTypeOK, Grows, Released
<1>10. ASSUME NEW c \in DOMAIN calls', c \notin DOMAIN calls
       PROVE  CallOK(c)'
  <2>1. calls'[c].row = handlers[h].row
    BY <1>4, <1>10
  <2> QED BY <1>2, <2>1 DEF Send, storageVars, CallOK, Released
<1> HIDE DEF rec, call
<1> QED BY <1>4, <1>6, <1>7, <1>8, <1>9, <1>10, GrowStep

\* The call a handler waits for, or has the answer of, is lost with it.
LEMMA CallIsLost ==
    ASSUME TypeOK, NEW c, calls' = [calls EXCEPT ![c].lost = TRUE]
    PROVE  /\ calls' \in Seq(Call) /\ DOMAIN calls' = DOMAIN calls
           /\ \A d \in DOMAIN calls : /\ calls'[d].row = calls[d].row
                                      /\ calls'[d].state = calls[d].state
                                      /\ calls[d].lost => calls'[d].lost
                                      /\ d = c => calls'[d].lost
<1>1. calls \in Seq(Call) /\ \A d \in DOMAIN calls : calls[d] \in Call
  BY DEF TypeOK
<1>2. /\ DOMAIN calls' = DOMAIN calls
      /\ calls' = [d \in DOMAIN calls |-> calls'[d]]
      /\ \A d \in DOMAIN calls : /\ calls'[d] \in Call
                                 /\ calls'[d].row = calls[d].row
                                 /\ calls'[d].state = calls[d].state
                                 /\ calls[d].lost => calls'[d].lost
                                 /\ d = c => calls'[d].lost
  BY <1>1 DEF Call
<1> QED BY <1>1, <1>2, CallsUpdated

LEMMA GiveUpKeeps ==
    ASSUME LocalInv, NEW h \in Handlers, GiveUp(h)
    PROVE  LocalInv'
<1> DEFINE rec == [handlers[h] EXCEPT !.pc = "failed"]
<1>1. /\ handlers[h] \in Handler /\ HandlerOK(h) /\ handlers[h].pc = "await"
      /\ calls \in Seq(Call)
  BY DEF LocalInv, TypeOK, GiveUp, At
<1>2. /\ calls' \in Seq(Call)
      /\ DOMAIN calls' = DOMAIN calls
      /\ \A c \in DOMAIN calls : calls'[c].row = calls[c].row /\ calls'[c].state = calls[c].state
  BY CallIsLost DEF GiveUp, LocalInv
<1>3. rec \in Handler
  BY <1>1 DEF Handler, Pcs, PayPcs
<1>4. Become(h, rec) /\ handlers'[h] = rec /\ handlers' \in [Handlers -> Handler]
  BY <1>3 DEF GiveUp, Goto, Become, LocalInv, TypeOK
<1>5. TypeOK'
  BY <1>2, <1>4 DEF GiveUp, LocalInv, TypeOK, StorageTypeOK, storageVars, history
<1>6. HandlerOK(h)'
  <2>1. LocalOK(h)'
    BY <1>1, <1>4 DEF HandlerOK, LocalOK, SpendPcs, CheckPcs
  <2>2. BarHolds(h)'
    BY <1>1, <1>4 DEF HandlerOK, BarHolds, GiveUp
  <2>3. handlers'[h].row <= lastId' /\ handlers'[h].pc \notin {"setup", "await", "settled"}
    BY <1>1, <1>4 DEF GiveUp, storageVars, HandlerOK
  <2> QED BY <2>1, <2>2, <2>3 DEF HandlerOK, CallKnown
<1>7. Grows
  BY <1>2 DEF GiveUp, storageVars, LocalInv, TypeOK, StorageTypeOK, Grows, Released
<1> HIDE DEF rec
<1> QED BY <1>2, <1>4, <1>5, <1>6, <1>7, GrowStep

LEMMA GrantKeeps ==
    ASSUME LocalInv, NEW h \in Handlers, Grant(h)
    PROVE  LocalInv'
<1> DEFINE rec == [handlers[h] EXCEPT !.pc = "setup"]
<1>1. /\ handlers[h] \in Handler /\ HandlerOK(h) /\ handlers[h].pc = "grant"
      /\ handlers[h].kind = "approve" /\ handlers[h].row # 0
  BY DEF LocalInv, TypeOK, HandlerOK, LocalOK, Grant, At
<1>2. rec \in Handler
  BY <1>1 DEF Handler, Pcs, PayPcs
<1>3. Become(h, rec) /\ handlers'[h] = rec /\ handlers' \in [Handlers -> Handler]
  BY <1>2 DEF Grant, Goto, Become, LocalInv, TypeOK
<1>4. granted' \subseteq Nat /\ granted \subseteq granted'
  BY <1>1 DEF Grant, Handler, LocalInv, TypeOK
<1>5. TypeOK'
  BY <1>3, <1>4 DEF Grant, LocalInv, TypeOK, StorageTypeOK, storageVars, history
<1>6. HandlerOK(h)'
  <2>1. LocalOK(h)'
    BY <1>1, <1>3 DEF HandlerOK, LocalOK, SpendPcs, CheckPcs
  <2>2. BarHolds(h)'
    BY <1>1, <1>3 DEF HandlerOK, BarHolds, Grant
  <2>3. handlers'[h].row <= lastId' /\ Released(handlers[h].row)'
    BY <1>1, <1>3 DEF Grant, storageVars, HandlerOK, Released
  <2> QED BY <1>3, <2>1, <2>2, <2>3 DEF HandlerOK, CallKnown
<1>7. Grows
  BY <1>4, RowsKept DEF Grant, storageVars
<1> HIDE DEF rec
<1> QED BY <1>3, <1>5, <1>6, <1>7, GrowStep DEF Grant

LEMMA EventLostKeeps ==
    ASSUME LocalInv, NEW h \in Handlers, EventLost(h)
    PROVE  LocalInv'
<1>1. Become(h, Idle) /\ handlers'[h] = Idle
  BY DEF EventLost, Become, LocalInv, TypeOK
<1>2. HandlerOK(h)'
  BY <1>1, IdleOK DEF EventLost, storageVars, LocalInv, TypeOK, StorageTypeOK
<1>3. OthersTyped
  BY DEF EventLost, LocalInv, TypeOK, OthersTyped, history
<1> QED BY <1>1, <1>2, <1>3, IdleType, PureStep DEF EventLost

LEMMA PaymentRaisesKeeps ==
    ASSUME LocalInv, NEW h \in Handlers, PaymentRaises(h)
    PROVE  LocalInv'
<1>1. Become(h, Idle) /\ handlers'[h] = Idle
  BY DEF PaymentRaises, Become, LocalInv, TypeOK
<1>2. HandlerOK(h)'
  BY <1>1, IdleOK DEF PaymentRaises, storageVars, LocalInv, TypeOK, StorageTypeOK
<1>3. OthersTyped
  BY DEF PaymentRaises, OthersTyped, LocalInv, TypeOK, Handler
<1> QED BY <1>1, <1>2, <1>3, IdleType, PureStep DEF PaymentRaises

LEMMA DatabaseBusyKeeps ==
    ASSUME LocalInv, NEW h \in Handlers, DatabaseBusy(h)
    PROVE  LocalInv'
<1>1. Become(h, Idle) /\ handlers'[h] = Idle /\ handlers' \in [Handlers -> Handler]
  BY IdleType DEF DatabaseBusy, Become, LocalInv, TypeOK
<1>2. HandlerOK(h)'
  BY <1>1, IdleOK DEF DatabaseBusy, storageVars, LocalInv, TypeOK, StorageTypeOK
<1>3. OthersTyped
  BY DEF DatabaseBusy, OthersTyped, LocalInv, TypeOK, Handler
<1>4. /\ calls' \in Seq(Call) /\ DOMAIN calls' = DOMAIN calls
      /\ \A c \in DOMAIN calls : calls'[c].row = calls[c].row /\ calls'[c].state = calls[c].state
  <2>1. CASE handlers[h].pc = "settled"
    BY <2>1, CallIsLost DEF DatabaseBusy, LocalInv
  <2>2. CASE handlers[h].pc # "settled"
    BY <2>2 DEF DatabaseBusy, LocalInv, TypeOK
  <2> QED BY <2>1, <2>2
<1>5. TypeOK'
  BY <1>1, <1>3, <1>4 DEF DatabaseBusy, OthersTyped, LocalInv, TypeOK, StorageTypeOK, storageVars
<1>6. Grows
  BY <1>4 DEF DatabaseBusy, storageVars, LocalInv, TypeOK, StorageTypeOK, Grows, Released
<1> QED BY <1>1, <1>2, <1>4, <1>5, <1>6, GrowStep

\* Approve and RejectHold.
LEMMA ReviewKeeps ==
    ASSUME LocalInv, NEW h \in Handlers, NEW r \in DOMAIN requests,
           NEW kind, NEW pc, Review(h, r, kind, pc),
           \/ kind = "approve" /\ pc = "lookup"
           \/ kind = "reject" /\ pc = "reject"
    PROVE  LocalInv'
<1> DEFINE rec == [Idle EXCEPT !.kind = kind, !.pc = pc, !.row = r,
                             !.agent = requests[r].agent,
                             !.barred = Bars(policy[requests[r].agent])]
<1>1. r \in 1 .. lastId /\ requests[r].agent \in Agents
  BY DEF LocalInv, TypeOK, StorageTypeOK, Row
<1>2. rec \in Handler
  <2>1. pc \in Pcs
    BY DEF Pcs
  <2>2. r \in Nat /\ Bars(policy[requests[r].agent]) \subseteq {"deregistered", "frozen", "revoked"}
    BY <1>1 DEF Bars
  <2> QED BY <1>1, <2>1, <2>2 DEF Idle, Handler, Limits
<1>3. Become(h, rec) /\ handlers'[h] = rec
  BY DEF Review, Become, LocalInv, TypeOK
<1>4. HandlerOK(h)'
  <2>1. LocalOK(h)'
    BY <1>1, <1>3 DEF LocalOK, Idle, SpendPcs, CheckPcs
  <2>2. BarHolds(h)'
    BY <1>3 DEF BarHolds, Idle, Review
  <2>3. handlers'[h].row <= lastId'
    BY <1>1, <1>3 DEF Idle, Review, storageVars
  <2> QED BY <1>3, <2>1, <2>2, <2>3 DEF HandlerOK, CallKnown, Idle
<1>5. OthersTyped
  <2>1. contested' \subseteq Nat
    BY <1>1 DEF LocalInv, TypeOK, StorageTypeOK, Review
  <2> QED BY <2>1 DEF LocalInv, TypeOK, Review, Use, OthersTyped
<1> HIDE DEF rec
<1> QED BY <1>2, <1>3, <1>4, <1>5, PureStep DEF Review

\* A step of no handler, in a world that grows.
LEMMA WorldStep ==
    ASSUME LocalInv, handlers' = handlers, Grows, TypeOK', DOMAIN calls' = DOMAIN calls
    PROVE  LocalInv'
<1>1. \A k \in Handlers : HandlerOK(k)'
  BY OthersKeep DEF LocalInv
<1>2. \A c \in DOMAIN calls : CallOK(c)'
  BY DEF LocalInv, CallOK, Grows, Released
<1> QED BY <1>1, <1>2 DEF LocalInv

LEMMA AnswerKeeps ==
    ASSUME LocalInv, NEW c \in DOMAIN calls, Answer(c)
    PROVE  LocalInv'
<1>1. calls \in Seq(Call) /\ calls[c].state = "open"
  BY DEF LocalInv, TypeOK, Answer
<1>2. /\ calls' \in Seq(Call)
      /\ DOMAIN calls' = DOMAIN calls
      /\ \A d \in DOMAIN calls :
            /\ calls'[d].row = calls[d].row
            /\ calls[d].state = "settled" => calls'[d].state = "settled"
  <2>1. PICK s \in {"settled", "refused"} : calls' = [calls EXCEPT ![c].state = s]
    BY DEF Answer
  <2>2. \A d \in DOMAIN calls : calls[d] \in Call
    BY <1>1
  <2>3. /\ DOMAIN calls' = DOMAIN calls
        /\ calls' = [d \in DOMAIN calls |-> calls'[d]]
        /\ \A d \in DOMAIN calls : /\ calls'[d] \in Call
                                   /\ calls'[d].row = calls[d].row
                                   /\ calls[d].state = "settled" => calls'[d].state = "settled"
    BY <1>1, <2>1, <2>2 DEF Call
  <2>4. calls' \in Seq(Call)
    BY <1>1, <2>3, CallsUpdated
  <2> QED BY <2>3, <2>4
<1>3. TypeOK'
  BY <1>2 DEF Answer, LocalInv, TypeOK, StorageTypeOK, storageVars, history
<1>4. Grows
  BY <1>2 DEF Answer, storageVars, LocalInv, TypeOK, StorageTypeOK, Grows, Released
<1> QED BY <1>2, <1>3, <1>4, WorldStep DEF Answer

LEMMA ResetLogKeeps ==
    ASSUME LocalInv, ResetLog
    PROVE  LocalInv'
<1>1. DOMAIN requests' = {} /\ lastId' = lastId /\ clock' = clock
  BY DEF ResetLog, Reset
<1>2. TypeOK'
  BY <1>1 DEF ResetLog, Use, LocalInv, TypeOK, StorageTypeOK, history
<1>3. Grows
  BY <1>1, RowsKept DEF ResetLog
<1> QED BY <1>2, <1>3, WorldStep DEF ResetLog

LEMMA RestartKeeps ==
    ASSUME LocalInv, Restart
    PROVE  LocalInv'
<1>1. /\ StorageTypeOK' /\ lastId' = lastId
      /\ DOMAIN requests' = DOMAIN requests
      /\ \A x \in DOMAIN requests : requests'[x].born = requests[x].born
  BY ReapRows DEF Restart, LocalInv, TypeOK
<1>2. TypeOK'
  BY <1>1 DEF Restart, LocalInv, TypeOK, StorageTypeOK, history
<1>3. Grows
  BY <1>1, RowsKept DEF Restart
<1> QED BY <1>2, <1>3, WorldStep DEF Restart

LEMMA TickKeeps ==
    ASSUME LocalInv, Tick
    PROVE  LocalInv'
<1>1. TypeOK'
  BY DEF Tick, engineVars, history, LocalInv, TypeOK, StorageTypeOK
<1>2. Grows
  BY RowsKept DEF Tick, engineVars
<1> QED BY <1>1, <1>2, WorldStep DEF Tick, engineVars

LEMMA CrashKeeps ==
    ASSUME LocalInv, Crash
    PROVE  LocalInv'
<1>1. /\ calls' = [c \in DOMAIN calls |->
                       IF c \in Awaited THEN [calls[c] EXCEPT !.lost = TRUE] ELSE calls[c]]
      /\ calls \in Seq(Call)
  BY DEF Crash, LocalInv, TypeOK
<1>2. /\ calls' \in Seq(Call)
      /\ DOMAIN calls' = DOMAIN calls
      /\ \A c \in DOMAIN calls : calls'[c].row = calls[c].row
  <2>1. ASSUME NEW c \in DOMAIN calls
        PROVE  calls'[c] \in Call /\ calls'[c].row = calls[c].row
    <3>1. calls[c] \in Call
      BY <1>1
    <3>2. calls'[c] = IF c \in Awaited THEN [calls[c] EXCEPT !.lost = TRUE] ELSE calls[c]
      BY <1>1
    <3> QED BY <3>1, <3>2 DEF Call
  <2>2. DOMAIN calls' = DOMAIN calls /\ calls' = [c \in DOMAIN calls |-> calls'[c]]
    BY <1>1
  <2> QED BY <1>1, <2>1, <2>2, CallsUpdated
<1>3. /\ UNCHANGED <<requests, lastId, clock, policy, granted>>
      /\ up' = FALSE /\ OthersTyped
  BY DEF Crash, Use, storageVars, history, OthersTyped, LocalInv, TypeOK
<1>4. \A h \in Handlers : handlers'[h] = Idle
  BY DEF Crash
<1>5. handlers' \in [Handlers -> Handler]
  BY IdleType DEF Crash
<1>6. TypeOK'
  BY <1>2, <1>3, <1>5 DEF LocalInv, TypeOK, StorageTypeOK, OthersTyped
<1>7. \A h \in Handlers : HandlerOK(h)'
  BY <1>3, <1>4, IdleOK DEF LocalInv, TypeOK, StorageTypeOK
<1>8. \A c \in DOMAIN calls' : CallOK(c)'
  BY <1>2, <1>3 DEF LocalInv, CallOK, Released
<1> QED BY <1>6, <1>7, <1>8 DEF LocalInv

\* Every edit of the policy: the handlers whose agent it detaches keep what
\* they saw, and a bar that is lifted is no longer counted.
LEMMA ChangePolicyKeeps ==
    ASSUME LocalInv, NEW p \in [Agents -> Configs \cup {Absent}], NEW detached,
           ChangePolicy(p, detached),
           \A a \in Agents : p[a] = Absent /\ policy[a] # Absent => a \in detached
    PROVE  LocalInv'
<1> DEFINE Sees(h) == IF handlers[h].view = Live /\ handlers[h].agent \in detached
                      THEN policy[handlers[h].agent] ELSE handlers[h].view
           Still(h) == {b \in handlers[h].barred : b \in Bars(p[handlers[h].agent])}
<1>1. /\ policy' = p
      /\ UNCHANGED <<requests, lastId, clock, calls, granted, up>>
      /\ OthersTyped
  <2>1. Use("edits") /\ policy' = p
        /\ UNCHANGED <<requests, lastId, clock, calls, granted, up, startedAt, contested, dropped>>
    BY DEF ChangePolicy, storageVars, history
  <2>2. /\ used \in [{"spends", "reviews", "edits", "resets", "crashes"} -> Nat]
        /\ startedAt \in Nat /\ contested \subseteq Nat /\ dropped \subseteq Nat
    BY DEF LocalInv, TypeOK
  <2> QED BY <2>1, <2>2 DEF Use, OthersTyped
<1>2. ASSUME NEW h \in Handlers
      PROVE  /\ handlers[h] \in Handler /\ HandlerOK(h)
             /\ handlers'[h] = [handlers[h] EXCEPT !.view = Sees(h), !.barred = Still(h)]
  BY <1>2 DEF ChangePolicy, LocalInv, TypeOK
<1>3. ASSUME NEW h \in Handlers, handlers[h].pc # "idle"
      PROVE  handlers[h].agent \in Agents /\ Sees(h) \in Configs \cup {Live, Absent}
  <2>1. handlers[h].agent \in Agents
    BY <1>2, <1>3 DEF HandlerOK, LocalOK
  <2>2. policy[handlers[h].agent] \in Configs \cup {Absent}
    BY <2>1 DEF LocalInv, TypeOK
  <2>3. handlers[h].view \in Configs \cup {Live, Absent}
    BY <1>2 DEF Handler
  <2> QED BY <2>1, <2>2, <2>3
<1>4. ASSUME NEW h \in Handlers, handlers[h].pc = "idle"
      PROVE  handlers'[h] = Idle
  <2>1. handlers[h] = Idle /\ Idle.view # Live /\ Idle.barred = {}
    BY <1>2, <1>4, EngineAssumption DEF HandlerOK, LocalOK, Idle
  <2>2. Sees(h) = Idle.view /\ Still(h) = Idle.barred
    BY <2>1
  <2>3. [Idle EXCEPT !.view = Idle.view, !.barred = Idle.barred] = Idle
    BY DEF Idle
  <2> HIDE DEF Sees, Still
  <2> QED BY <1>2, <2>1, <2>2, <2>3
<1>5. \A h \in Handlers : handlers'[h] \in Handler
  <2> SUFFICES ASSUME NEW h \in Handlers, handlers[h].pc # "idle"
               PROVE  handlers'[h] \in Handler
    BY <1>4, IdleType
  <2>1. handlers[h] \in Handler
    BY <1>2
  <2>2. Still(h) \in SUBSET {"deregistered", "frozen", "revoked"}
    BY <2>1 DEF Handler
  <2>3. Sees(h) \in Configs \cup {Live, Absent}
    BY <1>3
  <2>4. handlers'[h] = [handlers[h] EXCEPT !.view = Sees(h), !.barred = Still(h)]
    BY <1>2
  <2> HIDE DEF Sees, Still
  <2> QED BY <2>1, <2>2, <2>3, <2>4 DEF Handler
<1>6. TypeOK'
  <2>1. handlers' = [h \in Handlers |-> handlers'[h]]
    BY DEF ChangePolicy
  <2>2. handlers' \in [Handlers -> Handler]
    BY <1>5, <2>1
  <2> QED BY <1>1, <2>2 DEF LocalInv, TypeOK, StorageTypeOK, OthersTyped
<1>7. ASSUME NEW h \in Handlers PROVE HandlerOK(h)'
  <2>1. CASE handlers[h].pc = "idle"
    BY <1>1, <1>4, <2>1, IdleOK DEF LocalInv, TypeOK, StorageTypeOK
  <2>2. CASE handlers[h].pc # "idle"
    <3> DEFINE me == handlers[h]
    <3>1. /\ handlers'[h].kind = me.kind /\ handlers'[h].pc = me.pc
          /\ handlers'[h].agent = me.agent /\ handlers'[h].row = me.row
          /\ handlers'[h].call = me.call
          /\ handlers'[h].view = Sees(h) /\ handlers'[h].barred = Still(h)
      <4>1. handlers[h] \in Handler
        BY <1>2
      <4>2. handlers'[h] = [handlers[h] EXCEPT !.view = Sees(h), !.barred = Still(h)]
        BY <1>2
      <4> HIDE DEF Sees, Still
      <4> QED BY <4>1, <4>2 DEF Handler
    <3>2. /\ me.pc \in CheckPcs => Sees(h) \in Configs \cup {Live}
          /\ me.pc \in CheckPcs /\ Sees(h) = Live => p[me.agent] # Absent
      <4>1. me.pc \in CheckPcs =>
               /\ me.view \in Configs \cup {Live}
               /\ me.view = Live => policy[me.agent] # Absent
        BY <1>2 DEF HandlerOK, LocalOK
      <4>2. me.agent \in Agents /\ policy[me.agent] \in Configs \cup {Absent}
        BY <1>3, <2>2 DEF LocalInv, TypeOK
      <4>3. Live \notin Configs
        BY EngineAssumption
      <4> QED BY <4>1, <4>2, <4>3
    <3>3. LocalOK(h)'
      <4> HIDE DEF Sees
      <4> QED BY <1>1, <1>2, <2>2, <3>1, <3>2 DEF HandlerOK, LocalOK
    <3>4. CallKnown(h)'
      BY <1>1, <1>2, <3>1 DEF HandlerOK, CallKnown
    <3>5. BarHolds(h)'
      <4> SUFFICES ASSUME me.kind # "reject" PROVE BarHolds(h)'
        BY <3>1 DEF BarHolds
      <4>1. Still(h) # {} => me.barred # {}
        OBVIOUS
      <4>2. ASSUME NEW b \in Still(h), me.pc \in {"frozen", "allowed"}
            PROVE  b \in Bars(Cfg(h)')
        <5>1. b \in Bars(p[me.agent]) /\ b \in Bars(Cfg(h))
          BY <1>2, <4>2 DEF HandlerOK, BarHolds
        <5>2. Cfg(h)' = p[me.agent] \/ Cfg(h)' = Cfg(h)
          <6>1. me.view \in Configs \cup {Live}
            BY <1>2, <4>2 DEF HandlerOK, LocalOK, CheckPcs
          <6> QED BY <1>1, <1>3, <2>2, <3>1, <6>1 DEF Cfg
        <5> QED BY <5>1, <5>2
      <4>3. ASSUME NEW b \in Still(h)
            PROVE  /\ b \in Bars(p[me.agent])
                   /\ me.pc = "frozen" => b \in {"frozen", "revoked"}
                   /\ me.pc = "allowed" => b = "revoked"
        BY <1>2 DEF HandlerOK, BarHolds
      <4>4. me.barred # {} =>
              me.pc \in {"frozen", "allowed", "deny", "log", "lookup", "block", "failed"}
        BY <1>2 DEF HandlerOK, BarHolds
      <4> HIDE DEF Still, Sees
      <4> QED BY <1>1, <3>1, <4>1, <4>2, <4>3, <4>4 DEF BarHolds, Bars
    <3>6. (handlers[h].pc = "setup" => Released(handlers[h].row))'
      BY <1>1, <1>2, <3>1 DEF HandlerOK, Released
    <3>7. handlers'[h].row <= lastId'
      BY <1>1, <1>2, <3>1 DEF HandlerOK
    <3> QED BY <3>3, <3>4, <3>5, <3>6, <3>7 DEF HandlerOK
  <2> QED BY <2>1, <2>2
<1>8. \A c \in DOMAIN calls' : CallOK(c)'
  BY <1>1 DEF LocalInv, CallOK, Released
<1> QED BY <1>6, <1>7, <1>8 DEF LocalInv

LEMMA EditPolicyKeeps ==
    ASSUME LocalInv, EditPolicy
    PROVE  LocalInv'
<1>1. policy \in [Agents -> Configs \cup {Absent}]
  BY DEF LocalInv, TypeOK
<1>2. ASSUME NEW a \in Agents, RemoveAgent(a) PROVE LocalInv'
  <2>1. [policy EXCEPT ![a] = Absent] \in [Agents -> Configs \cup {Absent}]
    BY <1>1
  <2>2. \A b \in Agents :
           [policy EXCEPT ![a] = Absent][b] = Absent /\ policy[b] # Absent => b \in {a}
    BY <1>1
  <2> QED BY <1>2, <2>1, <2>2, ChangePolicyKeeps DEF RemoveAgent
<1>3. ASSUME NEW a \in Agents, NEW cfg \in Configs, Patch(a, cfg) \/ AddAgent(a, cfg)
      PROVE  LocalInv'
  <2>1. [policy EXCEPT ![a] = cfg] \in [Agents -> Configs \cup {Absent}]
    BY <1>1
  <2>2. cfg # Absent
    BY EngineAssumption
  <2>3. \A b \in Agents : ~([policy EXCEPT ![a] = cfg][b] = Absent /\ policy[b] # Absent)
    BY <1>1, <2>2
  <2> QED BY <1>3, <2>1, <2>3, ChangePolicyKeeps DEF Patch, AddAgent
<1>4. ASSUME NEW p \in [Agents -> Configs \cup {Absent}], HotReload(p) PROVE LocalInv'
  BY <1>4, ChangePolicyKeeps DEF HotReload
<1> QED BY <1>2, <1>3, <1>4 DEF EditPolicy

LEMMA LocalInit ==
    ASSUME Init
    PROVE  LocalInv
<1>1. handlers \in [Handlers -> Handler] /\ \A h \in Handlers : handlers[h] = Idle
  BY IdleType DEF Init
<1>2. calls \in Seq(Call) /\ DOMAIN calls = {}
  BY DEF Init
<1>3. StorageTypeOK
  BY DEF Init, StorageInit, StorageTypeOK
<1>4. TypeOK
  BY <1>1, <1>2, <1>3 DEF Init, TypeOK
<1>5. ASSUME NEW h \in Handlers PROVE HandlerOK(h)
  <2>1. handlers[h] = Idle
    BY <1>1
  <2>2. LocalOK(h) /\ CallKnown(h) /\ BarHolds(h)
    BY <2>1 DEF LocalOK, CallKnown, BarHolds, Idle, SpendPcs, CheckPcs
  <2>3. handlers[h].row = 0 /\ lastId = 0 /\ handlers[h].pc = "idle"
    BY <2>1 DEF Idle, Init, StorageInit
  <2> QED BY <2>2, <2>3 DEF HandlerOK
<1> QED BY <1>2, <1>4, <1>5 DEF LocalInv

LEMMA StepKeepsLocal ==
    ASSUME LocalInv, NEW h \in Handlers, Step(h)
    PROVE  LocalInv'
<1>1. CASE \/ CheckFrozen(h) \/ CheckAllowed(h) \/ BadParams(h) \/ CheckCeiling(h)
           \/ CheckThreshold(h) \/ ReadCaps(h) \/ Deny(h) \/ SetupFails(h)
           \/ Receive(h) \/ CheckAgent(h) \/ RecordRefusal(h)
  BY <1>1, CheckFrozenKeeps, CheckAllowedKeeps, BadParamsKeeps, CheckCeilingKeeps,
     CheckThresholdKeeps, ReadCapsKeeps, DenyKeeps, SetupFailsKeeps, ReceiveKeeps,
     CheckAgentKeeps, RecordRefusalKeeps
<1>2. CASE \/ Reserve(h) \/ Log(h) \/ Send(h) \/ GiveUp(h) \/ Grant(h) \/ EventLost(h)
           \/ PaymentRaises(h) \/ DatabaseBusy(h)
  BY <1>2, ReserveKeeps, LogKeeps, SendKeeps, GiveUpKeeps, GrantKeeps, EventLostKeeps,
     PaymentRaisesKeeps, DatabaseBusyKeeps
<1>3. CASE Park(h)
  BY <1>3, FinalizeKeeps DEF Park, Decisions, CapCounting
<1>4. CASE FinalizeApproved(h)
  BY <1>4, FinalizeKeeps DEF FinalizeApproved, Decisions, CapCounting
<1>5. CASE FinalizeDenied(h)
  BY <1>5, FinalizeKeeps DEF FinalizeDenied, Decisions
<1> QED BY <1>1, <1>2, <1>3, <1>4, <1>5 DEF Step

LEMMA StutterKeepsLocal ==
    ASSUME LocalInv, UNCHANGED vars
    PROVE  LocalInv'
<1>1. TypeOK'
  BY DEF vars, storageVars, engineVars, history, LocalInv, TypeOK, StorageTypeOK
<1>2. Grows
  BY RowsKept DEF vars, storageVars, engineVars
<1> QED BY <1>1, <1>2, WorldStep DEF vars, engineVars

LEMMA NextKeepsLocal ==
    ASSUME LocalInv, Next
    PROVE  LocalInv'
<1>1. ASSUME NEW h \in Handlers, Begin(h) PROVE LocalInv'
  BY <1>1, SpendKeeps, ReviewKeeps DEF Begin, Approve, RejectHold
<1>2. ASSUME NEW h \in Handlers, Step(h) PROVE LocalInv'
  BY <1>2, StepKeepsLocal
<1>3. ASSUME NEW c \in DOMAIN calls, Answer(c) PROVE LocalInv'
  BY <1>3, AnswerKeeps
<1>4. CASE EditPolicy
  BY <1>4, EditPolicyKeeps
<1>5. CASE ResetLog \/ Crash \/ Restart \/ Tick
  BY <1>5, ResetLogKeeps, CrashKeeps, RestartKeeps, TickKeeps
<1>6. CASE Rest
  BY <1>6, StutterKeepsLocal DEF Rest
<1> QED BY <1>1, <1>2, <1>3, <1>4, <1>5, <1>6 DEF Next

\* Whatever the interleaving, and with any number of reviews of one hold at
\* once, LocalInv holds.
THEOREM LocalInvariant == Spec => []LocalInv
<1>1. Init => LocalInv
  BY LocalInit
<1>2. LocalInv /\ [Next]_vars => LocalInv'
  BY NextKeepsLocal, StutterKeepsLocal
<1> QED BY <1>1, <1>2, PTL DEF Spec

\* Type correctness of the spend path.
THEOREM TypeCorrect == Spec => []TypeOK
<1>1. LocalInv => TypeOK
  BY DEF LocalInv
<1> QED BY <1>1, LocalInvariant, PTL

\* No call is sent for a parked spend before its approval.granted event, however
\* many reviewers, edits, resets and restarts come between (approve_hold,
\* app.py).
THEOREM HoldsNeedGrants == Spec => []HeldUntilGranted
<1>1. LocalInv => HeldUntilGranted
  BY DEF LocalInv, CallOK, Released, HeldUntilGranted
<1> QED BY <1>1, LocalInvariant, PTL

\* The kill switch: a spend or a release that begins after the agent is frozen,
\* its action revoked or its entry removed makes no payment while that lasts,
\* through every in-place edit, removal and reload of the policy meanwhile.
THEOREM KillSwitch == Spec => []BarredNeverPays
<1>1. LocalInv => BarredNeverPays
  BY DEF LocalInv, HandlerOK, BarHolds, BarredNeverPays
<1> QED BY <1>1, LocalInvariant, PTL

----------------------------------------------------------------------------
(***************************************************************************)
(* PayInv is inductive.                                                    *)
(***************************************************************************)
\* The daily cap after a step, from what StorageProofs says of the table.
LEMMA CapStep ==
    ASSUME CapAfter(contested')
    PROVE  WithinCap'
BY DEF WithinCap, WithinCapBut, CapAfter, After, CentsAfter, Cents

LEMMA SameCap ==
    ASSUME PayInv, requests' = requests, contested \subseteq contested'
    PROVE  WithinCap'
<1>1. StorageTypeOK /\ WithinCapBut(contested)
  BY DEF PayInv, LocalInv, TypeOK, WithinCap
<1>2. \A r \in DOMAIN requests : Counts(r)' => Counts(r)
  BY DEF Counts
<1>3. CapAfter(contested')
  BY <1>1, <1>2, ReleaseKeepsCap
<1> QED BY <1>3, CapStep

\* A step after which every handler has the row it had or none, no approved row
\* is anything else, and each payment that was waited for is still tracked.
LEMMA StillTracked ==
    ASSUME PayInv, LocalInv',
           \A h \in Handlers : handlers'[h].row \in {0, handlers[h].row},
           DOMAIN calls' = DOMAIN calls, contested' = contested,
           \A c \in DOMAIN calls :
              /\ calls'[c].row = calls[c].row
              /\ calls[c].lost => calls'[c].lost
              /\ calls[c].state = "refused" => calls'[c].state = "refused",
           \A r \in 1 .. lastId \ contested : r \in DOMAIN requests' =>
              /\ r \in DOMAIN requests
              /\ requests[r].decision = "approved" => requests'[r].decision = "approved",
           \A h \in Handlers, c \in DOMAIN calls : Awaits(h, c) => PaymentTracked(c)'
    PROVE  RowsOwned' /\ (\A c \in DOMAIN calls' : PaymentTracked(c)') /\ OnePayment'
<1>1. RowsOwned'
  BY DEF PayInv, RowsOwned
<1>2. ASSUME NEW c \in DOMAIN calls PROVE PaymentTracked(c)'
  <2>1. calls[c].row \in 1 .. lastId
    BY DEF PayInv, LocalInv, CallOK
  <2>2. PaymentTracked(c)
    BY DEF PayInv
  <2>3. CASE \/ calls[c].row \in contested
             \/ calls[c].lost
             \/ calls[c].state = "refused"
             \/ \E h \in Handlers : Awaits(h, c)
    BY <2>3 DEF PaymentTracked
  <2>4. CASE /\ \A h \in Handlers : handlers[h].row # calls[c].row
             /\ calls[c].row \in DOMAIN requests => requests[calls[c].row].decision = "approved"
    BY <2>1, <2>4 DEF PaymentTracked
  <2> QED BY <2>2, <2>3, <2>4 DEF PaymentTracked
<1>3. OnePayment'
  BY DEF PayInv, OnePayment
<1> QED BY <1>1, <1>2, <1>3

LEMMA RowFacts ==
    ASSUME PayInv, NEW h \in Handlers
    PROVE  /\ handlers[h] \in Handler /\ handlers[h].row \in Nat
           /\ handlers[h].row <= lastId /\ lastId \in Nat
           /\ 0 \notin DOMAIN requests
           /\ handlers[h].row \in DOMAIN requests \ contested =>
                 requests[handlers[h].row].decision \in Undecided
           /\ handlers[h].pc = "idle" => handlers[h].row = 0
           /\ handlers[h].pc \in PayPcs \cup {"park"} => handlers[h].row # 0
           /\ \A k \in Handlers \ {h} :
                 handlers[h].row \notin contested \cup {0} => handlers[k].row # handlers[h].row
BY DEF PayInv, LocalInv, TypeOK, StorageTypeOK, HandlerOK, LocalOK, Handler, OwnedUndecided,
       RowsOwned, PayPcs, Idle

\* A step of h that touches neither rows nor calls, nor leaves a call behind.
Quiet(h) ==
    /\ up /\ UNCHANGED <<storageVars, calls, up, contested>>
    /\ \A k \in Handlers \ {h} : handlers'[k] = handlers[k]
    /\ handlers'[h].row \in {0, handlers[h].row}
    /\ handlers[h].pc \notin {"await", "settled"}

LEMMA QuietKeeps ==
    ASSUME PayInv, LocalInv', NEW h \in Handlers, Quiet(h)
    PROVE  PayInv'
<1>1. /\ UNCHANGED <<requests, lastId, clock, calls, up, contested>> /\ up
      /\ \A k \in Handlers : handlers'[k].row \in {0, handlers[k].row}
  BY DEF Quiet, storageVars
<1>2. ASSUME NEW k \in Handlers, NEW c \in DOMAIN calls, Awaits(k, c)
      PROVE  PaymentTracked(c)'
  <2>1. k # h /\ handlers'[k] = handlers[k]
    BY <1>2 DEF Awaits, Quiet
  <2> QED BY <1>2, <2>1 DEF Awaits, PaymentTracked
<1>3. RowsOwned' /\ (\A c \in DOMAIN calls' : PaymentTracked(c)') /\ OnePayment'
  BY <1>1, <1>2, StillTracked
<1>4. OwnedUndecided'
  BY <1>1, RowFacts DEF OwnedUndecided
<1>5. WithinCap'
  BY <1>1, SameCap
<1>6. DownIdle'
  BY <1>1 DEF DownIdle
<1> QED BY <1>3, <1>4, <1>5, <1>6 DEF PayInv

LEMMA QuietSteps ==
    ASSUME PayInv, NEW h \in Handlers,
           \/ CheckFrozen(h) \/ CheckAllowed(h) \/ BadParams(h) \/ CheckCeiling(h)
           \/ CheckThreshold(h) \/ ReadCaps(h) \/ Deny(h) \/ SetupFails(h)
           \/ CheckAgent(h) \/ Grant(h) \/ RecordRefusal(h) \/ EventLost(h)
           \/ PaymentRaises(h)
           \/ \E a \in Agents, n \in Amounts : Spend(h, a, n)
    PROVE  Quiet(h)
<1>1. handlers \in [Handlers -> Handler] /\ handlers[h] \in Handler
  BY DEF PayInv, LocalInv, TypeOK
<1>2. CASE CheckFrozen(h)
  BY <1>1, <1>2 DEF CheckFrozen, Check, Quiet, At, Become, Handler, storageVars, history
<1>3. CASE CheckAllowed(h)
  BY <1>1, <1>3 DEF CheckAllowed, Check, Quiet, At, Become, Handler, storageVars, history
<1>4. CASE BadParams(h)
  BY <1>1, <1>4 DEF BadParams, Goto, Quiet, At, Become, Handler, storageVars, history
<1>5. CASE CheckCeiling(h)
  BY <1>1, <1>5 DEF CheckCeiling, Check, Quiet, At, Become, Handler, storageVars, history
<1>6. CASE CheckThreshold(h)
  BY <1>1, <1>6 DEF CheckThreshold, Quiet, At, Become, Handler, storageVars, history
<1>7. CASE ReadCaps(h)
  BY <1>1, <1>7 DEF ReadCaps, Quiet, At, Become, Handler, storageVars, history
<1>8. CASE Deny(h)
  BY <1>1, <1>8 DEF Deny, Quiet, At, Become, Handler, storageVars, history
<1>9. CASE SetupFails(h)
  BY <1>1, <1>9 DEF SetupFails, Goto, Quiet, At, Become, Handler, storageVars, history
<1>10. CASE CheckAgent(h)
  BY <1>1, <1>10 DEF CheckAgent, Quiet, At, Become, Handler, storageVars, history
<1>11. CASE Grant(h)
  BY <1>1, <1>11 DEF Grant, Goto, Quiet, At, Become, Handler, storageVars, history
<1>12. CASE RecordRefusal(h)
  BY <1>1, <1>12 DEF RecordRefusal, Goto, Quiet, At, Become, Handler, storageVars, history
<1>13. CASE EventLost(h)
  BY <1>1, <1>13 DEF EventLost, Quiet, At, Become, Idle, storageVars, history
<1>15. CASE PaymentRaises(h)
  BY <1>1, <1>15 DEF PaymentRaises, Quiet, At, Become, Idle, storageVars
<1>14. ASSUME NEW a \in Agents, NEW n \in Amounts, Spend(h, a, n) PROVE Quiet(h)
  <2>1. PICK ok \in BOOLEAN :
          handlers' = [handlers EXCEPT ![h] = [Idle EXCEPT
              !.kind = "spend", !.agent = a,
              !.amount = IF policy[a] = Absent THEN 0 ELSE n,
              !.view = IF policy[a] = Absent THEN Absent ELSE Live,
              !.pc = IF ok /\ policy[a] # Absent THEN "frozen" ELSE "deny",
              !.barred = Bars(policy[a])]]
    BY <1>14 DEF Spend, Become
  <2>2. handlers'[h].row = 0 /\ \A k \in Handlers \ {h} : handlers'[k] = handlers[k]
    BY <1>1, <2>1 DEF Idle
  <2>3. up /\ handlers[h].pc = "idle" /\ UNCHANGED <<storageVars, calls, up, contested>>
    BY <1>14 DEF Spend, At, history
  <2> QED BY <2>2, <2>3 DEF Quiet
<1> QED BY <1>2, <1>3, <1>4, <1>5, <1>6, <1>7, <1>8, <1>9, <1>10, <1>11, <1>12, <1>13, <1>14,
         <1>15

\* finalize, called by a handler at work on the row: from undecided to any
\* decision, unless it is contested, after which the handler is done with it.
LEMMA FinalizePays ==
    ASSUME PayInv, LocalInv', NEW h \in Handlers, NEW d \in Decisions, up,
           Finalize(handlers[h].row, d), Become(h, Idle),
           UNCHANGED <<calls, up, contested>>,
           \/ handlers[h].pc \notin {"await", "settled"}
           \/ d = "approved"
    PROVE  PayInv'
<1> DEFINE row == handlers[h].row
<1>1. /\ DOMAIN requests' = DOMAIN requests /\ lastId' = lastId
      /\ \A x \in DOMAIN requests :
            /\ requests'[x] = IF x = row THEN [requests[x] EXCEPT !.decision = d]
                              ELSE requests[x]
            /\ requests'[x].agent = requests[x].agent
            /\ requests'[x].amount = requests[x].amount
            /\ requests'[x].at = requests[x].at
            /\ requests'[x].cap = requests[x].cap
      /\ \A x \in DOMAIN requests : x # row => requests'[x] = requests[x]
      /\ row \in DOMAIN requests => requests'[row].decision = d
  <2>1. StorageTypeOK
    BY DEF PayInv, LocalInv, TypeOK
  <2>2. \A x \in DOMAIN requests : requests[x] \in Row
    BY <2>1 DEF StorageTypeOK
  <2>3. /\ DOMAIN requests' = DOMAIN requests /\ lastId' = lastId
        /\ \A x \in DOMAIN requests :
              /\ requests'[x] = IF x = row THEN [requests[x] EXCEPT !.decision = d]
                                ELSE requests[x]
              /\ requests'[x].agent = requests[x].agent
              /\ requests'[x].amount = requests[x].amount
              /\ requests'[x].at = requests[x].at
              /\ requests'[x].cap = requests[x].cap
    BY <2>1, FinalizeRows
  <2>4. row \in DOMAIN requests => requests'[row].decision = d
    BY <2>2, <2>3 DEF Row
  <2>5. \A x \in DOMAIN requests : x # row => requests'[x] = requests[x]
    BY <2>3
  <2> QED BY <2>3, <2>4, <2>5
<1>2. handlers'[h] = Idle /\ \A k \in Handlers \ {h} : handlers'[k] = handlers[k]
  BY DEF Become, PayInv, LocalInv, TypeOK
<1>3. row \in DOMAIN requests \ contested => requests[row].decision \in Undecided
  BY RowFacts
<1>4. WithinCap'
  <2>1. \A x \in DOMAIN requests : x \notin contested /\ Counts(x)' => Counts(x)
    BY <1>1, <1>3 DEF Counts, Undecided, CapCounting
  <2>2. StorageTypeOK /\ WithinCapBut(contested)
    BY DEF PayInv, LocalInv, TypeOK, WithinCap
  <2>3. CapAfter(contested')
    BY <1>1, <2>1, <2>2, ReleaseKeepsCap
  <2> QED BY <2>3, CapStep
<1>5. \A k \in Handlers : handlers'[k].row \in {0, handlers[k].row}
  BY <1>2 DEF Idle
<1>6. \A r \in 1 .. lastId \ contested : r \in DOMAIN requests' =>
         /\ r \in DOMAIN requests
         /\ requests[r].decision = "approved" => requests'[r].decision = "approved"
  BY <1>1, <1>3 DEF Undecided
<1>7. ASSUME NEW k \in Handlers, NEW c \in DOMAIN calls, Awaits(k, c)
      PROVE  PaymentTracked(c)'
  <2>1. CASE k # h
    BY <1>2, <1>7, <2>1 DEF Awaits, PaymentTracked
  <2>2. CASE k = h
    <3>1. d = "approved" /\ calls[c].row = row /\ row # 0
      BY <1>7, <2>2, RowFacts DEF Awaits, PayPcs, PayInv, LocalInv, HandlerOK, CallKnown
    <3>2. row \notin contested => \A j \in Handlers : handlers'[j].row # row
      BY <1>2, <3>1, RowFacts DEF Idle
    <3> QED BY <1>1, <3>1, <3>2 DEF PaymentTracked
  <2> QED BY <2>1, <2>2
<1>8. RowsOwned' /\ (\A c \in DOMAIN calls' : PaymentTracked(c)') /\ OnePayment'
  BY <1>5, <1>6, <1>7, StillTracked
<1>9. OwnedUndecided'
  <2> SUFFICES ASSUME NEW k \in Handlers, handlers'[k].row \in DOMAIN requests' \ contested
               PROVE  requests'[handlers'[k].row].decision \in Undecided
    BY DEF OwnedUndecided
  <2>1. k # h
    BY <1>1, <1>2, RowFacts DEF Idle
  <2>2. handlers[k].row # row /\ handlers[k].row # 0
    BY <1>1, <1>2, <2>1, RowFacts
  <2> QED BY <1>1, <1>2, <2>1, <2>2, RowFacts
<1> QED BY <1>4, <1>8, <1>9 DEF PayInv, DownIdle

LEMMA LogPays ==
    ASSUME PayInv, LocalInv', NEW h \in Handlers, Log(h)
    PROVE  PayInv'
<1> DEFINE row == [agent |-> handlers[h].agent, amount |-> handlers[h].amount,
                   at |-> handlers[h].at, born |-> "denied", decision |-> "denied",
                   cap |-> 0, limit |-> NoLimit]
<1>1. row \in Row /\ Insert(row) /\ row.decision \notin CapCounting
  BY DEF Log, LogRequest, PayInv, LocalInv, TypeOK, HandlerOK, LocalOK, At, Handler, Row,
         Decisions, CapCounting, Limits
<1> HIDE DEF row
<1>2. /\ lastId' = lastId + 1
      /\ DOMAIN requests' = DOMAIN requests \cup {lastId + 1}
      /\ \A r \in DOMAIN requests : requests'[r] = requests[r]
  BY <1>1, InsertRows DEF PayInv, LocalInv, TypeOK
<1>3. handlers'[h] = Idle /\ \A k \in Handlers \ {h} : handlers'[k] = handlers[k]
  BY DEF Log, Become, PayInv, LocalInv, TypeOK
<1>4. up /\ UNCHANGED <<calls, up, contested>> /\ handlers[h].pc = "log"
  BY DEF Log, At, history
<1>5. WithinCap'
  <2>1. CapAfter(contested')
    BY <1>1, <1>4, InsertKeepsCap DEF PayInv, LocalInv, TypeOK, WithinCap
  <2> QED BY <2>1, CapStep
<1>6. \A k \in Handlers : handlers'[k].row \in {0, handlers[k].row}
  BY <1>3 DEF Idle
<1>7. \A k \in Handlers, c \in DOMAIN calls : Awaits(k, c) => PaymentTracked(c)'
  BY <1>3, <1>4 DEF Awaits, PaymentTracked
<1>8. \A r \in 1 .. lastId : r \in DOMAIN requests' =>
         r \in DOMAIN requests /\ requests'[r] = requests[r]
  BY <1>2, RowFacts
<1>9. RowsOwned' /\ (\A c \in DOMAIN calls' : PaymentTracked(c)') /\ OnePayment'
  BY <1>4, <1>6, <1>7, <1>8, StillTracked
<1>10. OwnedUndecided'
  BY <1>2, <1>3, <1>4, RowFacts DEF OwnedUndecided, Idle
<1> QED BY <1>4, <1>5, <1>9, <1>10 DEF PayInv, DownIdle

\* GiveUp, and DatabaseBusy at the finalize of a settled payment.
LEMMA LosesCall ==
    ASSUME PayInv, LocalInv', NEW h \in Handlers,
           up, UNCHANGED <<storageVars, up, contested>>,
           handlers'[h].row \in {0, handlers[h].row},
           \A k \in Handlers \ {h} : handlers'[k] = handlers[k],
           calls' = [calls EXCEPT ![handlers[h].call].lost = TRUE]
    PROVE  PayInv'
<1>1. UNCHANGED <<requests, lastId>> /\ contested' = contested
  BY DEF storageVars
<1>2. \A k \in Handlers : handlers'[k].row \in {0, handlers[k].row}
  OBVIOUS
<1>3. /\ DOMAIN calls' = DOMAIN calls
      /\ \A c \in DOMAIN calls :
            /\ calls'[c].row = calls[c].row
            /\ calls'[c].state = calls[c].state
            /\ calls[c].lost => calls'[c].lost
            /\ c = handlers[h].call => calls'[c].lost
  BY CallIsLost DEF PayInv, LocalInv
<1>4. ASSUME NEW k \in Handlers, NEW c \in DOMAIN calls, Awaits(k, c)
      PROVE  PaymentTracked(c)'
  BY <1>3, <1>4 DEF Awaits, PaymentTracked
<1>6. RowsOwned' /\ (\A c \in DOMAIN calls' : PaymentTracked(c)') /\ OnePayment'
  BY <1>1, <1>2, <1>3, <1>4, StillTracked
<1>7. OwnedUndecided'
  BY <1>1, <1>2, RowFacts DEF OwnedUndecided
<1>8. WithinCap'
  BY <1>1, SameCap
<1> QED BY <1>1, <1>6, <1>7, <1>8 DEF PayInv, DownIdle

LEMMA GiveUpPays ==
    ASSUME PayInv, LocalInv', NEW h \in Handlers, GiveUp(h)
    PROVE  PayInv'
<1>1. /\ up /\ UNCHANGED <<storageVars, up, contested>>
      /\ handlers'[h] = [handlers[h] EXCEPT !.pc = "failed"]
      /\ \A k \in Handlers \ {h} : handlers'[k] = handlers[k]
      /\ calls' = [calls EXCEPT ![handlers[h].call].lost = TRUE]
  BY DEF GiveUp, Goto, At, Become, history, PayInv, LocalInv, TypeOK
<1>2. handlers'[h].row = handlers[h].row
  BY <1>1, RowFacts DEF Handler
<1> QED BY <1>1, <1>2, LosesCall

LEMMA DatabaseBusyPays ==
    ASSUME PayInv, LocalInv', NEW h \in Handlers, DatabaseBusy(h)
    PROVE  PayInv'
<1>1. /\ up /\ UNCHANGED <<storageVars, up, contested>>
      /\ handlers'[h] = Idle
      /\ \A k \in Handlers \ {h} : handlers'[k] = handlers[k]
      /\ handlers[h].pc # "await"
  BY DEF DatabaseBusy, Become, PayInv, LocalInv, TypeOK
<1>2. handlers'[h].row = 0
  BY <1>1 DEF Idle
<1>3. CASE handlers[h].pc = "settled"
  <2>1. calls' = [calls EXCEPT ![handlers[h].call].lost = TRUE]
    BY <1>3 DEF DatabaseBusy
  <2> QED BY <1>1, <1>2, <2>1, LosesCall
<1>4. CASE handlers[h].pc # "settled"
  <2>1. calls' = calls
    BY <1>4 DEF DatabaseBusy
  <2>2. Quiet(h)
    BY <1>1, <1>2, <1>4, <2>1 DEF Quiet
  <2> QED BY <2>2, QuietKeeps
<1> QED BY <1>3, <1>4

LEMMA ReceivePays ==
    ASSUME PayInv, LocalInv', NEW h \in Handlers, Receive(h)
    PROVE  PayInv'
<1>1. /\ up /\ UNCHANGED <<requests, lastId, clock, calls, up, contested>>
      /\ handlers'[h] = [handlers[h] EXCEPT
            !.pc = IF calls[handlers[h].call].state = "settled" THEN "settled" ELSE "failed"]
      /\ \A k \in Handlers \ {h} : handlers'[k] = handlers[k]
      /\ handlers[h].pc = "await" /\ calls[handlers[h].call].state # "open"
  BY DEF Receive, Goto, At, Become, storageVars, history, PayInv, LocalInv, TypeOK
<1>2. \A k \in Handlers : handlers'[k].row = handlers[k].row
  BY <1>1, RowFacts DEF Handler
<1>3. ASSUME NEW k \in Handlers, NEW c \in DOMAIN calls, Awaits(k, c)
      PROVE  PaymentTracked(c)'
  <2>1. CASE k # h
    BY <1>1, <1>3, <2>1 DEF Awaits, PaymentTracked
  <2>2. CASE k = h
    <3>1. calls[c].state \in {"settled", "refused"}
      <4>1. calls[c] \in Call
        BY DEF PayInv, LocalInv, TypeOK
      <4> QED BY <1>1, <1>3, <2>2, <4>1 DEF Awaits, Call
    <3>2. CASE calls[c].state = "refused"
      BY <1>1, <3>2 DEF PaymentTracked
    <3>3. CASE calls[c].state = "settled"
      <4>1. handlers'[h].pc = "settled" /\ handlers'[h].call = c
        BY <1>1, <1>3, <2>2, <3>3, RowFacts DEF Awaits, Handler
      <4> QED BY <4>1 DEF Awaits, PaymentTracked
    <3> QED BY <3>1, <3>2, <3>3
  <2> QED BY <2>1, <2>2
<1>4. RowsOwned' /\ (\A c \in DOMAIN calls' : PaymentTracked(c)') /\ OnePayment'
  BY <1>1, <1>2, <1>3, StillTracked
<1>5. OwnedUndecided'
  BY <1>1, <1>2, RowFacts DEF OwnedUndecided
<1>6. WithinCap'
  BY <1>1, SameCap
<1> QED BY <1>1, <1>4, <1>5, <1>6 DEF PayInv, DownIdle

\* try_reserve: the handler comes to own a new row, which fits in its cap.
LEMMA ReservePays ==
    ASSUME PayInv, LocalInv', NEW h \in Handlers, Reserve(h)
    PROVE  PayInv'
<1>1. /\ handlers[h] \in Handler /\ handlers[h].pc = "reserve" /\ up
      /\ handlers[h].agent \in Agents
      /\ UNCHANGED <<calls, up, contested>>
  BY DEF PayInv, LocalInv, TypeOK, HandlerOK, LocalOK, Reserve, At, history
<1>2. CASE UNCHANGED storageVars /\ Goto(h, "deny")
  <2>1. Quiet(h)
    BY <1>1, <1>2 DEF Quiet, Goto, Become, Handler, PayInv, LocalInv, TypeOK
  <2> QED BY <2>1, QuietKeeps
<1>3. CASE ~(UNCHANGED storageVars /\ Goto(h, "deny"))
  <2> DEFINE me == handlers[h]
             state == IF me.hold THEN "awaiting_approval" ELSE "pending"
             row == [agent |-> me.agent, amount |-> me.amount, at |-> clock,
                     born |-> state, decision |-> state, cap |-> me.cap,
                     limit |-> me.limit]
             rec == [me EXCEPT !.pc = IF me.hold THEN "park" ELSE "setup", !.row = lastId']
             n == lastId + 1
  <2>1. /\ Insert(row) /\ Become(h, rec)
        /\ ~Rejected(me.agent, me.amount, me.cap, me.limit)
    BY <1>3 DEF Reserve, TryReserve
  <2>2. StorageTypeOK /\ lastId \in Nat /\ n \notin DOMAIN requests
    BY DEF PayInv, LocalInv, TypeOK, StorageTypeOK
  <2>3. row \in Row /\ row.decision \in Undecided
    BY <1>1, <2>2 DEF Handler, Row, Decisions, CapCounting, Undecided, StorageTypeOK
  <2>4. SpentOn(row.agent, Day(row.at)) + row.amount <= row.cap
    <3>1. ~(SpentOn(me.agent, Day(clock)) + me.amount > me.cap)
      BY <2>1 DEF Rejected, OverCap
    <3>2. SpentOn(me.agent, Day(clock)) \in Nat
      <4>1. Holding(me.agent, Day(clock)) \subseteq DOMAIN requests
        BY DEF Holding
      <4> QED BY <2>2, <4>1, RowsFinite, FS_CardinalityType DEF SpentOn
    <3>3. me.amount \in Nat /\ me.cap \in Nat
      BY <1>1 DEF Handler
    <3> QED BY <3>1, <3>2, <3>3
  <2>5. /\ handlers'[h] = rec
        /\ \A k \in Handlers \ {h} : handlers'[k] = handlers[k]
    BY <2>1 DEF Become, PayInv, LocalInv, TypeOK
  <2> HIDE DEF row
  <2>6. WithinCap'
    <3>1. CapAfter(contested')
      BY <1>1, <2>1, <2>2, <2>3, <2>4, InsertKeepsCap DEF PayInv, WithinCap
    <3> QED BY <3>1, CapStep
  <2>7. /\ lastId' = n
        /\ DOMAIN requests' = DOMAIN requests \cup {n}
        /\ requests'[n] = row
        /\ \A r \in DOMAIN requests : requests'[r] = requests[r]
    BY <2>1, <2>2, <2>3, InsertRows
  <2>8. handlers'[h].row = n /\ handlers'[h].pc \notin {"await", "settled"}
    BY <1>1, <2>5, <2>7 DEF Handler
  <2> HIDE DEF rec
  <2>9. \A k \in Handlers \ {h} : handlers'[k].row = handlers[k].row /\ handlers[k].row < n
    BY <2>5, <2>2, RowFacts
  <2>10. RowsOwned'
    <3> SUFFICES ASSUME NEW i \in Handlers, NEW k \in Handlers, i # k,
                        handlers'[i].row = handlers'[k].row
                 PROVE  handlers'[i].row \in contested \cup {0}
      BY <1>1 DEF RowsOwned
    <3>1. i # h /\ k # h
      <4>1. \A j \in Handlers \ {h} : handlers'[j].row # n
        BY <2>2, <2>9, RowFacts
      <4> QED BY <2>8, <4>1
    <3> QED BY <2>9, <3>1 DEF PayInv, RowsOwned
  <2>11. OwnedUndecided'
    BY <1>1, <2>3, <2>7, <2>8, <2>9, RowFacts DEF OwnedUndecided
  <2>12. ASSUME NEW c \in DOMAIN calls PROVE PaymentTracked(c)'
    <3>1. calls[c].row \in 1 .. lastId /\ calls[c].row # n
      BY <2>2 DEF PayInv, LocalInv, CallOK
    <3>2. ASSUME NEW k \in Handlers, Awaits(k, c) PROVE Awaits(k, c)'
      <4>1. k # h
        BY <1>1, <3>2 DEF Awaits
      <4> QED BY <2>5, <3>2, <4>1 DEF Awaits
    <3>3. CASE /\ \A k \in Handlers : handlers[k].row # calls[c].row
               /\ calls[c].row \in DOMAIN requests =>
                     requests[calls[c].row].decision = "approved"
      BY <1>1, <2>7, <2>8, <2>9, <3>1, <3>3 DEF PaymentTracked
    <3> QED BY <1>1, <3>2, <3>3 DEF PayInv, PaymentTracked
  <2>13. OnePayment'
    BY <1>1 DEF PayInv, OnePayment
  <2> QED BY <1>1, <2>6, <2>10, <2>11, <2>12, <2>13 DEF PayInv, DownIdle
<1> QED BY <1>2, <1>3

\* The call for a row goes out when every earlier one was lost or refused: the
\* only handler that could be waiting for another is the one that sends this.
LEMMA SendPays ==
    ASSUME PayInv, LocalInv', NEW h \in Handlers, Send(h)
    PROVE  PayInv'
<1> DEFINE n == Len(calls) + 1
           call == [row |-> handlers[h].row, state |-> "open", lost |-> FALSE]
<1>1. /\ up /\ UNCHANGED <<requests, lastId, clock, up, contested>>
      /\ handlers'[h] = [handlers[h] EXCEPT !.pc = "await", !.call = n]
      /\ \A k \in Handlers \ {h} : handlers'[k] = handlers[k]
      /\ handlers[h].pc = "setup"
      /\ calls' = Append(calls, call) /\ calls \in Seq(Call)
  BY DEF Send, At, Become, storageVars, history, PayInv, LocalInv, TypeOK
<1>2. call.row = handlers[h].row
  OBVIOUS
<1> HIDE DEF call
<1>3. /\ Len(calls) \in Nat /\ DOMAIN calls = 1 .. Len(calls)
      /\ DOMAIN calls' = DOMAIN calls \cup {n}
      /\ \A c \in DOMAIN calls : calls'[c] = calls[c]
      /\ calls'[n].row = handlers[h].row
  BY <1>1, <1>2
<1>4. /\ \A k \in Handlers : handlers'[k].row = handlers[k].row
      /\ handlers'[h].pc = "await" /\ handlers'[h].call = n
  <2>1. handlers[h] \in Handler
    BY RowFacts
  <2> HIDE DEF n
  <2>2. /\ handlers'[h].row = handlers[h].row
        /\ handlers'[h].pc = "await" /\ handlers'[h].call = n
    BY <1>1, <2>1 DEF Handler
  <2> QED BY <1>1, <2>2
<1>5. ASSUME NEW c \in DOMAIN calls, calls[c].row = handlers[h].row,
             calls[c].row \notin contested
      PROVE  calls[c].lost \/ calls[c].state = "refused"
  <2>1. ASSUME NEW k \in Handlers, Awaits(k, c) PROVE FALSE
    <3>1. handlers[k].row = handlers[h].row
      BY <1>5, <2>1 DEF Awaits, PayInv, LocalInv, HandlerOK, CallKnown
    <3>2. k = h
      BY <1>1, <1>5, <3>1, RowFacts DEF PayPcs
    <3> QED BY <1>1, <2>1, <3>2 DEF Awaits
  <2> QED BY <1>5, <2>1 DEF PayInv, PaymentTracked
<1>6. RowsOwned' /\ OwnedUndecided'
  BY <1>1, <1>4 DEF PayInv, RowsOwned, OwnedUndecided
<1>7. ASSUME NEW c \in DOMAIN calls' PROVE PaymentTracked(c)'
  <2>1. CASE c = n
    BY <1>4, <2>1 DEF Awaits, PaymentTracked
  <2>2. CASE c \in DOMAIN calls
    <3>1. ASSUME NEW k \in Handlers, Awaits(k, c) PROVE Awaits(k, c)'
      <4>1. k # h
        BY <1>1, <3>1 DEF Awaits
      <4> QED BY <1>1, <3>1, <4>1 DEF Awaits
    <3> QED BY <1>1, <1>3, <1>4, <2>2, <3>1 DEF PayInv, PaymentTracked
  <2> QED BY <1>3, <2>1, <2>2
<1>8. OnePayment'
  <2> SUFFICES ASSUME NEW c \in DOMAIN calls', NEW d \in DOMAIN calls', c < d,
                      calls'[c].row = calls'[d].row, calls'[c].row \notin contested
               PROVE  calls'[c].lost \/ calls'[c].state = "refused"
    BY <1>1 DEF OnePayment
  <2>1. c \in DOMAIN calls
    BY <1>3
  <2>2. CASE d = n
    BY <1>3, <1>5, <2>1, <2>2
  <2>3. CASE d \in DOMAIN calls
    BY <1>3, <2>1, <2>3 DEF PayInv, OnePayment
  <2> QED BY <1>3, <2>2, <2>3
<1>9. WithinCap'
  BY <1>1, SameCap
<1> QED BY <1>1, <1>6, <1>7, <1>8, <1>9 DEF PayInv, DownIdle

\* A hold is taken by a handler that holds no row; if another is at work on it,
\* it is contested from now on.
LEMMA ReviewPays ==
    ASSUME PayInv, LocalInv',
           NEW h \in Handlers, NEW r \in DOMAIN requests,
           NEW kind, NEW pc, Review(h, r, kind, pc), pc \in {"lookup", "reject"}
    PROVE  PayInv'
<1>1. /\ up /\ UNCHANGED <<requests, lastId, clock, calls, up>>
      /\ handlers[h].pc = "idle"
      /\ requests[r].decision = "awaiting_approval"
      /\ contested' = IF AtWork(r) THEN contested \cup {r} ELSE contested
  BY DEF Review, At, storageVars
<1>2. /\ handlers'[h].row = r /\ handlers'[h].pc = pc
      /\ \A k \in Handlers \ {h} : handlers'[k] = handlers[k]
  BY DEF Review, Become, Idle, PayInv, LocalInv, TypeOK
<1>3. RowsOwned'
  <2> SUFFICES ASSUME NEW i \in Handlers, NEW k \in Handlers, i # k,
                      handlers'[i].row = handlers'[k].row
               PROVE  handlers'[i].row \in contested' \cup {0}
    BY DEF RowsOwned
  <2>1. CASE i # h /\ k # h
    BY <1>1, <1>2, <2>1 DEF PayInv, RowsOwned
  <2>2. CASE i = h \/ k = h
    <3>1. AtWork(r) /\ handlers'[i].row = r
      BY <1>2, <2>2 DEF AtWork
    <3> QED BY <1>1, <3>1
  <2> QED BY <2>1, <2>2
<1>4. OwnedUndecided'
  BY <1>1, <1>2 DEF PayInv, OwnedUndecided, Undecided
<1>5. ASSUME NEW c \in DOMAIN calls PROVE PaymentTracked(c)'
  <2>1. ASSUME NEW k \in Handlers, Awaits(k, c) PROVE Awaits(k, c)'
    <3>1. k # h
      BY <1>1, <2>1 DEF Awaits
    <3> QED BY <1>2, <2>1, <3>1 DEF Awaits
  <2>2. CASE /\ \A k \in Handlers : handlers[k].row # calls[c].row
             /\ calls[c].row \in DOMAIN requests => requests[calls[c].row].decision = "approved"
    BY <1>1, <1>2, <2>2 DEF PaymentTracked
  <2> QED BY <1>1, <2>1, <2>2 DEF PayInv, PaymentTracked
<1>6. OnePayment'
  BY <1>1 DEF PayInv, OnePayment
<1>7. WithinCap'
  BY <1>1, SameCap
<1> QED BY <1>1, <1>3, <1>4, <1>5, <1>6, <1>7 DEF PayInv, DownIdle

LEMMA AnswerPays ==
    ASSUME PayInv, LocalInv', NEW a \in DOMAIN calls, Answer(a)
    PROVE  PayInv'
<1>1. UNCHANGED <<requests, lastId, clock, handlers, up, contested>> /\ calls[a].state = "open"
  BY DEF Answer, storageVars, history
<1>2. /\ DOMAIN calls' = DOMAIN calls
      /\ \A c \in DOMAIN calls :
            /\ calls'[c].row = calls[c].row
            /\ calls[c].lost => calls'[c].lost
            /\ calls[c].state = "refused" => calls'[c].state = "refused"
  <2>1. PICK s \in {"settled", "refused"} : calls' = [calls EXCEPT ![a].state = s]
    BY DEF Answer
  <2>2. \A c \in DOMAIN calls : calls[c] \in Call
    BY DEF PayInv, LocalInv, TypeOK
  <2> QED BY <1>1, <2>1, <2>2 DEF Call
<1>3. \A h \in Handlers, c \in DOMAIN calls : Awaits(h, c) => PaymentTracked(c)'
  BY <1>1 DEF Awaits, PaymentTracked
<1>4. RowsOwned' /\ (\A c \in DOMAIN calls' : PaymentTracked(c)') /\ OnePayment'
  BY <1>1, <1>2, <1>3, StillTracked
<1>5. OwnedUndecided' /\ DownIdle'
  BY <1>1 DEF PayInv, OwnedUndecided, DownIdle
<1>6. WithinCap'
  BY <1>1, SameCap
<1> QED BY <1>4, <1>5, <1>6 DEF PayInv

\* A step in which no handler moves and no call changes.
LEMMA StillPays ==
    ASSUME PayInv, LocalInv', UNCHANGED <<calls, contested>>, up => up',
           \A h \in Handlers :
              /\ handlers'[h].row = handlers[h].row
              /\ handlers'[h].pc = handlers[h].pc
              /\ handlers'[h].call = handlers[h].call,
           WithinCap', OwnedUndecided',
           \A r \in DOMAIN requests' :
              /\ r \in DOMAIN requests
              /\ requests[r].decision = "approved" => requests'[r].decision = "approved"
    PROVE  PayInv'
<1>1. \A h \in Handlers, c \in DOMAIN calls : Awaits(h, c) => PaymentTracked(c)'
  BY DEF Awaits, PaymentTracked
<1>2. RowsOwned' /\ (\A c \in DOMAIN calls' : PaymentTracked(c)') /\ OnePayment'
  BY <1>1, StillTracked
<1>3. DownIdle'
  BY DEF PayInv, DownIdle
<1> QED BY <1>2, <1>3 DEF PayInv

LEMMA EditPolicyPays ==
    ASSUME PayInv, LocalInv', EditPolicy
    PROVE  PayInv'
<1>1. PICK p, detached : ChangePolicy(p, detached)
  BY DEF EditPolicy, RemoveAgent, Patch, AddAgent, HotReload
<1>2. UNCHANGED <<requests, lastId, clock, calls, up, contested>>
  BY <1>1 DEF ChangePolicy, storageVars, history
<1>3. ASSUME NEW h \in Handlers
      PROVE  /\ handlers'[h].row = handlers[h].row
             /\ handlers'[h].pc = handlers[h].pc
             /\ handlers'[h].call = handlers[h].call
  <2> DEFINE v == IF handlers[h].view = Live /\ handlers[h].agent \in detached
                  THEN policy[handlers[h].agent] ELSE handlers[h].view
             b == {x \in handlers[h].barred : x \in Bars(p[handlers[h].agent])}
  <2>1. handlers'[h] = [handlers[h] EXCEPT !.view = v, !.barred = b]
    BY <1>1 DEF ChangePolicy
  <2>2. handlers[h] \in Handler
    BY RowFacts
  <2> HIDE DEF v, b
  <2> QED BY <2>1, <2>2 DEF Handler
<1>4. OwnedUndecided'
  BY <1>2, <1>3 DEF PayInv, OwnedUndecided
<1>5. WithinCap'
  BY <1>2, SameCap
<1> QED BY <1>2, <1>3, <1>4, <1>5, StillPays

LEMMA ResetLogPays ==
    ASSUME PayInv, LocalInv', ResetLog
    PROVE  PayInv'
<1>1. DOMAIN requests' = {} /\ UNCHANGED <<calls, handlers, up, contested>>
  BY DEF ResetLog, Reset, history
<1>2. OwnedUndecided' /\ WithinCap'
  BY <1>1 DEF OwnedUndecided, WithinCap, WithinCapBut
<1> QED BY <1>1, <1>2, StillPays

LEMMA TickPays ==
    ASSUME PayInv, LocalInv', Tick \/ UNCHANGED vars
    PROVE  PayInv'
<1>1. UNCHANGED <<requests, lastId, calls, handlers, up, contested>>
  BY DEF Tick, vars, storageVars, engineVars, history
<1>2. OwnedUndecided'
  BY <1>1 DEF PayInv, OwnedUndecided
<1>3. WithinCap'
  BY <1>1, SameCap
<1> QED BY <1>1, <1>2, <1>3, StillPays

LEMMA CrashPays ==
    ASSUME PayInv, LocalInv', Crash
    PROVE  PayInv'
<1>1. /\ UNCHANGED <<requests, lastId, clock, contested>>
      /\ \A h \in Handlers : handlers'[h] = Idle
  BY DEF Crash, storageVars, history
<1>2. /\ DOMAIN calls' = DOMAIN calls
      /\ \A c \in DOMAIN calls :
            /\ calls'[c].row = calls[c].row
            /\ calls[c].lost => calls'[c].lost
            /\ calls[c].state = "refused" => calls'[c].state = "refused"
            /\ c \in Awaited => calls'[c].lost
  <2>1. /\ DOMAIN calls' = DOMAIN calls
        /\ \A c \in DOMAIN calls : calls'[c] =
              IF c \in Awaited THEN [calls[c] EXCEPT !.lost = TRUE] ELSE calls[c]
    BY DEF Crash
  <2>2. \A c \in DOMAIN calls : calls[c] \in Call
    BY DEF PayInv, LocalInv, TypeOK
  <2> QED BY <2>1, <2>2 DEF Call
<1>3. \A h \in Handlers, c \in DOMAIN calls : Awaits(h, c) => PaymentTracked(c)'
  <2>1. \A h \in Handlers, c \in DOMAIN calls : Awaits(h, c) => c \in Awaited
    BY DEF Awaits, Awaited
  <2> QED BY <1>2, <2>1 DEF PaymentTracked
<1>4. \A h \in Handlers : handlers'[h].row = 0 /\ handlers'[h].pc = "idle"
  BY <1>1 DEF Idle
<1>5. RowsOwned' /\ (\A c \in DOMAIN calls' : PaymentTracked(c)') /\ OnePayment'
  BY <1>1, <1>2, <1>3, <1>4, StillTracked
<1>6. OwnedUndecided' /\ DownIdle'
  BY <1>1, <1>4, RowFacts DEF OwnedUndecided, DownIdle
<1>7. WithinCap'
  BY <1>1, SameCap
<1> QED BY <1>5, <1>6, <1>7 DEF PayInv

\* Reaping meets no handler at work: the engine was down.
LEMMA RestartPays ==
    ASSUME PayInv, LocalInv', Restart
    PROVE  PayInv'
<1>1. ~up /\ UNCHANGED <<calls, handlers, contested>> /\ up'
  BY DEF Restart, history
<1>2. /\ DOMAIN requests' = DOMAIN requests
      /\ \A x \in DOMAIN requests :
            /\ requests'[x] = requests[x] \/ requests[x].decision = "pending"
            /\ requests'[x].agent = requests[x].agent
            /\ requests'[x].amount = requests[x].amount
            /\ requests'[x].at = requests[x].at
            /\ requests'[x].cap = requests[x].cap
  BY ReapRows DEF Restart, Stale, PayInv, LocalInv, TypeOK
<1>3. \A h \in Handlers : handlers'[h].row \notin DOMAIN requests'
  BY <1>1, <1>2, RowFacts DEF PayInv, DownIdle
<1>4. OwnedUndecided'
  BY <1>3 DEF OwnedUndecided
<1>5. \A x \in DOMAIN requests' : Counts(x)' => Counts(x)
  BY <1>2 DEF Counts, CapCounting
<1>6. WithinCap'
  <2>1. StorageTypeOK /\ WithinCapBut(contested)
    BY DEF PayInv, LocalInv, TypeOK, WithinCap
  <2>2. CapAfter(contested')
    BY <1>1, <1>2, <1>5, <2>1, ReleaseKeepsCap
  <2> QED BY <2>2, CapStep
<1>7. \A r \in DOMAIN requests' :
         /\ r \in DOMAIN requests
         /\ requests[r].decision = "approved" => requests'[r].decision = "approved"
  BY <1>2
<1> QED BY <1>1, <1>4, <1>6, <1>7, StillPays

LEMMA PayInit ==
    ASSUME Init
    PROVE  PayInv
<1>1. LocalInv
  BY LocalInit
<1>2. DOMAIN requests = {} /\ DOMAIN calls = {} /\ \A h \in Handlers : handlers[h] = Idle
  BY DEF Init, StorageInit
<1>3. WithinCap /\ OnePayment
  BY <1>2 DEF WithinCap, WithinCapBut, OnePayment
<1>4. DownIdle /\ RowsOwned /\ OwnedUndecided
  BY <1>2 DEF DownIdle, RowsOwned, OwnedUndecided, Idle
<1> QED BY <1>1, <1>2, <1>3, <1>4 DEF PayInv

\* Park, FinalizeApproved and FinalizeDenied, as calls of finalize by the
\* handler that owns the row.
LEMMA FinalizeSteps ==
    ASSUME NEW h \in Handlers, Park(h) \/ FinalizeApproved(h) \/ FinalizeDenied(h)
    PROVE  \E d \in Decisions :
              /\ up /\ Finalize(handlers[h].row, d) /\ Become(h, Idle)
              /\ UNCHANGED <<calls, up, contested>>
              /\ handlers[h].pc \notin {"await", "settled"} \/ d = "approved"
<1>1. {"approved", "denied", "awaiting_approval"} \subseteq Decisions
  BY DEF Decisions, CapCounting
<1>2. CASE Park(h)
  BY <1>1, <1>2 DEF Park, At, history
<1>3. CASE FinalizeApproved(h)
  BY <1>1, <1>3 DEF FinalizeApproved, At, history
<1>4. CASE FinalizeDenied(h)
  BY <1>1, <1>4 DEF FinalizeDenied, At, history
<1> QED BY <1>2, <1>3, <1>4

LEMMA NextKeepsPay ==
    ASSUME PayInv, [Next]_vars
    PROVE  PayInv'
<1>1. LocalInv'
  BY NextKeepsLocal, StutterKeepsLocal DEF PayInv
<1>2. ASSUME NEW h \in Handlers, Begin(h) PROVE PayInv'
  <2>1. CASE \E a \in Agents, n \in Amounts : Spend(h, a, n)
    BY <1>1, <2>1, QuietSteps, QuietKeeps
  <2>2. CASE \E r \in DOMAIN requests : Approve(h, r) \/ RejectHold(h, r)
    BY <1>1, <2>2, ReviewPays DEF Approve, RejectHold
  <2> QED BY <1>2, <2>1, <2>2 DEF Begin
<1>3. ASSUME NEW h \in Handlers, Step(h) PROVE PayInv'
  <2>1. CASE Park(h) \/ FinalizeApproved(h) \/ FinalizeDenied(h)
    BY <1>1, <2>1, FinalizeSteps, FinalizePays
  <2>2. CASE \/ Reserve(h) \/ Log(h) \/ Send(h) \/ Receive(h) \/ GiveUp(h)
             \/ DatabaseBusy(h)
    BY <1>1, <2>2, ReservePays, LogPays, SendPays, ReceivePays, GiveUpPays, DatabaseBusyPays
  <2>3. CASE \/ CheckFrozen(h) \/ CheckAllowed(h) \/ BadParams(h) \/ CheckCeiling(h)
             \/ CheckThreshold(h) \/ ReadCaps(h) \/ Deny(h) \/ SetupFails(h)
             \/ CheckAgent(h) \/ Grant(h) \/ RecordRefusal(h) \/ EventLost(h)
             \/ PaymentRaises(h)
    BY <1>1, <2>3, QuietSteps, QuietKeeps
  <2> QED BY <1>3, <2>1, <2>2, <2>3 DEF Step
<1>4. ASSUME NEW c \in DOMAIN calls, Answer(c) PROVE PayInv'
  BY <1>1, <1>4, AnswerPays
<1>5. CASE EditPolicy \/ ResetLog \/ Crash \/ Restart
  BY <1>1, <1>5, EditPolicyPays, ResetLogPays, CrashPays, RestartPays
<1>6. CASE Tick \/ Rest \/ UNCHANGED vars
  BY <1>1, <1>6, TickPays DEF Rest
<1> QED BY <1>2, <1>3, <1>4, <1>5, <1>6 DEF Next

\* Whatever the interleaving, PayInv holds.
THEOREM PayInvariant == Spec => []PayInv
<1>1. Init => PayInv
  BY PayInit
<1>2. PayInv /\ [Next]_vars => PayInv'
  BY NextKeepsPay
<1> QED BY <1>1, <1>2, PTL DEF Spec

\* The daily cap (try_reserve): every row that holds budget fitted in its cap
\* with all that its agent had been admitted for that day, and still does.  The
\* rows that two handlers were at work on at once are the only ones to leave out,
\* however many reviews, releases, exceptions, crashes and restarts there are.
THEOREM CapHolds == Spec => []WithinCap
<1>1. PayInv => WithinCap
  BY DEF PayInv
<1> QED BY <1>1, PayInvariant, PTL

\* While a payment is under way, its row holds budget (_execute_payment): it takes
\* a reset or a second handler at work on the row to free it.
THEOREM BudgetHeldWhilePaying == Spec => []PayingHoldsBudget
<1>1. PayInv => PayingHoldsBudget
  BY DEF PayInv, OwnedUndecided, Undecided, PayingHoldsBudget, Counts, CapCounting
<1> QED BY <1>1, PayInvariant, PTL

\* A settled payment leaves a denied row only if its answer was lost or never
\* recorded, or if two handlers were at work on the row
\* (_execute_payment: "Nothing past this line ...").
THEOREM SettledStaysCounted == Spec => []SettledNotDenied
<1>1. PayInv => SettledNotDenied
  <2> SUFFICES ASSUME PayInv, NEW c \in DOMAIN calls,
                      calls[c].state = "settled", ~calls[c].lost,
                      calls[c].row \in DOMAIN requests \ contested
               PROVE  requests[calls[c].row].decision # "denied"
    BY DEF SettledNotDenied
  <2>1. CASE \E h \in Handlers : Awaits(h, c)
    <3>1. PICK h \in Handlers : Awaits(h, c)
      BY <2>1
    <3>2. handlers[h].row = calls[c].row
      BY <3>1 DEF Awaits, PayInv, LocalInv, HandlerOK, CallKnown
    <3> QED BY <3>2 DEF PayInv, OwnedUndecided, Undecided
  <2>2. CASE ~ \E h \in Handlers : Awaits(h, c)
    BY <2>2 DEF PayInv, PaymentTracked
  <2> QED BY <2>1, <2>2
<1> QED BY <1>1, PayInvariant, PTL

\* A second call for one row goes out only after a refusal or a lost answer, or if
\* two handlers were at work on the row (_execute_payment, approve_hold).
THEOREM PaidAtMostOnce == Spec => []OnePayment
<1>1. PayInv => OnePayment
  BY DEF PayInv
<1> QED BY <1>1, PayInvariant, PTL

LEMMA StepLeavesDecisions ==
    ASSUME PayInv, [Next]_vars
    PROVE  DecisionsStand
<1>1. StorageTypeOK
  BY DEF PayInv, LocalInv, TypeOK
<1>2. ASSUME NEW h \in Handlers, Begin(h) PROVE DecisionsStand
  BY <1>2 DEF Begin, Spend, Approve, RejectHold, Review, storageVars, DecisionsStand
<1>3. ASSUME NEW h \in Handlers, Step(h) PROVE DecisionsStand
  <2>1. CASE Park(h) \/ FinalizeApproved(h) \/ FinalizeDenied(h)
    <3>1. PICK d \in Decisions : Finalize(handlers[h].row, d)
      BY <2>1, FinalizeSteps
    <3>2. \A x \in DOMAIN requests : x # handlers[h].row => requests'[x] = requests[x]
      BY <3>1 DEF Finalize
    <3>3. handlers[h].row \in DOMAIN requests \ contested =>
             requests[handlers[h].row].decision \in Undecided
      BY RowFacts
    <3> QED BY <3>2, <3>3 DEF DecisionsStand, Undecided
  <2>2. CASE Reserve(h) \/ Log(h)
    <3>1. UNCHANGED requests \/ \E row : Insert(row)
      BY <2>2 DEF Reserve, TryReserve, Log, LogRequest, storageVars
    <3>2. ASSUME NEW row, Insert(row), NEW r \in DOMAIN requests
          PROVE  requests'[r] = requests[r]
      BY <1>1, <3>2 DEF Insert, Extend, StorageTypeOK
    <3> QED BY <3>1, <3>2 DEF DecisionsStand
  <2>3. CASE ~(Park(h) \/ FinalizeApproved(h) \/ FinalizeDenied(h) \/ Reserve(h) \/ Log(h))
    <3>1. UNCHANGED requests
      BY <1>3, <2>3 DEF Step, CheckFrozen, CheckAllowed, BadParams, CheckCeiling, Check,
         CheckThreshold, ReadCaps, Deny, SetupFails, Send, Receive, GiveUp, CheckAgent,
         Grant, RecordRefusal, EventLost, PaymentRaises, DatabaseBusy, storageVars
    <3> QED BY <3>1 DEF DecisionsStand
  <2> QED BY <2>1, <2>2, <2>3
<1>4. ASSUME NEW c \in DOMAIN calls, Answer(c) PROVE DecisionsStand
  BY <1>4 DEF Answer, storageVars, DecisionsStand
<1>5. CASE EditPolicy
  BY <1>5 DEF EditPolicy, RemoveAgent, Patch, AddAgent, HotReload, ChangePolicy,
     storageVars, DecisionsStand
<1>6. CASE ResetLog
  BY <1>6 DEF ResetLog, Reset, DecisionsStand
<1>7. CASE Restart
  BY <1>1, <1>7, ReapRows DEF Restart, Stale, DecisionsStand
<1>8. CASE Crash \/ Tick \/ Rest \/ UNCHANGED vars
  BY <1>8 DEF Crash, Tick, Rest, vars, storageVars, DecisionsStand
<1> QED BY <1>2, <1>3, <1>4, <1>5, <1>6, <1>7, <1>8 DEF Next

\* No step reverses a decision (finalize, reap_stale_reservations), but one of two
\* handlers that were at work on the row at once.
THEOREM DecisionsAreFinal == Spec => DecisionIsFinal
<1>1. PayInv /\ [Next]_vars => [DecisionsStand]_vars
  BY StepLeavesDecisions
<1> QED BY <1>1, PayInvariant, PTL DEF Spec, DecisionIsFinal

----------------------------------------------------------------------------
(***************************************************************************)
(* The rate limit.                                                         *)
(***************************************************************************)
LEMMA SameRate ==
    ASSUME RateKept, UNCHANGED requests
    PROVE  RateKept'
BY DEF RateKept, Earlier, Admitted

LEMMA ReserveRate ==
    ASSUME LocalInv, RateKept, NEW h \in Handlers, Reserve(h)
    PROVE  RateKept'
<1>1. /\ handlers[h] \in Handler /\ handlers[h].agent \in Agents /\ StorageTypeOK
  BY DEF LocalInv, TypeOK, HandlerOK, LocalOK, Reserve, At
<1>2. CASE UNCHANGED storageVars
  BY <1>2, SameRate DEF storageVars
<1>3. CASE ~UNCHANGED storageVars
  <2> DEFINE me == handlers[h]
             state == IF me.hold THEN "awaiting_approval" ELSE "pending"
             row == [agent |-> me.agent, amount |-> me.amount, at |-> clock,
                     born |-> state, decision |-> state, cap |-> me.cap,
                     limit |-> me.limit]
  <2>1. Insert(row) /\ ~OverVelocity(me.agent, me.limit)
    BY <1>3 DEF Reserve, TryReserve, Rejected
  <2>2. row \in Row
    BY <1>1 DEF Handler, Row, Decisions, CapCounting, StorageTypeOK
  <2>3. row.agent = me.agent /\ row.at = clock /\ row.limit = me.limit
    OBVIOUS
  <2> HIDE DEF row
  <2>4. ASSUME row.limit # NoLimit PROVE Cardinality(Recent(row.agent, row.at)) < row.limit
    <3>1. ~(Cardinality(Recent(row.agent, row.at)) >= row.limit)
      BY <2>1, <2>3, <2>4 DEF OverVelocity
    <3>2. Recent(row.agent, row.at) \subseteq DOMAIN requests
      BY DEF Recent
    <3>3. Cardinality(Recent(row.agent, row.at)) \in Nat
      BY <1>1, <3>2, RowsFinite, FS_CardinalityType
    <3>4. row.limit \in Nat
      BY <2>2, <2>4 DEF Row, Limits
    <3> QED BY <3>1, <3>3, <3>4
  <2> QED BY <1>1, <2>1, <2>2, <2>4, InsertKeepsRate
<1> QED BY <1>2, <1>3

LEMMA LogRate ==
    ASSUME LocalInv, RateKept, NEW h \in Handlers, Log(h)
    PROVE  RateKept'
<1> DEFINE me == handlers[h]
           row == [agent |-> me.agent, amount |-> me.amount, at |-> me.at, born |-> "denied",
                   decision |-> "denied", cap |-> 0, limit |-> NoLimit]
<1>1. me \in Handler /\ me.agent \in Agents /\ StorageTypeOK
  BY DEF LocalInv, TypeOK, HandlerOK, LocalOK, Log, At
<1>2. row \in Row /\ row.born = "denied"
  BY <1>1 DEF Row, Handler, Decisions, Limits
<1>3. Insert(row)
  BY DEF Log, LogRequest
<1> HIDE DEF row
<1> QED BY <1>1, <1>2, <1>3, InsertKeepsRate

LEMMA NextKeepsRate ==
    ASSUME LocalInv, RateKept, [Next]_vars
    PROVE  RateKept'
<1>0. StorageTypeOK
  BY DEF LocalInv, TypeOK
<1>1. ASSUME NEW h \in Handlers, Begin(h) PROVE UNCHANGED requests
  BY <1>1 DEF Begin, Spend, Approve, RejectHold, Review, storageVars
<1>2. ASSUME NEW h \in Handlers, Step(h) PROVE RateKept'
  <2>1. CASE Park(h) \/ FinalizeApproved(h) \/ FinalizeDenied(h)
    <3>1. PICK d \in Decisions : Finalize(handlers[h].row, d)
      BY <2>1, FinalizeSteps
    <3> QED BY <1>0, <3>1, FinalizeRows, ReleaseKeepsRate
  <2>2. CASE Reserve(h)
    BY <2>2, ReserveRate
  <2>3. CASE Log(h)
    BY <2>3, LogRate
  <2>4. CASE \/ CheckFrozen(h) \/ CheckAllowed(h) \/ BadParams(h) \/ CheckCeiling(h)
             \/ CheckThreshold(h) \/ ReadCaps(h) \/ Deny(h) \/ SetupFails(h) \/ Send(h)
             \/ Receive(h) \/ GiveUp(h) \/ CheckAgent(h) \/ Grant(h) \/ RecordRefusal(h)
             \/ EventLost(h) \/ PaymentRaises(h) \/ DatabaseBusy(h)
    <3>1. UNCHANGED requests
      BY <2>4 DEF CheckFrozen, CheckAllowed, BadParams, CheckCeiling, Check, CheckThreshold,
         ReadCaps, Deny, SetupFails, Send, Receive, GiveUp, CheckAgent, Grant,
         RecordRefusal, EventLost, PaymentRaises, DatabaseBusy, storageVars
    <3> QED BY <3>1, SameRate
  <2> QED BY <1>2, <2>1, <2>2, <2>3, <2>4 DEF Step
<1>3. ASSUME NEW c \in DOMAIN calls, Answer(c) PROVE UNCHANGED requests
  BY <1>3 DEF Answer, storageVars
<1>4. CASE EditPolicy
  <2>1. UNCHANGED requests
    BY <1>4 DEF EditPolicy, RemoveAgent, Patch, AddAgent, HotReload, ChangePolicy, storageVars
  <2> QED BY <2>1, SameRate
<1>5. CASE ResetLog
  <2>1. DOMAIN requests' = {}
    BY <1>5 DEF ResetLog, Reset
  <2> QED BY <2>1 DEF RateKept
<1>6. CASE Restart
  <2>1. ReapStale
    BY <1>6 DEF Restart
  <2> QED BY <1>0, <2>1, ReapRows, ReleaseKeepsRate
<1>7. CASE Crash \/ Tick \/ Rest \/ UNCHANGED vars
  <2>1. UNCHANGED requests
    BY <1>7 DEF Crash, Tick, Rest, vars, storageVars
  <2> QED BY <2>1, SameRate
<1> QED BY <1>1, <1>2, <1>3, <1>4, <1>5, <1>6, <1>7, SameRate DEF Next

\* The rate limit (try_reserve): wherever a window is placed, what an agent was
\* admitted inside it fits the limit its last row was admitted under, whoever
\* reserves at the same moment.
THEOREM RateHolds == Spec => []RateBound
<1>1. Init => RateKept
  BY DEF Init, StorageInit, RateKept
<1>2. LocalInv /\ RateKept /\ [Next]_vars => RateKept'
  BY NextKeepsRate
<1>3. LocalInv /\ RateKept => RateBound
  BY RateKeptBounds DEF LocalInv, TypeOK
<1> QED BY <1>1, <1>2, <1>3, LocalInvariant, PTL DEF Spec

----------------------------------------------------------------------------
(***************************************************************************)
(* SpendEngine implements Budget, for any agents, handlers, policies and   *)
(* bounds, and however holds are reviewed.                                 *)
(*                                                                         *)
(* Every step is one of seven kinds as far as the request log is           *)
(* concerned, and each kind is a step of Budget or leaves its items as     *)
(* they are.  Two invariants are needed: PayInv, for a handler that        *)
(* decides a row, unless it is contested, finds it undecided; and ItemInv, *)
(* for rows that are no items hold nothing, and contested rows are items.  *)
(***************************************************************************)
\* A row that was inserted as denied stays so.
BornDenied ==
    \A r \in DOMAIN requests : requests[r].born = "denied" => requests[r].decision = "denied"

\* Only rows that are in the table, or were, are contested, and no denials.
ContestedItems ==
    /\ contested \subseteq 1 .. lastId
    /\ \A r \in DOMAIN requests \cap contested : requests[r].born # "denied"

ItemInv == BornDenied /\ ContestedItems

BudgetInv == PayInv /\ ItemInv

\* The steps that change the request log, or what is contested in it.
LogsDenial(row) ==
    /\ Insert(row) /\ row.born = "denied" /\ row.decision = "denied"
    /\ UNCHANGED contested

Reserves(row) ==
    /\ Insert(row) /\ row.decision \in Undecided /\ row.born = row.decision
    /\ SpentOn(row.agent, Day(row.at)) + row.amount <= row.cap
    /\ UNCHANGED contested

Decides(r, d) ==
    /\ Finalize(r, d)
    /\ r \in DOMAIN requests \ contested => requests[r].decision \in Undecided
    /\ UNCHANGED contested

Contests(r) ==
    /\ UNCHANGED <<requests, lastId>>
    /\ r \in DOMAIN requests /\ requests[r].decision = "awaiting_approval"
    /\ contested' = contested \cup {r}

NoItem == UNCHANGED <<requests, lastId, contested>>

LEMMA ReserveKinds ==
    ASSUME PayInv, NEW h \in Handlers, Reserve(h)
    PROVE  NoItem \/ \E row \in Row : Reserves(row)
<1>1. /\ handlers[h] \in Handler /\ handlers[h].pc = "reserve" /\ handlers[h].agent \in Agents
      /\ contested' = contested
  BY DEF PayInv, LocalInv, TypeOK, HandlerOK, LocalOK, Reserve, At, history
<1>2. CASE UNCHANGED storageVars
  BY <1>1, <1>2 DEF storageVars, NoItem
<1>3. CASE ~UNCHANGED storageVars
  <2> DEFINE me == handlers[h]
             state == IF me.hold THEN "awaiting_approval" ELSE "pending"
             row == [agent |-> me.agent, amount |-> me.amount, at |-> clock,
                     born |-> state, decision |-> state, cap |-> me.cap,
                     limit |-> me.limit]
  <2>1. Insert(row) /\ ~Rejected(me.agent, me.amount, me.cap, me.limit)
    BY <1>3 DEF Reserve, TryReserve
  <2>2. StorageTypeOK
    BY DEF PayInv, LocalInv, TypeOK
  <2>3. row \in Row /\ row.decision \in Undecided /\ row.born = row.decision
    BY <1>1, <2>2 DEF Handler, Row, Decisions, CapCounting, Undecided, StorageTypeOK
  <2>4. SpentOn(row.agent, Day(row.at)) + row.amount <= row.cap
    <3>1. ~(SpentOn(me.agent, Day(clock)) + me.amount > me.cap)
      BY <2>1 DEF Rejected, OverCap
    <3>2. SpentOn(me.agent, Day(clock)) \in Nat
      <4>1. Holding(me.agent, Day(clock)) \subseteq DOMAIN requests
        BY DEF Holding
      <4> QED BY <2>2, <4>1, RowsFinite, FS_CardinalityType DEF SpentOn
    <3> QED BY <1>1, <3>1, <3>2 DEF Handler
  <2> HIDE DEF row
  <2> QED BY <1>1, <2>1, <2>3, <2>4 DEF Reserves
<1> QED BY <1>2, <1>3

LEMMA LogKinds ==
    ASSUME PayInv, NEW h \in Handlers, Log(h)
    PROVE  \E row \in Row : LogsDenial(row)
<1> DEFINE me == handlers[h]
           row == [agent |-> me.agent, amount |-> me.amount, at |-> me.at, born |-> "denied",
                   decision |-> "denied", cap |-> 0, limit |-> NoLimit]
<1>1. me \in Handler /\ me.agent \in Agents
  BY DEF PayInv, LocalInv, TypeOK, HandlerOK, LocalOK, Log, At
<1>2. row \in Row
  BY <1>1 DEF Row, Handler, Decisions, Limits
<1>3. Insert(row) /\ contested' = contested
  BY DEF Log, LogRequest, history
<1> QED BY <1>2, <1>3 DEF LogsDenial

\* What a step can do to the request log.
LEMMA StepKinds ==
    ASSUME PayInv, [Next]_vars
    PROVE  \/ NoItem
           \/ \E row \in Row : LogsDenial(row) \/ Reserves(row)
           \/ \E r, d : d \in Decisions /\ Decides(r, d)
           \/ \E r : Contests(r)
           \/ ReapStale /\ UNCHANGED contested
           \/ Reset /\ UNCHANGED contested
<1>1. ASSUME NEW h \in Handlers, Begin(h) PROVE NoItem \/ \E r : Contests(r)
  <2>1. CASE \E a \in Agents, n \in Amounts : Spend(h, a, n)
    BY <2>1 DEF Spend, storageVars, history, NoItem
  <2>2. ASSUME NEW r \in DOMAIN requests, NEW kind, NEW pc, Review(h, r, kind, pc)
        PROVE  NoItem \/ Contests(r)
    BY <2>2 DEF Review, storageVars, NoItem, Contests
  <2> QED BY <1>1, <2>1, <2>2 DEF Begin, Approve, RejectHold
<1>2. ASSUME NEW h \in Handlers, Step(h)
      PROVE  \/ NoItem
             \/ \E row \in Row : LogsDenial(row) \/ Reserves(row)
             \/ \E r, d : d \in Decisions /\ Decides(r, d)
  <2>1. CASE Park(h) \/ FinalizeApproved(h) \/ FinalizeDenied(h)
    BY <2>1, FinalizeSteps, RowFacts DEF Decides
  <2>2. CASE Reserve(h)
    BY <2>2, ReserveKinds
  <2>3. CASE Log(h)
    BY <2>3, LogKinds
  <2>4. CASE \/ CheckFrozen(h) \/ CheckAllowed(h) \/ BadParams(h) \/ CheckCeiling(h)
             \/ CheckThreshold(h) \/ ReadCaps(h) \/ Deny(h) \/ SetupFails(h) \/ Send(h)
             \/ Receive(h) \/ GiveUp(h) \/ CheckAgent(h) \/ Grant(h) \/ RecordRefusal(h)
             \/ EventLost(h) \/ PaymentRaises(h) \/ DatabaseBusy(h)
    BY <2>4 DEF CheckFrozen, CheckAllowed, BadParams, CheckCeiling, Check, CheckThreshold,
       ReadCaps, Deny, SetupFails, Send, Receive, GiveUp, CheckAgent, Grant,
       RecordRefusal, EventLost, PaymentRaises, DatabaseBusy, storageVars, history, NoItem
  <2> QED BY <1>2, <2>1, <2>2, <2>3, <2>4 DEF Step
<1>3. ASSUME NEW c \in DOMAIN calls, Answer(c) PROVE NoItem
  BY <1>3 DEF Answer, storageVars, history, NoItem
<1>4. CASE EditPolicy
  BY <1>4 DEF EditPolicy, RemoveAgent, Patch, AddAgent, HotReload, ChangePolicy,
     storageVars, history, NoItem
<1>5. CASE ResetLog \/ Restart
  BY <1>5 DEF ResetLog, Restart, history
<1>6. CASE Crash \/ Tick \/ Rest \/ UNCHANGED vars
  BY <1>6 DEF Crash, Tick, Rest, vars, storageVars, engineVars, history, NoItem
<1> QED BY <1>1, <1>2, <1>3, <1>4, <1>5, <1>6 DEF Next

----------------------------------------------------------------------------
LEMMA ItemsKept ==
    ASSUME PayInv, ItemInv, [Next]_vars
    PROVE  ItemInv'
<1>1. StorageTypeOK /\ BornDenied /\ ContestedItems /\ lastId \in Nat
  BY DEF PayInv, LocalInv, TypeOK, StorageTypeOK, ItemInv
<1>2. CASE NoItem
  BY <1>1, <1>2 DEF NoItem, ItemInv, BornDenied, ContestedItems
<1>3. CASE \E row \in Row : LogsDenial(row) \/ Reserves(row)
  <2>1. PICK row \in Row : LogsDenial(row) \/ Reserves(row)
    BY <1>3
  <2>2. /\ Insert(row) /\ (row.born = "denied" => row.decision = "denied")
        /\ contested' = contested
    BY <2>1 DEF LogsDenial, Reserves
  <2>3. /\ lastId' = lastId + 1
        /\ DOMAIN requests' = DOMAIN requests \cup {lastId + 1}
        /\ requests'[lastId + 1] = row
        /\ \A r \in DOMAIN requests : requests'[r] = requests[r]
    BY <1>1, <2>2, InsertRows
  <2>4. BornDenied'
    BY <1>1, <2>2, <2>3 DEF BornDenied
  <2>5. ContestedItems'
    BY <1>1, <2>2, <2>3 DEF ContestedItems
  <2> QED BY <2>4, <2>5 DEF ItemInv
<1>4. CASE \E r, d : d \in Decisions /\ Decides(r, d)
  <2>1. PICK r, d : d \in Decisions /\ Decides(r, d)
    BY <1>4
  <2>2. /\ DOMAIN requests' = DOMAIN requests /\ lastId' = lastId /\ contested' = contested
        /\ \A x \in DOMAIN requests : requests'[x].born = requests[x].born
        /\ \A x \in DOMAIN requests : x # r => requests'[x] = requests[x]
    BY <1>1, <2>1, FinalizeRows DEF Decides
  <2>3. r \in DOMAIN requests => requests[r].born # "denied"
    BY <1>1, <2>1 DEF Decides, BornDenied, ContestedItems, Undecided
  <2> QED BY <1>1, <2>2, <2>3 DEF ItemInv, BornDenied, ContestedItems
<1>5. CASE \E r : Contests(r)
  <2>1. PICK r : Contests(r)
    BY <1>5
  <2>2. r \in 1 .. lastId /\ requests[r].born # "denied"
    BY <1>1, <2>1 DEF Contests, BornDenied, StorageTypeOK
  <2> QED BY <1>1, <2>1, <2>2 DEF Contests, ItemInv, BornDenied, ContestedItems
<1>6. CASE ReapStale /\ UNCHANGED contested
  <2>1. \A x \in DOMAIN requests : requests[x] \in Row
    BY <1>1 DEF StorageTypeOK
  <2>2. /\ DOMAIN requests' = DOMAIN requests /\ lastId' = lastId
        /\ \A x \in DOMAIN requests :
              /\ requests'[x] = IF x \in Stale THEN [requests[x] EXCEPT !.decision = "denied"]
                                               ELSE requests[x]
              /\ requests'[x].born = requests[x].born
    BY <1>1, <1>6, ReapRows
  <2>3. \A x \in DOMAIN requests : x \in Stale => requests'[x].decision = "denied"
    BY <2>1, <2>2 DEF Row
  <2>4. \A x \in DOMAIN requests : x \notin Stale => requests'[x] = requests[x]
    BY <2>2
  <2> QED BY <1>1, <1>6, <2>2, <2>3, <2>4 DEF ItemInv, BornDenied, ContestedItems
<1>7. CASE Reset /\ UNCHANGED contested
  BY <1>1, <1>7 DEF Reset, ItemInv, BornDenied, ContestedItems
<1> QED BY <1>2, <1>3, <1>4, <1>5, <1>6, <1>7, StepKinds

----------------------------------------------------------------------------
(***************************************************************************)
(* The items, and what each kind of step does to them.                     *)
(***************************************************************************)
LEMMA ItemsAre ==
    /\ DOMAIN Items = {x \in DOMAIN requests : requests[x].born # "denied"}
    /\ \A r \in DOMAIN Items :
          /\ Items[r] = [agent |-> requests[r].agent, amount |-> requests[r].amount,
                         day |-> Day(requests[r].at), cap |-> requests[r].cap,
                         state |-> ItemState(r)]
          /\ Items[r].agent = requests[r].agent /\ Items[r].amount = requests[r].amount
          /\ Items[r].day = Day(requests[r].at)
          /\ Items[r].state = ItemState(r)
    /\ Items = [r \in DOMAIN Items |-> Items[r]]
BY DEF Items

\* The same, in the next state.
LEMMA ItemsBecome ==
    /\ DOMAIN Items' = {x \in DOMAIN requests' : requests'[x].born # "denied"}
    /\ \A r \in DOMAIN Items' :
          Items'[r] = [agent |-> requests'[r].agent, amount |-> requests'[r].amount,
                       day |-> Day(requests'[r].at), cap |-> requests'[r].cap,
                       state |-> ItemState(r)']
    /\ Items' = [r \in DOMAIN Items' |-> Items'[r]]
BY DEF Items, Day

LEMMA StatesAre ==
    ASSUME NEW r
    PROVE  /\ ItemState(r) = "held" \/ ItemState(r) = "spent" => r \notin contested
           /\ r \notin contested /\ requests[r].decision \in Undecided => ItemState(r) = "held"
           /\ r \notin contested /\ requests[r].decision = "approved" => ItemState(r) = "spent"
           /\ r \notin contested /\ requests[r].decision = "denied" => ItemState(r) = "returned"
           /\ r \in contested => ItemState(r) = "disputed"
<1>1. CASE r \in contested
  BY <1>1 DEF ItemState
<1>2. CASE r \notin contested /\ requests[r].decision = "approved"
  BY <1>2 DEF ItemState, Undecided
<1>3. CASE r \notin contested /\ requests[r].decision = "denied"
  BY <1>3 DEF ItemState, Undecided
<1>4. CASE r \notin contested /\ requests[r].decision \notin {"approved", "denied"}
  BY <1>4 DEF ItemState, Undecided
<1> QED BY <1>1, <1>2, <1>3, <1>4

LEMMA StatesBecome ==
    ASSUME NEW r
    PROVE  /\ r \notin contested' /\ requests'[r].decision \in Undecided => ItemState(r)' = "held"
           /\ r \notin contested' /\ requests'[r].decision = "approved" => ItemState(r)' = "spent"
           /\ r \notin contested' /\ requests'[r].decision = "denied" => ItemState(r)' = "returned"
           /\ r \in contested' => ItemState(r)' = "disputed"
           /\ (r \in contested' <=> r \in contested) /\ requests'[r] = requests[r] =>
                 ItemState(r)' = ItemState(r)
<1>1. CASE r \in contested'
  BY <1>1 DEF ItemState
<1>2. CASE r \notin contested' /\ requests'[r].decision = "approved"
  BY <1>2 DEF ItemState, Undecided
<1>3. CASE r \notin contested' /\ requests'[r].decision = "denied"
  BY <1>3 DEF ItemState, Undecided
<1>4. CASE r \notin contested' /\ requests'[r].decision \notin {"approved", "denied"}
  BY <1>4 DEF ItemState, Undecided
<1> QED BY <1>1, <1>2, <1>3, <1>4

LEMMA UnchangedItems ==
    ASSUME NoItem
    PROVE  Items' = Items
BY DEF NoItem, Items, ItemState

LEMMA ResetWipes ==
    ASSUME Reset
    PROVE  Promised!Wipe
<1>1. DOMAIN requests' = {}
  BY DEF Reset
<1> QED BY <1>1 DEF Items, Promised!Wipe

\* Some items that are held come to another state: items are resolved.
LEMMA RowsResolve ==
    ASSUME StorageTypeOK, NEW ids, NEW state, ids \subseteq DOMAIN Items,
           \A r \in ids : ItemState(r) = "held",
           DOMAIN requests' = DOMAIN requests,
           \A x \in DOMAIN requests :
              /\ requests'[x].born = requests[x].born /\ requests'[x].agent = requests[x].agent
              /\ requests'[x].amount = requests[x].amount /\ requests'[x].at = requests[x].at
              /\ requests'[x].cap = requests[x].cap
              /\ ItemState(x)' = IF x \in ids THEN state ELSE ItemState(x)
    PROVE  Promised!Resolve(ids, state)
<1>1. \A r \in ids : Items[r].state = "held"
  BY ItemsAre
<1>2. DOMAIN Items' = DOMAIN Items
  BY ItemsAre, ItemsBecome
<1>3. ASSUME NEW r \in DOMAIN Items
      PROVE  Items'[r] = IF r \in ids THEN [Items[r] EXCEPT !.state = state] ELSE Items[r]
  <2>1. r \in DOMAIN requests /\ r \in DOMAIN Items'
    BY <1>2, ItemsAre
  <2>2. Items'[r] = [agent |-> requests[r].agent, amount |-> requests[r].amount,
                     day |-> Day(requests[r].at), cap |-> requests[r].cap,
                     state |-> IF r \in ids THEN state ELSE ItemState(r)]
    BY <2>1, ItemsBecome
  <2>3. Items[r] = [agent |-> requests[r].agent, amount |-> requests[r].amount,
                    day |-> Day(requests[r].at), cap |-> requests[r].cap,
                    state |-> ItemState(r)]
    BY ItemsAre
  <2>4. CASE r \in ids
    BY <2>2, <2>3, <2>4
  <2>5. CASE r \notin ids
    BY <2>2, <2>3, <2>5
  <2> QED BY <2>4, <2>5
<1>4. Items' = [j \in DOMAIN Items |->
                  IF j \in ids THEN [Items[j] EXCEPT !.state = state] ELSE Items[j]]
  BY <1>2, <1>3, ItemsBecome
<1> QED BY <1>1, <1>4 DEF Promised!Resolve

\* A denial is no item.
LEMMA DenialsAreNoItems ==
    ASSUME StorageTypeOK, NEW row \in Row, LogsDenial(row)
    PROVE  Items' = Items
<1>1. /\ lastId + 1 \notin DOMAIN requests
      /\ DOMAIN requests' = DOMAIN requests \cup {lastId + 1}
      /\ requests'[lastId + 1].born = "denied"
      /\ \A r \in DOMAIN requests : requests'[r] = requests[r]
      /\ contested' = contested
  BY InsertRows DEF LogsDenial
<1>2. DOMAIN Items' = DOMAIN Items
  BY <1>1, ItemsAre, ItemsBecome
<1>3. \A r \in DOMAIN Items : r \in DOMAIN requests
  BY ItemsAre
<1>4. \A r \in DOMAIN Items : Items'[r] = Items[r]
  <2> SUFFICES ASSUME NEW r \in DOMAIN Items PROVE Items'[r] = Items[r]
    OBVIOUS
  <2>1. requests'[r] = requests[r] /\ ItemState(r)' = ItemState(r)
    BY <1>1, <1>3, StatesBecome
  <2>2. Items'[r] = [agent |-> requests[r].agent, amount |-> requests[r].amount,
                     day |-> Day(requests[r].at), cap |-> requests[r].cap,
                     state |-> ItemState(r)]
    BY <1>2, <2>1, ItemsBecome
  <2> QED BY <2>2, ItemsAre
<1> QED BY <1>2, <1>4, ItemsAre, ItemsBecome

\* What Budget adds up, SpentOn adds up too.
LEMMA SameSum ==
    ASSUME StorageTypeOK, NEW agent, NEW day
    PROVE  Promised!Units(Promised!Against(agent, day)) \subseteq Cents(Holding(agent, day))
<1>1. Promised!Against(agent, day) \subseteq Holding(agent, day)
  <2> SUFFICES ASSUME NEW r \in Promised!Against(agent, day) PROVE r \in Holding(agent, day)
    OBVIOUS
  <2>1. /\ r \in DOMAIN Items /\ Items[r].agent = agent /\ Items[r].day = day
        /\ Items[r].state \in {"held", "spent"}
    BY DEF Promised!Against
  <2>2. /\ r \in DOMAIN requests /\ requests[r].agent = agent /\ Day(requests[r].at) = day
        /\ ItemState(r) \in {"held", "spent"}
    BY <2>1, ItemsAre
  <2>3. requests[r].decision \in Decisions
    BY <2>2 DEF StorageTypeOK, Row
  <2>4. requests[r].decision # "denied"
    BY <2>2 DEF ItemState
  <2> QED BY <2>2, <2>3, <2>4 DEF Holding, Counts, Decisions
<1>2. \A r \in Promised!Against(agent, day) : Items[r].amount = requests[r].amount
  BY ItemsAre DEF Promised!Against
<1> QED BY <1>1, <1>2 DEF Promised!Units, Cents

\* Budget counts as everyone does.
LEMMA SameCount == \A S : Promised!Cardinality(S) = Cardinality(S)
BY DEF Promised!Cardinality, Cardinality, Promised!IsFiniteSet, IsFiniteSet

\* try_reserve admits an item.
LEMMA ReservesAdmit ==
    ASSUME StorageTypeOK, ContestedItems, NEW row \in Row, Reserves(row)
    PROVE  lastId + 1 \in DOMAIN Items' /\ Promised!Admit(lastId + 1)
<1>0. PICK n : n = lastId + 1
  OBVIOUS
<1> DEFINE item == Items'[n]
<1>1. /\ n \notin DOMAIN requests
      /\ DOMAIN requests' = DOMAIN requests \cup {n}
      /\ requests'[n] = row
      /\ \A r \in DOMAIN requests : requests'[r] = requests[r]
      /\ contested' = contested /\ n \notin contested
  BY <1>0, InsertRows DEF Reserves, ContestedItems, StorageTypeOK
<1>2. row.decision \in Undecided /\ row.born = row.decision /\ row.born # "denied"
  BY DEF Reserves, Undecided
<1>3. DOMAIN Items' = DOMAIN Items \cup {n} /\ n \notin DOMAIN Items
  BY <1>1, <1>2, ItemsAre, ItemsBecome
<1>4. item = [agent |-> row.agent, amount |-> row.amount, day |-> Day(row.at),
              cap |-> row.cap, state |-> "held"]
  <2>1. n \in DOMAIN Items'
    BY <1>3
  <2>2. item = [agent |-> requests'[n].agent, amount |-> requests'[n].amount,
                day |-> Day(requests'[n].at), cap |-> requests'[n].cap,
                state |-> ItemState(n)']
    BY <2>1, ItemsBecome
  <2>3. ItemState(n)' = "held"
    BY <1>1, <1>2, StatesBecome
  <2> HIDE DEF item
  <2> QED BY <1>1, <2>2, <2>3
<1>5. \A r \in DOMAIN Items : Items'[r] = Items[r]
  <2> SUFFICES ASSUME NEW r \in DOMAIN Items PROVE Items'[r] = Items[r]
    OBVIOUS
  <2>1. r \in DOMAIN requests
    BY ItemsAre
  <2>2. requests'[r] = requests[r] /\ ItemState(r)' = ItemState(r)
    BY <1>1, <2>1, StatesBecome
  <2>3. Items'[r] = [agent |-> requests[r].agent, amount |-> requests[r].amount,
                     day |-> Day(requests[r].at), cap |-> requests[r].cap,
                     state |-> ItemState(r)]
    BY <1>3, <2>2, ItemsBecome
  <2> QED BY <2>3, ItemsAre
<1>6. Items' = [j \in DOMAIN Items \cup {n} |-> IF j = n THEN item ELSE Items[j]]
  BY <1>3, <1>5, ItemsBecome
<1>7. item \in Promised!Item
  <2>1. row.at \in Nat /\ row.agent \in Agents /\ row.amount \in Nat /\ row.cap \in Nat
    BY DEF Row
  <2>2. Day(row.at) \in Nat
    BY <2>1, StorageAssumption DEF Day
  <2> QED BY <1>4, <2>1, <2>2 DEF Promised!Item
<1>8. Cardinality(Promised!Units(Promised!Against(item.agent, item.day))) + item.amount
         <= item.cap
  <2>1. item.agent = row.agent /\ item.day = Day(row.at) /\ item.amount = row.amount
        /\ item.cap = row.cap
    BY <1>4
  <2> DEFINE units == Promised!Units(Promised!Against(row.agent, Day(row.at)))
             cents == Cents(Holding(row.agent, Day(row.at)))
  <2>2. units \subseteq cents
    BY SameSum
  <2>3. Cardinality(cents) + row.amount <= row.cap
    BY DEF Reserves, SpentOn
  <2>4. IsFiniteSet(cents)
    BY RowsFinite DEF Holding
  <2>5. row.amount \in Nat /\ row.cap \in Nat
    BY DEF Row
  <2> HIDE DEF item, units, cents
  <2>6. IsFiniteSet(units) /\ Cardinality(units) <= Cardinality(cents)
    BY <2>2, <2>4, FS_Subset
  <2>7. Cardinality(units) \in Nat /\ Cardinality(cents) \in Nat
    BY <2>4, <2>6, FS_CardinalityType
  <2>8. Cardinality(units) + row.amount <= row.cap
    BY <2>3, <2>5, <2>6, <2>7
  <2> QED BY <2>1, <2>8 DEF units
<1>9. item.state = "held"
  BY <1>4
<1>10. item.state = "held" /\ n \notin DOMAIN Items
  BY <1>3, <1>9
<1>11. Promised!Admit(n)
  BY <1>6, <1>7, <1>8, <1>10, SameCount DEF Promised!Admit
<1> QED BY <1>0, <1>3, <1>11

----------------------------------------------------------------------------
LEMMA StepRefines ==
    ASSUME BudgetInv, [Next]_vars
    PROVE  [Promised!Next]_Items
<1>1. StorageTypeOK /\ BornDenied /\ ContestedItems /\ PayInv
  BY DEF BudgetInv, ItemInv, PayInv, LocalInv, TypeOK
<1>2. CASE NoItem
  BY <1>2, UnchangedItems
<1>3. ASSUME NEW row \in Row, LogsDenial(row) PROVE Items' = Items
  BY <1>1, <1>3, DenialsAreNoItems
<1>4. ASSUME NEW row \in Row, Reserves(row) PROVE Promised!Next
  BY <1>1, <1>4, ReservesAdmit DEF Promised!Next
<1>5. ASSUME NEW r, NEW d \in Decisions, Decides(r, d) PROVE [Promised!Next]_Items
  <2>1. /\ DOMAIN requests' = DOMAIN requests /\ contested' = contested
        /\ \A x \in DOMAIN requests :
              /\ requests'[x].born = requests[x].born
              /\ requests'[x].agent = requests[x].agent
              /\ requests'[x].amount = requests[x].amount
              /\ requests'[x].at = requests[x].at
              /\ requests'[x].cap = requests[x].cap
              /\ requests'[x] = IF x = r THEN [requests[x] EXCEPT !.decision = d]
                                         ELSE requests[x]
    BY <1>1, <1>5, FinalizeRows DEF Decides
  <2>2. \A x \in DOMAIN requests : x # r => ItemState(x)' = ItemState(x)
    BY <2>1, StatesBecome
  <2>3. CASE r \notin DOMAIN requests \/ r \in contested
    <3>1. \A x \in DOMAIN requests : ItemState(x)' = ItemState(x)
      BY <2>1, <2>2, <2>3, StatesAre, StatesBecome
    <3>2. Promised!Resolve({}, "returned")
      BY <1>1, <2>1, <3>1, RowsResolve
    <3>3. {} \in SUBSET DOMAIN Items
      OBVIOUS
    <3> QED BY <3>2, <3>3 DEF Promised!Next
  <2>4. CASE r \in DOMAIN requests \ contested
    <3>1. requests[r].decision \in Undecided /\ ItemState(r) = "held"
      BY <1>5, <2>4, StatesAre DEF Decides
    <3>2. requests'[r].decision = d
      BY <1>1, <2>1, <2>4 DEF StorageTypeOK, Row
    <3>3. {r} \subseteq DOMAIN Items
      BY <1>1, <2>4, <3>1, ItemsAre DEF BornDenied, Undecided
    <3>4. CASE d \in Undecided
      <4>1. \A x \in DOMAIN requests : ItemState(x)' = ItemState(x)
        BY <2>1, <2>2, <2>4, <3>1, <3>2, <3>4, StatesBecome
      <4>2. Promised!Resolve({}, "returned")
        BY <1>1, <2>1, <4>1, RowsResolve
      <4>3. {} \in SUBSET DOMAIN Items
        OBVIOUS
      <4> QED BY <4>2, <4>3 DEF Promised!Next
    <3>5. CASE d = "approved"
      <4>1. ItemState(r)' = "spent"
        BY <2>1, <2>4, <3>2, <3>5, StatesBecome
      <4>2. Promised!Resolve({r}, "spent")
        BY <1>1, <2>1, <2>2, <3>1, <3>3, <4>1, RowsResolve
      <4> QED BY <3>3, <4>2 DEF Promised!Next
    <3>6. CASE d = "denied"
      <4>1. ItemState(r)' = "returned"
        BY <2>1, <2>4, <3>2, <3>6, StatesBecome
      <4>2. Promised!Resolve({r}, "returned")
        BY <1>1, <2>1, <2>2, <3>1, <3>3, <4>1, RowsResolve
      <4> QED BY <3>3, <4>2 DEF Promised!Next
    <3> QED BY <3>4, <3>5, <3>6 DEF Decisions, CapCounting, Undecided
  <2> QED BY <2>3, <2>4
<1>6. ASSUME NEW r, Contests(r) PROVE [Promised!Next]_Items
  <2>1. /\ requests' = requests /\ contested' = contested \cup {r}
        /\ r \in DOMAIN requests /\ requests[r].decision = "awaiting_approval"
    BY <1>6 DEF Contests
  <2>2. \A x \in DOMAIN requests : x # r => ItemState(x)' = ItemState(x)
    BY <2>1, StatesBecome
  <2>3. ItemState(r)' = "disputed"
    BY <2>1, StatesBecome
  <2>4. CASE r \in contested
    BY <2>1, <2>4 DEF Items, ItemState
  <2>5. CASE r \notin contested
    <3>1. ItemState(r) = "held"
      BY <2>1, <2>5, StatesAre DEF Undecided
    <3>2. {r} \subseteq DOMAIN Items
      BY <1>1, <2>1, ItemsAre DEF BornDenied
    <3>3. Promised!Resolve({r}, "disputed")
      BY <1>1, <2>1, <2>2, <2>3, <3>1, <3>2, RowsResolve
    <3> QED BY <3>2, <3>3 DEF Promised!Next
  <2> QED BY <2>4, <2>5
<1>7. CASE ReapStale /\ UNCHANGED contested
  <2> DEFINE ids == Stale \ contested
  <2>1. /\ DOMAIN requests' = DOMAIN requests /\ contested' = contested
        /\ \A x \in DOMAIN requests :
              /\ requests'[x].born = requests[x].born
              /\ requests'[x].agent = requests[x].agent
              /\ requests'[x].amount = requests[x].amount
              /\ requests'[x].at = requests[x].at
              /\ requests'[x].cap = requests[x].cap
              /\ requests'[x] = IF x \in Stale THEN [requests[x] EXCEPT !.decision = "denied"]
                                               ELSE requests[x]
    BY <1>1, <1>7, ReapRows
  <2>2. ids \subseteq DOMAIN Items /\ \A x \in ids : ItemState(x) = "held"
    <3>1. \A x \in ids : x \in DOMAIN requests \ contested /\ requests[x].decision = "pending"
      BY DEF Stale
    <3>2. \A x \in ids : requests[x].born # "denied"
      BY <1>1, <3>1 DEF BornDenied
    <3> QED BY <3>1, <3>2, ItemsAre, StatesAre DEF Undecided
  <2>3. ASSUME NEW x \in DOMAIN requests
        PROVE  ItemState(x)' = IF x \in ids THEN "returned" ELSE ItemState(x)
    <3>1. CASE x \in contested
      BY <2>1, <3>1, StatesAre, StatesBecome
    <3>2. CASE x \notin contested /\ x \in Stale
      <4>1. requests'[x].decision = "denied"
        BY <1>1, <2>1, <3>2 DEF StorageTypeOK, Row
      <4> QED BY <2>1, <3>2, <4>1, StatesBecome
    <3>3. CASE x \notin contested /\ x \notin Stale
      BY <2>1, <3>3, StatesBecome
    <3> QED BY <3>1, <3>2, <3>3
  <2> HIDE DEF ids
  <2>4. Promised!Resolve(ids, "returned")
    BY <1>1, <2>1, <2>2, <2>3, RowsResolve
  <2> QED BY <2>2, <2>4 DEF Promised!Next
<1>8. CASE Reset /\ UNCHANGED contested
  BY <1>8, ResetWipes DEF Promised!Next
<1> QED BY <1>1, <1>2, <1>3, <1>4, <1>5, <1>6, <1>7, <1>8, StepKinds

\* The request log is a daily budget (try_reserve, finalize, reap_stale_reservations
\* and reset): every step of the engine admits an item that its cap has room for,
\* resolves held items, once, or changes nothing in the budget.  A hold that a
\* second handler takes while one is at work on it comes into dispute, and no other.
THEOREM EngineImplementsBudget == Spec => KeepsBudget
<1>1. Init => Promised!Init
  <2>1. Init => DOMAIN requests = {}
    BY DEF Init, StorageInit
  <2> QED BY <2>1 DEF Items, Promised!Init
<1>2. Init => ItemInv
  BY DEF Init, StorageInit, ItemInv, BornDenied, ContestedItems
<1>3. PayInv /\ ItemInv /\ [Next]_vars => ItemInv'
  BY ItemsKept
<1>4. PayInv /\ ItemInv /\ [Next]_vars => [Promised!Next]_Items
  BY StepRefines DEF BudgetInv
<1> QED BY <1>1, <1>2, <1>3, <1>4, PayInvariant, PTL DEF Spec, KeepsBudget, Promised!Spec

----------------------------------------------------------------------------
(***************************************************************************)
(* SpendEngine implements Exchange, however holds are reviewed.  Only a    *)
(* thread that waits for a call, or for its row to be marked as paid,      *)
(* changes what is known of it.                                            *)
(***************************************************************************)
WaitPcs == {"await", "settled"}

\* An open call is waited for, unless it has been given up.
OpenIsAwaited ==
    \A c \in DOMAIN calls : calls[c].state = "open" /\ ~calls[c].lost => c \in Awaited

LEMMA FatesAre ==
    /\ DOMAIN Fates = DOMAIN calls
    /\ \A c \in DOMAIN calls :
          /\ Fates[c].state = calls[c].state
          /\ Fates[c].known = IF calls[c].lost THEN "lost"
                              ELSE IF c \in Awaited THEN "nothing" ELSE calls[c].state
          /\ Fates[c] = [state |-> calls[c].state, known |-> Fates[c].known]
    /\ Fates = [c \in DOMAIN Fates |-> Fates[c]]
  BY DEF Fates

\* The same, in the next state.
LEMMA FatesBecome ==
    /\ DOMAIN Fates' = DOMAIN calls'
    /\ \A c \in DOMAIN calls' :
          /\ Fates'[c].state = calls'[c].state
          /\ Fates'[c].known = IF calls'[c].lost THEN "lost"
                               ELSE IF c \in Awaited' THEN "nothing" ELSE calls'[c].state
          /\ Fates'[c] = [state |-> calls'[c].state, known |-> Fates'[c].known]
    /\ Fates' = [c \in DOMAIN Fates' |-> Fates'[c]]
  BY DEF Fates

LEMMA SameFates ==
    ASSUME calls' = calls, Awaited' = Awaited, OpenIsAwaited
    PROVE  Fates' = Fates /\ OpenIsAwaited'
  BY DEF Fates, OpenIsAwaited

\* What one thread does changes what is waited for by its own call at most.
LEMMA AwaitedMoves ==
    ASSUME NEW h \in Handlers, \A k \in Handlers \ {h} : handlers'[k] = handlers[k]
    PROVE  /\ Awaited' \subseteq Awaited \cup {handlers'[h].call}
           /\ Awaited \subseteq Awaited' \cup {handlers[h].call}
           /\ handlers'[h].pc \in WaitPcs => handlers'[h].call \in Awaited'
           /\ handlers[h].pc \in WaitPcs => handlers[h].call \in Awaited
           /\ handlers'[h].pc \notin WaitPcs => Awaited' \subseteq Awaited
           /\ handlers[h].pc \notin WaitPcs => Awaited \subseteq Awaited'
  BY DEF Awaited, WaitPcs

\* A step of h that neither sends a call nor ends the wait for one.
Apart(h) ==
    /\ calls' = calls
    /\ \A k \in Handlers \ {h} : handlers'[k] = handlers[k]
    /\ handlers[h].pc \notin WaitPcs /\ handlers'[h].pc \notin WaitPcs

LEMMA ApartSteps ==
    ASSUME LocalInv, NEW h \in Handlers,
           \/ Begin(h)
           \/ /\ Step(h)
              /\ ~(\/ Send(h) \/ Receive(h) \/ GiveUp(h) \/ FinalizeApproved(h)
                   \/ (DatabaseBusy(h) /\ handlers[h].pc = "settled"))
    PROVE  Apart(h)
<1>1. handlers \in [Handlers -> Handler] /\ handlers[h] \in Handler
  BY DEF LocalInv, TypeOK
<1>2. ASSUME NEW rec, Become(h, rec), rec.pc \notin WaitPcs, calls' = calls,
             handlers[h].pc \notin WaitPcs
      PROVE  Apart(h)
  BY <1>1, <1>2 DEF Become, Apart
<1>3. ASSUME NEW pc, pc \notin WaitPcs, Goto(h, pc), calls' = calls, handlers[h].pc \notin WaitPcs
      PROVE  Apart(h)
  <2>1. [handlers[h] EXCEPT !.pc = pc].pc = pc
    BY <1>1 DEF Handler
  <2> QED
    BY <1>2, <1>3, <2>1 DEF Goto
<1>4. ASSUME NEW from, NEW passes, NEW next, Check(h, from, passes, next),
             from \notin WaitPcs, next \notin WaitPcs
      PROVE  Apart(h)
  <2>1. Goto(h, IF passes THEN next ELSE Refusal(h)) /\ calls' = calls /\ handlers[h].pc = from
    BY <1>4 DEF Check, Goto, At
  <2>2. Refusal(h) \notin WaitPcs
    BY DEF Refusal, WaitPcs
  <2> QED
    BY <1>3, <1>4, <2>1, <2>2
<1>5. Idle.pc \notin WaitPcs
  BY DEF Idle, WaitPcs
<1>6. CASE CheckFrozen(h) \/ CheckAllowed(h) \/ CheckCeiling(h)
  BY <1>4, <1>6 DEF CheckFrozen, CheckAllowed, CheckCeiling, WaitPcs
<1>7. CASE BadParams(h) \/ SetupFails(h) \/ Grant(h) \/ RecordRefusal(h)
  BY <1>3, <1>7 DEF BadParams, SetupFails, Grant, RecordRefusal, At, WaitPcs
<1>8. CASE CheckThreshold(h)
  BY <1>1, <1>2, <1>8 DEF CheckThreshold, At, WaitPcs, Handler
<1>9. CASE ReadCaps(h)
  BY <1>1, <1>2, <1>9 DEF ReadCaps, At, WaitPcs, Handler
<1>10. CASE Deny(h)
  BY <1>1, <1>2, <1>10 DEF Deny, At, WaitPcs, Handler
<1>11. CASE CheckAgent(h)
  BY <1>1, <1>2, <1>11 DEF CheckAgent, At, WaitPcs, Handler
<1>12. CASE Park(h) \/ Log(h) \/ FinalizeDenied(h) \/ EventLost(h) \/ PaymentRaises(h)
  BY <1>2, <1>5, <1>12 DEF Park, Log, FinalizeDenied, EventLost, PaymentRaises, At, WaitPcs
<1>17. CASE DatabaseBusy(h) /\ handlers[h].pc # "settled"
  BY <1>2, <1>5, <1>17 DEF DatabaseBusy, WaitPcs
<1>13. CASE Reserve(h)
  <2>1. handlers[h].pc \notin WaitPcs /\ calls' = calls
    BY <1>13 DEF Reserve, At, WaitPcs
  <2>2. CASE Goto(h, "deny")
    BY <1>3, <2>1, <2>2 DEF WaitPcs
  <2>3. CASE Become(h, [handlers[h] EXCEPT !.pc = IF handlers[h].hold THEN "park" ELSE "setup",
                                          !.row = lastId'])
    <3>1. [handlers[h] EXCEPT !.pc = IF handlers[h].hold THEN "park" ELSE "setup",
                              !.row = lastId'].pc \notin WaitPcs
      BY <1>1 DEF Handler, WaitPcs
    <3> QED
      BY <1>2, <2>1, <2>3, <3>1
  <2> QED
    BY <1>13, <2>2, <2>3 DEF Reserve
<1>14. CASE \E a \in Agents, n \in Amounts : Spend(h, a, n)
  <2>1. PICK a \in Agents, n \in Amounts : Spend(h, a, n)
    BY <1>14
  <2>2. PICK ok \in BOOLEAN :
          Become(h, [Idle EXCEPT
              !.kind = "spend", !.agent = a,
              !.amount = IF policy[a] = Absent THEN 0 ELSE n,
              !.view = IF policy[a] = Absent THEN Absent ELSE Live,
              !.pc = IF ok /\ policy[a] # Absent THEN "frozen" ELSE "deny",
              !.barred = Bars(policy[a])])
    BY <2>1 DEF Spend
  <2>3. [Idle EXCEPT
              !.kind = "spend", !.agent = a,
              !.amount = IF policy[a] = Absent THEN 0 ELSE n,
              !.view = IF policy[a] = Absent THEN Absent ELSE Live,
              !.pc = IF ok /\ policy[a] # Absent THEN "frozen" ELSE "deny",
              !.barred = Bars(policy[a])].pc \notin WaitPcs
    BY DEF Idle, WaitPcs
  <2>4. handlers[h].pc \notin WaitPcs /\ calls' = calls
    BY <2>1 DEF Spend, At, WaitPcs
  <2> QED
    BY <1>2, <2>2, <2>3, <2>4
<1>15. ASSUME NEW r, NEW kind, NEW pc, pc \notin WaitPcs, Review(h, r, kind, pc) PROVE Apart(h)
  <2>1. [Idle EXCEPT !.kind = kind, !.pc = pc, !.row = r, !.agent = requests[r].agent,
                     !.barred = Bars(policy[requests[r].agent])].pc = pc
    BY DEF Idle
  <2>2. handlers[h].pc \notin WaitPcs /\ calls' = calls
    BY <1>15 DEF Review, At, WaitPcs
  <2> QED
    BY <1>2, <1>15, <2>1, <2>2 DEF Review
<1>16. CASE \E r \in DOMAIN requests : Approve(h, r) \/ RejectHold(h, r)
  BY <1>15, <1>16 DEF Approve, RejectHold, WaitPcs
<1> QED
  BY <1>6, <1>7, <1>8, <1>9, <1>10, <1>11, <1>12, <1>13, <1>14, <1>16, <1>17 DEF Begin, Step

LEMMA ApartTrades ==
    ASSUME OpenIsAwaited, NEW h \in Handlers, Apart(h)
    PROVE  Fates' = Fates /\ OpenIsAwaited'
<1>1. Awaited' = Awaited
  BY AwaitedMoves DEF Apart
<1> QED
  BY <1>1, SameFates DEF Apart

\* The fate of one call changes.
LEMMA OneFate ==
    ASSUME DOMAIN calls' = DOMAIN calls, NEW c \in DOMAIN calls, NEW f, Fates'[c] = f,
           \A d \in DOMAIN calls \ {c} : Fates'[d] = Fates[d]
    PROVE  Fates' = [Fates EXCEPT ![c] = f]
  BY FatesAre, FatesBecome

\* Send: a call nobody had sent.
LEMMA SendTrades ==
    ASSUME LocalInv, OpenIsAwaited, NEW h \in Handlers, Send(h)
    PROVE  Trade!Next /\ OpenIsAwaited'
<1> DEFINE n == Len(calls) + 1
           call == [row |-> handlers[h].row, state |-> "open", lost |-> FALSE]
<1>1. /\ handlers \in [Handlers -> Handler] /\ handlers[h] \in Handler
      /\ calls \in Seq(Call) /\ calls' = Append(calls, call)
      /\ handlers[h].pc \notin WaitPcs
  BY DEF LocalInv, TypeOK, Send, At, WaitPcs
<1>2. /\ DOMAIN calls' = DOMAIN calls \cup {n} /\ n \notin DOMAIN calls
      /\ \A c \in DOMAIN calls : calls'[c] = calls[c]
      /\ calls'[n] = call
  <2> HIDE DEF call
  <2> QED
    BY <1>1
<1>3. call.state = "open" /\ call.lost = FALSE
  OBVIOUS
<1>4. /\ \A k \in Handlers \ {h} : handlers'[k] = handlers[k]
      /\ handlers'[h].pc = "await" /\ handlers'[h].call = n
  <2>1. handlers' = [handlers EXCEPT ![h] = [handlers[h] EXCEPT !.pc = "await", !.call = n]]
    BY DEF Send, Become
  <2> HIDE DEF n
  <2> QED
    BY <1>1, <2>1 DEF Handler
<1> HIDE DEF n, call
<1>5. Awaited' = Awaited \cup {n}
  BY <1>1, <1>4, AwaitedMoves DEF WaitPcs
<1>6. \A c \in DOMAIN calls : Fates'[c] = Fates[c]
  <2> SUFFICES ASSUME NEW c \in DOMAIN calls PROVE Fates'[c] = Fates[c]
    OBVIOUS
  <2>1. c \in DOMAIN calls' /\ calls'[c] = calls[c] /\ (c \in Awaited' <=> c \in Awaited)
    BY <1>2, <1>5
  <2>2. Fates'[c].known = Fates[c].known
    BY <2>1, FatesAre, FatesBecome
  <2> QED
    BY <2>1, <2>2, FatesAre, FatesBecome
<1>7. Fates'[n] = Trade!Sent
  <2>1. n \in DOMAIN calls' /\ Fates'[n].known = "nothing" /\ calls'[n].state = "open"
    BY <1>2, <1>3, <1>5, FatesBecome
  <2> QED
    BY <2>1, FatesBecome DEF Trade!Sent
<1>8. Fates' = [d \in DOMAIN Fates \cup {n} |-> IF d = n THEN Trade!Sent ELSE Fates[d]]
  BY <1>2, <1>6, <1>7, FatesAre, FatesBecome
<1>9. Trade!Send(n) /\ n \in DOMAIN Fates'
  BY <1>2, <1>8, FatesAre, FatesBecome DEF Trade!Send
<1>10. OpenIsAwaited'
  BY <1>2, <1>5 DEF OpenIsAwaited
<1> QED
  BY <1>9, <1>10 DEF Trade!Next

\* Answer: the call ends, for a thread that waits or for nobody.
LEMMA AnswerTrades ==
    ASSUME LocalInv, OpenIsAwaited, NEW c \in DOMAIN calls, Answer(c)
    PROVE  Trade!Next /\ OpenIsAwaited'
<1>1. calls \in Seq(Call) /\ calls[c].state = "open" /\ Awaited' = Awaited
  BY DEF LocalInv, TypeOK, Answer, Awaited
<1>2. PICK s \in {"settled", "refused"} : calls' = [calls EXCEPT ![c].state = s]
  BY DEF Answer
<1>3. /\ DOMAIN calls' = DOMAIN calls
      /\ \A d \in DOMAIN calls \ {c} : calls'[d] = calls[d]
      /\ calls'[c].state = s /\ calls'[c].lost = calls[c].lost
  <2>1. calls[c] \in Call
    BY <1>1
  <2> QED
    BY <1>2, <2>1 DEF Call
<1>4. Fates'[c].known = Fates[c].known
  BY <1>1, <1>3, FatesAre, FatesBecome DEF OpenIsAwaited
<1>5. Fates'[c] = [Fates[c] EXCEPT !.state = s]
  <2>1. /\ Fates[c] = [state |-> calls[c].state, known |-> Fates[c].known]
        /\ Fates'[c] = [state |-> calls'[c].state, known |-> Fates'[c].known]
    BY <1>3, FatesAre, FatesBecome
  <2> QED
    BY <1>3, <1>4, <2>1
<1>6. \A d \in DOMAIN calls \ {c} : Fates'[d] = Fates[d]
  <2> SUFFICES ASSUME NEW d \in DOMAIN calls \ {c} PROVE Fates'[d] = Fates[d]
    OBVIOUS
  <2>1. Fates'[d].known = Fates[d].known /\ calls'[d].state = calls[d].state
    BY <1>1, <1>3, FatesAre, FatesBecome
  <2> QED
    BY <1>3, <2>1, FatesAre, FatesBecome
<1>7. c \in Trade!Open /\ DOMAIN Fates = DOMAIN calls
  BY <1>1, FatesAre DEF Trade!Open
<1>8. CASE s = "settled"
  <2>1. Trade!End({c}, {})
    BY <1>3, <1>5, <1>6, <1>7, <1>8, FatesAre, FatesBecome DEF Trade!End
  <2> QED
    BY <1>1, <1>3, <1>7, <2>1 DEF Trade!Next, OpenIsAwaited
<1>9. CASE s = "refused"
  <2>1. Trade!End({}, {c})
    BY <1>3, <1>5, <1>6, <1>7, <1>9, FatesAre, FatesBecome DEF Trade!End
  <2> QED
    BY <1>1, <1>3, <1>7, <2>1 DEF Trade!Next, OpenIsAwaited
<1> QED
  BY <1>2, <1>8, <1>9

\* Receive, of a refusal, and FinalizeApproved: the thread is through with a call that
\* has ended.
LEMMA RecordTrades ==
    ASSUME LocalInv, OpenIsAwaited, NEW h \in Handlers, calls' = calls,
           \A k \in Handlers \ {h} : handlers'[k] = handlers[k],
           handlers[h].pc \in WaitPcs, handlers'[h].pc \notin WaitPcs,
           calls[handlers[h].call].state # "open"
    PROVE  [Trade!Next]_Fates /\ OpenIsAwaited'
<1> DEFINE c == handlers[h].call
<1>1. c \in DOMAIN calls
  BY DEF LocalInv, HandlerOK, CallKnown, WaitPcs
<1>2. calls[c].state # "open" /\ c \in Awaited
  BY AwaitedMoves
<1>3. Awaited' \subseteq Awaited /\ Awaited \subseteq Awaited' \cup {c}
  BY AwaitedMoves
<1> HIDE DEF c
<1>4. OpenIsAwaited'
  BY <1>2, <1>3 DEF OpenIsAwaited
<1>5. \A d \in DOMAIN calls \ {c} : Fates'[d] = Fates[d]
  <2> SUFFICES ASSUME NEW d \in DOMAIN calls \ {c} PROVE Fates'[d] = Fates[d]
    OBVIOUS
  <2>1. Fates'[d].known = Fates[d].known
    BY <1>3, FatesAre, FatesBecome
  <2> QED
    BY <2>1, FatesAre, FatesBecome
<1>6. CASE c \in Awaited' \/ calls[c].lost
  <2>1. Fates'[c].known = Fates[c].known
    BY <1>1, <1>2, <1>6, FatesAre, FatesBecome
  <2>2. Fates'[c] = Fates[c]
    BY <1>1, <2>1, FatesAre, FatesBecome
  <2>3. Fates' = Fates
    BY <1>5, <2>2, FatesAre, FatesBecome
  <2> QED
    BY <1>4, <2>3
<1>7. CASE c \notin Awaited' /\ ~calls[c].lost
  <2>1. Fates[c].known = "nothing" /\ Fates[c].state = calls[c].state
        /\ Fates'[c].known = calls[c].state
    BY <1>1, <1>2, <1>7, FatesAre, FatesBecome
  <2>2. Fates'[c] = [Fates[c] EXCEPT !.known = Fates[c].state]
    <3>1. /\ Fates[c] = [state |-> calls[c].state, known |-> "nothing"]
          /\ Fates'[c] = [state |-> calls[c].state, known |-> calls[c].state]
      BY <1>1, <2>1, FatesAre, FatesBecome
    <3> QED
      BY <3>1
  <2>3. Trade!Learn(c)
    BY <1>1, <1>2, <1>5, <2>1, <2>2, OneFate DEF Trade!Learn
  <2> QED
    BY <1>1, <1>4, <2>3, FatesAre DEF Trade!Next
<1> QED
  BY <1>6, <1>7

LEMMA ReceiveTrades ==
    ASSUME LocalInv, OpenIsAwaited, NEW h \in Handlers, Receive(h) \/ FinalizeApproved(h)
    PROVE  [Trade!Next]_Fates /\ OpenIsAwaited'
<1>1. handlers \in [Handlers -> Handler] /\ handlers[h] \in Handler /\ CallKnown(h)
  BY DEF LocalInv, TypeOK, HandlerOK
<1>2. /\ calls' = calls /\ handlers[h].pc \in WaitPcs
      /\ calls[handlers[h].call].state # "open"
  BY <1>1 DEF Receive, FinalizeApproved, At, WaitPcs, CallKnown
<1>3. \A k \in Handlers \ {h} : handlers'[k] = handlers[k]
  BY <1>1 DEF Receive, FinalizeApproved, Goto, Become
<1>4. CASE Receive(h) /\ calls[handlers[h].call].state = "settled"
  <2>1. handlers'[h].pc = "settled" /\ handlers'[h].call = handlers[h].call
    BY <1>1, <1>4 DEF Receive, Goto, Become, Handler
  <2>2. Awaited' = Awaited
    BY <1>2, <1>3, <2>1, AwaitedMoves DEF WaitPcs
  <2> QED
    BY <1>2, <2>2, SameFates
<1>5. CASE Receive(h) /\ calls[handlers[h].call].state # "settled"
  <2>1. handlers'[h].pc = "failed"
    BY <1>1, <1>5 DEF Receive, Goto, Become, Handler
  <2> QED
    BY <1>2, <1>3, <2>1, RecordTrades DEF WaitPcs
<1>6. CASE FinalizeApproved(h)
  <2>1. handlers'[h].pc = "idle"
    BY <1>1, <1>6 DEF FinalizeApproved, Become, Idle
  <2> QED
    BY <1>2, <1>3, <2>1, RecordTrades DEF WaitPcs
<1> QED
  BY <1>4, <1>5, <1>6

\* GiveUp, DatabaseBusy and Crash: answers nobody will read or record any more.
LEMMA Loses ==
    ASSUME LocalInv, OpenIsAwaited, NEW gone \in SUBSET DOMAIN calls, gone \subseteq Awaited,
           DOMAIN calls' = DOMAIN calls,
           \A c \in gone : calls'[c].state = calls[c].state /\ calls'[c].lost,
           \A c \in DOMAIN calls \ gone : calls'[c] = calls[c],
           Awaited' \subseteq Awaited, Awaited \subseteq Awaited' \cup gone
    PROVE  Trade!Next /\ OpenIsAwaited'
<1> DEFINE fresh == {c \in gone : ~calls[c].lost}
<1>1. ASSUME NEW c \in DOMAIN calls
      PROVE  Fates'[c] = IF c \in fresh THEN [Fates[c] EXCEPT !.known = "lost"] ELSE Fates[c]
  <2>1. /\ Fates[c] = [state |-> calls[c].state, known |-> Fates[c].known]
        /\ Fates'[c] = [state |-> calls'[c].state, known |-> Fates'[c].known]
        /\ calls'[c].state = calls[c].state
    BY FatesAre, FatesBecome
  <2>2. CASE c \in gone
    <3>1. Fates'[c].known = "lost"
      BY <2>2, FatesBecome
    <3>2. c \notin fresh => Fates[c].known = "lost"
      BY <2>2, FatesAre
    <3> HIDE DEF fresh
    <3> QED
      BY <2>1, <3>1, <3>2
  <2>3. CASE c \notin gone
    <3>1. Fates'[c].known = Fates[c].known
      BY <2>3, FatesAre, FatesBecome
    <3> QED
      BY <2>1, <2>3, <3>1
  <2> QED
    BY <2>2, <2>3
<1>2. \A c \in fresh : Fates[c].known = "nothing"
  BY FatesAre
<1>3. fresh \in SUBSET DOMAIN Fates
  BY FatesAre
<1>4. OpenIsAwaited'
  BY DEF OpenIsAwaited
<1> HIDE DEF fresh
<1>5. Fates' = [c \in DOMAIN Fates |->
                  IF c \in fresh THEN [Fates[c] EXCEPT !.known = "lost"] ELSE Fates[c]]
  BY <1>1, FatesAre, FatesBecome
<1>6. Trade!Lose(fresh)
  BY <1>2, <1>5 DEF Trade!Lose
<1> QED
  BY <1>3, <1>4, <1>6 DEF Trade!Next

LEMMA LoseTrades ==
    ASSUME LocalInv, OpenIsAwaited, NEW h \in Handlers,
           GiveUp(h) \/ (DatabaseBusy(h) /\ handlers[h].pc = "settled")
    PROVE  Trade!Next /\ OpenIsAwaited'
<1> DEFINE c == handlers[h].call
<1>1. /\ handlers \in [Handlers -> Handler] /\ handlers[h] \in Handler
      /\ calls \in Seq(Call) /\ handlers[h].pc \in WaitPcs
  BY DEF LocalInv, TypeOK, GiveUp, At, WaitPcs
<1>2. c \in DOMAIN calls
  BY <1>1 DEF LocalInv, HandlerOK, CallKnown, WaitPcs
<1>3. \A k \in Handlers \ {h} : handlers'[k] = handlers[k]
  BY <1>1 DEF GiveUp, DatabaseBusy, Goto, Become
<1>4. handlers'[h].pc \notin WaitPcs
  <2>1. CASE GiveUp(h)
    BY <1>1, <2>1 DEF GiveUp, Goto, Become, Handler, WaitPcs
  <2>2. CASE DatabaseBusy(h)
    BY <1>1, <2>2 DEF DatabaseBusy, Become, Idle, WaitPcs
  <2> QED BY <2>1, <2>2
<1>5. Awaited' \subseteq Awaited /\ Awaited \subseteq Awaited' \cup {c} /\ c \in Awaited
  BY <1>1, <1>3, <1>4, AwaitedMoves
<1>6. /\ DOMAIN calls' = DOMAIN calls
      /\ calls'[c].state = calls[c].state /\ calls'[c].lost
      /\ \A d \in DOMAIN calls \ {c} : calls'[d] = calls[d]
  <2>1. calls' = [calls EXCEPT ![c] = [calls[c] EXCEPT !.lost = TRUE]]
    BY DEF GiveUp, DatabaseBusy
  <2>2. calls[c] \in Call
    BY <1>1, <1>2
  <2> HIDE DEF c
  <2>3. /\ DOMAIN calls' = DOMAIN calls
        /\ calls'[c] = [calls[c] EXCEPT !.lost = TRUE]
        /\ \A d \in DOMAIN calls \ {c} : calls'[d] = calls[d]
    BY <1>2, <2>1
  <2> QED
    BY <2>2, <2>3 DEF Call
<1> HIDE DEF c
<1>7. {c} \in SUBSET DOMAIN calls
  BY <1>2
<1> QED
  BY <1>5, <1>6, <1>7, Loses

LEMMA CrashTrades ==
    ASSUME LocalInv, OpenIsAwaited, Crash
    PROVE  Trade!Next /\ OpenIsAwaited'
<1>1. calls \in Seq(Call) /\ handlers \in [Handlers -> Handler]
  BY DEF LocalInv, TypeOK
<1>2. Awaited \subseteq DOMAIN calls
  BY DEF LocalInv, HandlerOK, CallKnown, Awaited
<1>3. Awaited' = {}
  <2>1. \A h \in Handlers : handlers'[h].pc = "idle"
    BY DEF Crash, Idle
  <2> QED
    BY <2>1 DEF Awaited
<1>4. calls' = [c \in DOMAIN calls |->
                  IF c \in Awaited THEN [calls[c] EXCEPT !.lost = TRUE] ELSE calls[c]]
  BY DEF Crash
<1>5. ASSUME NEW c \in Awaited PROVE calls'[c].state = calls[c].state /\ calls'[c].lost
  <2>1. calls[c] \in Call /\ calls'[c] = [calls[c] EXCEPT !.lost = TRUE]
    <3>1. c \in DOMAIN calls
      BY <1>2
    <3>2. calls[c] \in Call
      BY <1>1, <3>1
    <3> QED
      BY <1>4, <3>1, <3>2
  <2> QED
    BY <2>1 DEF Call
<1>6. DOMAIN calls' = DOMAIN calls /\ \A c \in DOMAIN calls \ Awaited : calls'[c] = calls[c]
  BY <1>4
<1>7. Awaited \in SUBSET DOMAIN calls
  BY <1>2
<1> QED
  BY <1>3, <1>5, <1>6, <1>7, Loses

\* An edit of the policy changes what threads see, not what they wait for.
LEMMA EditTrades ==
    ASSUME LocalInv, OpenIsAwaited, EditPolicy
    PROVE  Fates' = Fates /\ OpenIsAwaited'
<1>1. PICK p, detached : ChangePolicy(p, detached)
  BY DEF EditPolicy, RemoveAgent, Patch, AddAgent, HotReload
<1>2. ASSUME NEW h \in Handlers
      PROVE  handlers'[h].pc = handlers[h].pc /\ handlers'[h].call = handlers[h].call
  <2>1. handlers[h] \in Handler
    BY DEF LocalInv, TypeOK
  <2>2. PICK view, barred :
          handlers'[h] = [handlers[h] EXCEPT !.view = view, !.barred = barred]
    BY <1>1 DEF ChangePolicy
  <2> QED
    BY <2>1, <2>2 DEF Handler
<1>3. Awaited' = Awaited
  BY <1>2 DEF Awaited
<1>4. calls' = calls
  BY <1>1 DEF ChangePolicy
<1> QED
  BY <1>3, <1>4, SameFates

LEMMA StepTrades ==
    ASSUME LocalInv, OpenIsAwaited, [Next]_vars
    PROVE  [Trade!Next]_Fates /\ OpenIsAwaited'
<1>1. ASSUME NEW h \in Handlers, Begin(h) \/ Step(h)
      PROVE  [Trade!Next]_Fates /\ OpenIsAwaited'
  <2>1. CASE Send(h)
    BY <2>1, SendTrades
  <2>2. CASE Receive(h) \/ FinalizeApproved(h)
    BY <2>2, ReceiveTrades
  <2>3. CASE GiveUp(h) \/ (DatabaseBusy(h) /\ handlers[h].pc = "settled")
    BY <2>3, LoseTrades
  <2>4. CASE ~(\/ Send(h) \/ Receive(h) \/ GiveUp(h) \/ FinalizeApproved(h)
               \/ (DatabaseBusy(h) /\ handlers[h].pc = "settled"))
    BY <1>1, <2>4, ApartSteps, ApartTrades
  <2> QED
    BY <2>1, <2>2, <2>3, <2>4
<1>2. ASSUME NEW c \in DOMAIN calls, Answer(c) PROVE [Trade!Next]_Fates /\ OpenIsAwaited'
  BY <1>2, AnswerTrades
<1>3. CASE EditPolicy
  BY <1>3, EditTrades
<1>4. CASE Crash
  BY <1>4, CrashTrades
<1>5. CASE ResetLog \/ Restart \/ Tick \/ Rest \/ UNCHANGED vars
  <2>1. UNCHANGED <<calls, handlers>>
    BY <1>5 DEF ResetLog, Restart, Tick, Rest, vars, engineVars
  <2>2. Awaited' = Awaited
    BY <2>1 DEF Awaited
  <2> QED
    BY <2>1, <2>2, SameFates
<1> QED
  BY <1>1, <1>2, <1>3, <1>4, <1>5 DEF Next

\* Each call the engine sends is an exchange with the resource server
\* (_execute_payment): whoever reviews what, and whether the engine gives up or dies, it
\* acts on an outcome once, only after the call has ended, and as it ended, or never.
THEOREM EngineImplementsExchange == Spec => KeepsExchange
<1>1. Init => Trade!Init /\ OpenIsAwaited
  <2>1. Init => DOMAIN calls = {}
    BY DEF Init
  <2> QED
    BY <2>1 DEF Fates, Trade!Init, OpenIsAwaited
<1>2. LocalInv /\ OpenIsAwaited /\ [Next]_vars => [Trade!Next]_Fates /\ OpenIsAwaited'
  BY StepTrades
<1> QED
  BY <1>1, <1>2, LocalInvariant, PTL DEF Spec, KeepsExchange, Trade!Spec

----------------------------------------------------------------------------
(***************************************************************************)
(* Which reservations can be left behind.                                  *)
(***************************************************************************)
\* What a human is to decide, or is deciding, does not wait for its payment: only
\* a handler of /spend, or of a release, has a pending row to leave.
HeldRow(h) ==
    /\ handlers[h].kind \in {"approve", "reject"} \/ handlers[h].pc = "park"
    /\ handlers[h].row \in DOMAIN requests
    => requests[handlers[h].row].decision # "pending"

LeakInv ==
    /\ LocalInv
    /\ LeaksExplained
    /\ \A r \in DOMAIN requests : requests[r].decision = "pending" => requests[r].at <= clock
    /\ \A h \in Handlers : HeldRow(h)

\* A step of h: it inserts at most one pending row, which it keeps, and it leaves
\* its row only when that no longer waits, or as a dropped one.
Tidy(h) ==
    /\ UNCHANGED <<up, startedAt, clock>> /\ dropped \subseteq dropped'
    /\ \A k \in Handlers \ {h} : handlers'[k] = handlers[k]
    /\ \A r \in DOMAIN requests' : requests'[r].decision = "pending" =>
          \/ r \in DOMAIN requests /\ requests'[r] = requests[r]
          \/ r = lastId + 1 /\ requests'[r].at = clock /\ handlers'[h].row = r
    /\ handlers[h].row \in DOMAIN requests' =>
          \/ requests'[handlers[h].row].decision # "pending"
          \/ handlers'[h].row = handlers[h].row
          \/ handlers[h].row \in dropped'
    /\ HeldRow(h)'

LEMMA TidyKeeps ==
    ASSUME LeakInv, LocalInv', NEW h \in Handlers, Tidy(h)
    PROVE  LeakInv'
<1>1. /\ lastId \in Nat /\ DOMAIN requests \subseteq 1 .. lastId /\ clock \in Nat
      /\ \A k \in Handlers : handlers[k].row \in Nat /\ handlers[k].row <= lastId
  BY DEF LeakInv, LocalInv, TypeOK, StorageTypeOK, HandlerOK, Handler
<1>2. \A r \in DOMAIN requests' : requests'[r].decision = "pending" => requests'[r].at <= clock'
  BY <1>1 DEF Tidy, LeakInv
<1>3. ASSUME NEW k \in Handlers PROVE HeldRow(k)'
  <2>1. CASE k = h
    BY <2>1 DEF Tidy
  <2>2. CASE k # h
    <3>1. handlers'[k] = handlers[k] /\ handlers[k].row # lastId + 1
      BY <1>1, <2>2 DEF Tidy
    <3> QED BY <3>1 DEF Tidy, LeakInv, HeldRow
  <2> QED BY <2>1, <2>2
<1>4. ASSUME NEW r \in DOMAIN requests', up', Pending(r)'
      PROVE  \/ AtWork(r)'
             \/ r \in dropped'
             \/ startedAt' - OutboundTimeout < requests'[r].at /\ requests'[r].at <= startedAt'
  <2>1. requests'[r].decision = "pending"
    BY <1>4 DEF Pending
  <2>2. CASE handlers'[h].row = r
    BY <2>2 DEF AtWork
  <2>3. CASE handlers'[h].row # r
    <3>1. r \in DOMAIN requests /\ requests'[r] = requests[r]
      BY <2>1, <2>3 DEF Tidy
    <3>2. \/ AtWork(r)
          \/ r \in dropped
          \/ startedAt - OutboundTimeout < requests[r].at /\ requests[r].at <= startedAt
      BY <1>4, <2>1, <3>1 DEF LeakInv, LeaksExplained, Pending, Tidy
    <3>3. ASSUME NEW k \in Handlers, handlers[k].row = r PROVE AtWork(r)' \/ r \in dropped'
      <4>1. CASE k = h
        BY <2>1, <2>3, <3>3, <4>1 DEF Tidy
      <4>2. CASE k # h
        BY <3>3, <4>2 DEF Tidy, AtWork
      <4> QED BY <4>1, <4>2
    <3> QED BY <3>1, <3>2, <3>3 DEF Tidy, AtWork
  <2> QED BY <2>2, <2>3
<1>5. LeaksExplained'
  BY <1>4 DEF LeaksExplained
<1> QED BY <1>2, <1>3, <1>5 DEF LeakInv

\* A handler goes on with the row it has, as the kind it is.
LEMMA GoesOnTidily ==
    ASSUME LeakInv, NEW h \in Handlers,
           \/ CheckFrozen(h) \/ CheckAllowed(h) \/ BadParams(h) \/ CheckCeiling(h)
           \/ CheckThreshold(h) \/ ReadCaps(h) \/ Deny(h) \/ SetupFails(h)
           \/ CheckAgent(h) \/ Grant(h) \/ RecordRefusal(h)
           \/ Send(h) \/ Receive(h) \/ GiveUp(h)
    PROVE  Tidy(h)
<1>1. handlers \in [Handlers -> Handler] /\ handlers[h] \in Handler
  BY DEF LeakInv, LocalInv, TypeOK
<1> DEFINE SameRow == /\ handlers'[h].row = handlers[h].row
                      /\ handlers'[h].kind = handlers[h].kind /\ handlers'[h].pc # "park"
                      /\ \A k \in Handlers \ {h} : handlers'[k] = handlers[k]
<1>6. SameRow
  <2>1. CASE CheckFrozen(h) \/ CheckAllowed(h) \/ CheckCeiling(h)
    BY <1>1, <2>1 DEF CheckFrozen, CheckAllowed, CheckCeiling, Check, Refusal, Become, Handler
  <2>2. CASE \/ BadParams(h) \/ SetupFails(h) \/ Grant(h) \/ RecordRefusal(h)
             \/ Receive(h) \/ GiveUp(h)
    BY <1>1, <2>2 DEF BadParams, SetupFails, Grant, RecordRefusal, Receive, GiveUp, Goto,
       Become, Handler
  <2>3. CASE CheckThreshold(h)
    BY <1>1, <2>3 DEF CheckThreshold, Become, Handler
  <2>7. CASE Deny(h)
    BY <1>1, <2>7 DEF Deny, Become, Handler
  <2>5. CASE ReadCaps(h)
    BY <1>1, <2>5 DEF ReadCaps, Become, Handler
  <2>6. CASE CheckAgent(h)
    BY <1>1, <2>6 DEF CheckAgent, Become, Handler
  <2>4. CASE Send(h)
    BY <1>1, <2>4 DEF Send, Become, Handler
  <2> QED BY <2>1, <2>2, <2>3, <2>4, <2>5, <2>6, <2>7
<1>7. UNCHANGED <<requests, clock, up, startedAt, dropped>>
  BY DEF CheckFrozen, CheckAllowed, BadParams, CheckCeiling, CheckThreshold, ReadCaps, Deny,
     SetupFails, CheckAgent, Grant, RecordRefusal, Send, Receive, GiveUp, Check, storageVars, history
<1> HIDE DEF SameRow
<1>8. HeldRow(h)'
  <2>1. handlers[h].kind \in {"approve", "reject"} => HeldRow(h)'
    BY <1>6, <1>7 DEF LeakInv, HeldRow, SameRow
  <2> QED BY <1>6, <2>1 DEF HeldRow, SameRow
<1> QED BY <1>6, <1>7, <1>8 DEF Tidy, SameRow

\* A handler is done, with whatever row it had.
LEMMA EndsTidily ==
    ASSUME LeakInv, NEW h \in Handlers,
           \/ Park(h) \/ FinalizeApproved(h) \/ FinalizeDenied(h) \/ Log(h)
           \/ PaymentRaises(h) \/ DatabaseBusy(h) \/ EventLost(h)
    PROVE  Tidy(h)
<1>1. /\ handlers \in [Handlers -> Handler] /\ handlers[h] \in Handler
      /\ 0 \notin DOMAIN requests /\ lastId \in Nat /\ StorageTypeOK
      /\ HandlerOK(h) /\ HeldRow(h)
  BY DEF LeakInv, LocalInv, TypeOK, StorageTypeOK
<1>2. Become(h, Idle) /\ UNCHANGED <<up, startedAt>>
  BY DEF Park, FinalizeApproved, FinalizeDenied, Log, PaymentRaises, DatabaseBusy, EventLost
<1>3. handlers'[h] = Idle /\ \A k \in Handlers \ {h} : handlers'[k] = handlers[k]
  BY <1>1, <1>2 DEF Become
<1>4. HeldRow(h)'
  BY <1>3 DEF HeldRow, Idle
<1>5. CASE Park(h) \/ FinalizeApproved(h) \/ FinalizeDenied(h)
  <2>1. PICK d \in {"awaiting_approval", "approved", "denied"} : Finalize(handlers[h].row, d)
    BY <1>5 DEF Park, FinalizeApproved, FinalizeDenied
  <2>2. clock' = clock /\ dropped' = dropped
    BY <1>5, <2>1 DEF Park, FinalizeApproved, FinalizeDenied, Finalize, history
  <2>3. DOMAIN requests' = DOMAIN requests
    BY <2>1 DEF Finalize
  <2>4. ASSUME NEW r \in DOMAIN requests
        PROVE  requests'[r] = IF r = handlers[h].row THEN [requests[r] EXCEPT !.decision = d]
                                                     ELSE requests[r]
    BY <2>1 DEF Finalize
  <2>5. ASSUME NEW r \in DOMAIN requests, r = handlers[h].row
        PROVE  requests'[r].decision = d
    BY <1>1, <2>4, <2>5 DEF StorageTypeOK, Row
  <2> QED BY <1>2, <1>3, <1>4, <2>2, <2>3, <2>4, <2>5 DEF Tidy
<1>6. CASE Log(h)
  <2> DEFINE row == [agent |-> handlers[h].agent, amount |-> handlers[h].amount,
                     at |-> handlers[h].at, born |-> "denied", decision |-> "denied",
                     cap |-> 0, limit |-> NoLimit]
  <2>1. row \in Row /\ Insert(row) /\ row.decision = "denied"
    BY <1>6 DEF Log, LogRequest, LeakInv, LocalInv, TypeOK, HandlerOK, LocalOK, At, Handler, Row,
         Decisions, CapCounting, Limits
  <2> HIDE DEF row
  <2>2. /\ clock' = clock /\ DOMAIN requests' = DOMAIN requests \cup {lastId + 1}
        /\ requests'[lastId + 1] = row
        /\ \A r \in DOMAIN requests : requests'[r] = requests[r]
    BY <1>1, <2>1, InsertRows
  <2>3. handlers[h].row = 0 /\ dropped' = dropped
    BY <1>1, <1>6 DEF Log, At, HandlerOK, LocalOK, SpendPcs, history
  <2> QED BY <1>1, <1>2, <1>3, <1>4, <2>1, <2>2, <2>3 DEF Tidy
<1>7. CASE PaymentRaises(h)
  BY <1>2, <1>3, <1>4, <1>7 DEF PaymentRaises, storageVars, Tidy
<1>8. CASE EventLost(h)
  <2>1. handlers[h].row \in DOMAIN requests => requests[handlers[h].row].decision # "pending"
    BY <1>1, <1>8 DEF EventLost, At, HandlerOK, LocalOK, HeldRow
  <2> QED BY <1>2, <1>3, <1>4, <1>8, <2>1 DEF EventLost, storageVars, history, Tidy
<1>9. CASE DatabaseBusy(h)
  <2>1. /\ UNCHANGED <<requests, clock>> /\ dropped \subseteq dropped'
        /\ handlers[h].pc \in {"settled", "failed"} => handlers[h].row \in dropped'
    BY <1>9 DEF DatabaseBusy, storageVars
  <2>2. handlers[h].pc \in {"reserve", "log"} => handlers[h].row \notin DOMAIN requests
    BY <1>1 DEF HandlerOK, LocalOK, SpendPcs
  <2>3. /\ handlers[h].pc = "park" /\ handlers[h].row \in DOMAIN requests
        => requests[handlers[h].row].decision # "pending"
    BY <1>1 DEF HeldRow
  <2>4. handlers[h].pc \in {"reserve", "park", "log", "settled", "failed"}
    BY <1>9 DEF DatabaseBusy
  <2> QED BY <1>2, <1>3, <1>4, <2>1, <2>2, <2>3, <2>4 DEF Tidy
<1> QED BY <1>5, <1>6, <1>7, <1>8, <1>9

\* A handler begins, with no row or with one that a human is to decide.
LEMMA BeginsTidily ==
    ASSUME LeakInv, NEW h \in Handlers, Begin(h)
    PROVE  Tidy(h)
<1>1. /\ handlers \in [Handlers -> Handler] /\ handlers[h] \in Handler
      /\ 0 \notin DOMAIN requests /\ HandlerOK(h)
  BY DEF LeakInv, LocalInv, TypeOK, StorageTypeOK
<1>2. handlers[h].pc = "idle" => handlers[h].row = 0
  BY <1>1 DEF HandlerOK, LocalOK, Idle
<1>3. ASSUME NEW a \in Agents, NEW n \in Amounts, Spend(h, a, n) PROVE Tidy(h)
  <2>1. PICK ok \in BOOLEAN :
          handlers' = [handlers EXCEPT ![h] = [Idle EXCEPT
              !.kind = "spend", !.agent = a,
              !.amount = IF policy[a] = Absent THEN 0 ELSE n,
              !.view = IF policy[a] = Absent THEN Absent ELSE Live,
              !.pc = IF ok /\ policy[a] # Absent THEN "frozen" ELSE "deny",
              !.barred = Bars(policy[a])]]
    BY <1>3 DEF Spend, Become
  <2>2. /\ handlers'[h].row = 0 /\ handlers'[h].kind = "spend" /\ handlers'[h].pc # "park"
        /\ \A k \in Handlers \ {h} : handlers'[k] = handlers[k]
    BY <1>1, <2>1 DEF Idle
  <2>3. handlers[h].row = 0 /\ UNCHANGED <<requests, clock, up, startedAt, dropped>>
    BY <1>2, <1>3 DEF Spend, At, storageVars, history
  <2> QED BY <1>1, <2>2, <2>3 DEF Tidy, HeldRow
<1>4. ASSUME NEW r \in DOMAIN requests, NEW kind, NEW pc, Review(h, r, kind, pc), pc # "park"
      PROVE  Tidy(h)
  <2>1. /\ handlers'[h].row = r
        /\ \A k \in Handlers \ {h} : handlers'[k] = handlers[k]
    BY <1>1, <1>4 DEF Review, Become, Idle
  <2>2. /\ handlers[h].row = 0 /\ UNCHANGED <<requests, clock, up, startedAt, dropped>>
        /\ requests[r].decision = "awaiting_approval"
    BY <1>2, <1>4 DEF Review, At, storageVars
  <2> QED BY <1>1, <2>1, <2>2 DEF Tidy, HeldRow
<1> QED BY <1>3, <1>4 DEF Begin, Approve, RejectHold

LEMMA ReservesTidily ==
    ASSUME LeakInv, NEW h \in Handlers, Reserve(h)
    PROVE  Tidy(h)
<1>1. /\ handlers \in [Handlers -> Handler] /\ handlers[h] \in Handler
      /\ 0 \notin DOMAIN requests /\ lastId \in Nat /\ StorageTypeOK
  BY DEF LeakInv, LocalInv, TypeOK, StorageTypeOK
<1>2. /\ handlers[h].row = 0 /\ handlers[h].kind = "spend" /\ handlers[h].agent \in Agents
      /\ UNCHANGED <<up, startedAt, dropped>>
  BY DEF Reserve, At, LeakInv, LocalInv, HandlerOK, LocalOK, SpendPcs, history
<1>3. CASE Goto(h, "deny") /\ UNCHANGED storageVars
  <2>1. /\ handlers'[h].row = 0 /\ handlers'[h].kind = "spend" /\ handlers'[h].pc = "deny"
        /\ \A k \in Handlers \ {h} : handlers'[k] = handlers[k]
    BY <1>1, <1>2, <1>3 DEF Goto, Become, Handler
  <2> QED BY <1>1, <1>2, <1>3, <2>1 DEF Tidy, HeldRow, storageVars
<1>4. ASSUME NEW state \in Undecided,
             state = IF handlers[h].hold THEN "awaiting_approval" ELSE "pending",
             TryReserve(handlers[h].agent, handlers[h].amount, handlers[h].cap,
                        handlers[h].limit, state),
             Become(h, [handlers[h] EXCEPT !.pc = IF handlers[h].hold THEN "park" ELSE "setup",
                                           !.row = lastId'])
      PROVE  Tidy(h)
  <2> DEFINE row == [agent |-> handlers[h].agent, amount |-> handlers[h].amount, at |-> clock,
                     born |-> state, decision |-> state,
                     cap |-> handlers[h].cap, limit |-> handlers[h].limit]
  <2>1. row \in Row /\ Insert(row) /\ row.at = clock /\ row.decision = state
    BY <1>1, <1>2, <1>4 DEF TryReserve, StorageTypeOK, Handler, Row, Decisions, CapCounting,
       Limits, Undecided
  <2> HIDE DEF row
  <2>2. /\ clock' = clock /\ lastId' = lastId + 1
        /\ DOMAIN requests' = DOMAIN requests \cup {lastId + 1}
        /\ requests'[lastId + 1] = row
        /\ \A r \in DOMAIN requests : requests'[r] = requests[r]
    BY <1>1, <2>1, InsertRows
  <2>3. /\ handlers'[h].row = lastId + 1 /\ handlers'[h].kind = "spend"
        /\ handlers'[h].pc = IF handlers[h].hold THEN "park" ELSE "setup"
        /\ \A k \in Handlers \ {h} : handlers'[k] = handlers[k]
    BY <1>1, <1>2, <1>4, <2>2 DEF Become, Handler
  <2>4. HeldRow(h)'
    BY <1>4, <2>1, <2>2, <2>3 DEF HeldRow
  <2> QED BY <1>1, <1>2, <2>1, <2>2, <2>3, <2>4 DEF Tidy
<1>5. (IF handlers[h].hold THEN "awaiting_approval" ELSE "pending") \in Undecided
  BY DEF Undecided
<1> QED BY <1>3, <1>4, <1>5 DEF Reserve

\* No handler's step: rows stay as they are, or stop waiting, or go.
LEMMA WorldLeaks ==
    ASSUME LeakInv, LocalInv', up' => up, UNCHANGED <<startedAt, dropped>>, clock <= clock',
           \A r \in DOMAIN requests' : r \in DOMAIN requests /\ requests'[r] = requests[r],
           \A h \in Handlers : /\ handlers'[h].row = handlers[h].row
                               /\ handlers'[h].kind = handlers[h].kind
                               /\ handlers'[h].pc = handlers[h].pc
    PROVE  LeakInv'
<1>1. clock \in Nat /\ clock' \in Nat /\ \A r \in DOMAIN requests : requests[r].at \in Nat
  BY DEF LeakInv, LocalInv, TypeOK, StorageTypeOK, Row
<1>2. \A r \in DOMAIN requests' : requests'[r].decision = "pending" => requests'[r].at <= clock'
  BY <1>1 DEF LeakInv
<1>3. \A h \in Handlers : HeldRow(h)'
  BY DEF LeakInv, HeldRow
<1>4. \A r \in DOMAIN requests' : Pending(r)' => Pending(r)
  BY DEF Pending
<1>5. \A r : AtWork(r) => AtWork(r)'
  BY DEF AtWork
<1>6. LeaksExplained'
  BY <1>4, <1>5 DEF LeakInv, LeaksExplained
<1> QED BY <1>2, <1>3, <1>6 DEF LeakInv

LEMMA EditLeaks ==
    ASSUME LeakInv, LocalInv', EditPolicy
    PROVE  LeakInv'
<1>1. PICK p, detached : ChangePolicy(p, detached)
  BY DEF EditPolicy, RemoveAgent, Patch, AddAgent, HotReload
<1>2. ASSUME NEW h \in Handlers
      PROVE  /\ handlers'[h].row = handlers[h].row /\ handlers'[h].kind = handlers[h].kind
             /\ handlers'[h].pc = handlers[h].pc
  <2>1. handlers[h] \in Handler
    BY DEF LeakInv, LocalInv, TypeOK
  <2>2. PICK view, barred :
          handlers'[h] = [handlers[h] EXCEPT !.view = view, !.barred = barred]
    BY <1>1 DEF ChangePolicy
  <2> QED BY <2>1, <2>2 DEF Handler
<1>3. UNCHANGED <<requests, clock, up, startedAt, dropped>> /\ clock \in Nat
  BY <1>1 DEF ChangePolicy, storageVars, history, LeakInv, LocalInv, TypeOK, StorageTypeOK
<1> QED BY <1>2, <1>3, WorldLeaks

LEMMA CrashLeaks ==
    ASSUME LeakInv, LocalInv', Crash
    PROVE  LeakInv'
<1>1. ~up' /\ UNCHANGED <<requests, clock>> /\ \A h \in Handlers : handlers'[h] = Idle
  BY DEF Crash, storageVars
<1> QED BY <1>1 DEF LeakInv, LeaksExplained, HeldRow, Idle

LEMMA RestartLeaks ==
    ASSUME LeakInv, LocalInv', Restart
    PROVE  LeakInv'
<1>1. clock \in Nat /\ \A r \in DOMAIN requests : requests[r].at \in Nat /\ requests[r] \in Row
  BY DEF LeakInv, LocalInv, TypeOK, StorageTypeOK, Row
<1>2. startedAt' = clock /\ clock' = clock /\ handlers' = handlers
  BY DEF Restart, ReapStale
<1>3. /\ DOMAIN requests' = DOMAIN requests
      /\ \A r \in DOMAIN requests : requests'[r] = IF r \in Stale
                 THEN [requests[r] EXCEPT !.decision = "denied"] ELSE requests[r]
  BY DEF Restart, ReapStale
<1>4. ASSUME NEW r \in DOMAIN requests', requests'[r].decision = "pending"
      PROVE  requests'[r] = requests[r] /\ r \notin Stale
  <2>1. CASE r \in Stale
    BY <1>1, <1>3, <1>4, <2>1 DEF Row
  <2> QED BY <1>3, <2>1
<1>5. ASSUME NEW r \in DOMAIN requests', requests'[r].decision = "pending"
      PROVE  requests'[r].at <= clock' /\ clock - OutboundTimeout < requests'[r].at
  BY <1>1, <1>2, <1>3, <1>4, <1>5, StorageAssumption DEF Stale, LeakInv
<1>6. LeaksExplained'
  BY <1>2, <1>5 DEF LeaksExplained, Pending
<1>7. \A h \in Handlers : HeldRow(h)'
  BY <1>2, <1>3, <1>4 DEF HeldRow, LeakInv
<1> QED BY <1>5, <1>6, <1>7 DEF LeakInv

LEMMA NextKeepsLeaks ==
    ASSUME LeakInv, [Next]_vars
    PROVE  LeakInv'
<1>1. LocalInv'
  BY NextKeepsLocal, StutterKeepsLocal DEF LeakInv
<1>2. ASSUME NEW h \in Handlers, Begin(h) \/ Step(h) PROVE LeakInv'
  <2>1. Tidy(h)
    BY <1>2, BeginsTidily, ReservesTidily, EndsTidily, GoesOnTidily DEF Step
  <2> QED BY <1>1, <2>1, TidyKeeps
<1>3. ASSUME NEW c \in DOMAIN calls, Answer(c) PROVE LeakInv'
  <2>1. UNCHANGED <<requests, clock, handlers, up, startedAt, dropped>> /\ clock \in Nat
    BY <1>3 DEF Answer, storageVars, history, LeakInv, LocalInv, TypeOK, StorageTypeOK
  <2> QED BY <1>1, <2>1, WorldLeaks
<1>4. CASE EditPolicy \/ Crash \/ Restart
  BY <1>1, <1>4, EditLeaks, CrashLeaks, RestartLeaks
<1>5. CASE ResetLog
  <2>1. /\ UNCHANGED <<clock, handlers, up, startedAt, dropped>> /\ clock \in Nat
        /\ DOMAIN requests' = {}
    BY <1>5 DEF ResetLog, Reset, history, LeakInv, LocalInv, TypeOK, StorageTypeOK
  <2> QED BY <1>1, <2>1, WorldLeaks
<1>6. CASE Tick \/ Rest \/ UNCHANGED vars
  <2>1. /\ UNCHANGED <<requests, handlers, up, startedAt, dropped>> /\ clock \in Nat
        /\ clock' \in {clock, clock + 1}
    BY <1>6 DEF Tick, Rest, vars, engineVars, storageVars, history, LeakInv, LocalInv, TypeOK,
       StorageTypeOK
  <2>2. clock <= clock'
    BY <2>1
  <2> QED BY <1>1, <2>1, <2>2, WorldLeaks
<1> QED BY <1>2, <1>3, <1>4, <1>5, <1>6 DEF Next

\* A reservation that waits for its payment while nobody is at work on it was left
\* there by an exception that _execute_payment does not catch, or by a crash after
\* which the engine was back before reap_stale_reservations could take it for stale.
THEOREM LeaksAreExplained == Spec => []LeaksExplained
<1>1. Init => LeakInv
  <2>1. Init => LocalInv
    BY LocalInit
  <2>2. Init => DOMAIN requests = {} /\ \A h \in Handlers : handlers[h] = Idle
    BY DEF Init, StorageInit
  <2> QED BY <2>1, <2>2 DEF LeakInv, LeaksExplained, HeldRow, Idle
<1>2. LeakInv /\ [Next]_vars => LeakInv'
  BY NextKeepsLeaks
<1>3. LeakInv => LeaksExplained
  BY DEF LeakInv
<1> QED BY <1>1, <1>2, <1>3, PTL DEF Spec
=============================================================================
