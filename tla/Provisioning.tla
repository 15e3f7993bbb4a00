---------------------------- MODULE Provisioning ----------------------------
(***************************************************************************)
(* Onboarding an agent: create_agent and delete_agent of                   *)
(* policy_engine/app.py, and common/provisioning.py, which makes the       *)
(* agent's key and, in a thread of its own, has its account funded on the  *)
(* chain.  The chain and the node are external: a transaction that is sent *)
(* gets into a block, early or late, or never, and the agent spends what   *)
(* it has.                                                                 *)
(***************************************************************************)
EXTENDS Naturals, Sequences, FiniteSets

CONSTANTS
    Agents,
    Onboardings,       \* the requests to POST /admin/agents
    Nobody,            \* _accounts_lock is free
    NoKey,             \* the agent is not in accounts.json
    FundAlgo, FundUsdc,\* PROVISION_ALGO and PROVISION_USDC, in micro-units
    OptInFee,          \* what an opt-in costs the agent
    MaxDeletes, MaxSpends, MaxCrashes

ASSUME ProvisioningAssumption ==
    /\ Agents # {} /\ Nobody \notin Onboardings /\ NoKey \notin Nat
    /\ {FundAlgo, FundUsdc} \subseteq Nat \ {0}
    /\ {OptInFee, MaxDeletes, MaxSpends, MaxCrashes} \subseteq Nat

VARIABLES
    accounts,          \* accounts.json: agent -> its key
    accountsLock,      \* _accounts_lock
    registered,        \* the agents of policy.json
    status,            \* _status
    onboard,           \* onboarding -> the handler, then the thread it starts
    chain,             \* key -> what its account holds
    pool, landed,      \* transactions sent, and those in a block
    used               \* how much of each bound has been used

(***************************************************************************)
(* History, which no action reads: the keys that agents were told are      *)
(* theirs; the keys whose account a thread took for emptier than it was,   *)
(* or was to be; and the agents whose thread could not be started.         *)
(***************************************************************************)
VARIABLES given, misread, unstarted

vars == <<accounts, accountsLock, registered, status, onboard, chain, pool, landed,
          given, misread, unstarted, used>>

Assets == {"algo", "usdc"}

\* What an account needs, in the order in which provision sees to it.
Steps == <<"algo", "optin", "usdc">>

Needs == {"algo", "optin", "usdc"}

Fund(asset) == IF asset = "algo" THEN FundAlgo ELSE FundUsdc

\* Nine tenths of what would be sent, rounded down.
Enough(asset) == (Fund(asset) * 9) \div 10

EmptyAccount == [algo |-> 0, usdc |-> 0, optedIn |-> FALSE]

Meets(account, need) ==
    IF need = "optin" THEN account.optedIn ELSE account[need] >= Enough(need)

\* met is history: the needs that the account has met at some time since the
\* thread looked.
IdleJob == [pc |-> "idle", agent |-> CHOOSE a \in Agents : TRUE, read |-> << >>,
            key |-> NoKey, todo |-> {}, met |-> {}]

Goto(o, pc) == onboard' = [onboard EXCEPT ![o].pc = pc]

Close(o) == onboard' = [onboard EXCEPT ![o] = [IdleJob EXCEPT !.pc = "done"]]

OnChain == <<chain, pool, landed>>

told == <<given, misread, unstarted>>

----------------------------------------------------------------------------
(***************************************************************************)
(* ensure_account.                                                         *)
(***************************************************************************)
Ask(o, a) ==
    /\ onboard[o].pc = "idle"
    /\ onboard' = [onboard EXCEPT ![o].pc = "account", ![o].agent = a]
    /\ UNCHANGED <<accounts, accountsLock, registered, status, OnChain, told, used>>

\* Wrong: no lock.
TakeLock_Anyway(o) == UNCHANGED accountsLock

TakeLock(o) == accountsLock = Nobody /\ accountsLock' = o

\* _load, under the lock; the agent may have a key already.
LoadAccounts(o) ==
    /\ onboard[o].pc = "account"
    /\ TakeLock(o)
    /\ onboard' = [onboard EXCEPT ![o].pc = "ensure", ![o].read = accounts]
    /\ UNCHANGED <<accounts, registered, status, OnChain, told, used>>

\* Wrong: the test is the wrong way round.
Missing_Inverted(o) == onboard[o].read[onboard[o].agent] # NoKey

Missing(o) == onboard[o].read[onboard[o].agent] = NoKey

ReturnKey(o, key) ==
    /\ given' = given \cup {<<onboard[o].agent, key>>}
    /\ accountsLock' = Nobody
    /\ onboard' = [onboard EXCEPT ![o].pc = "register", ![o].read = << >>, ![o].key = key]

FindKey(o) ==
    /\ onboard[o].pc = "ensure" /\ ~Missing(o)
    /\ ReturnKey(o, onboard[o].read[onboard[o].agent])
    /\ UNCHANGED <<accounts, registered, status, OnChain, misread, unstarted, used>>

\* generate_account, and _save of what was read with the new key in it.
MakeKey(o) ==
    LET key == Len(chain) + 1 IN
    /\ onboard[o].pc = "ensure" /\ Missing(o)
    /\ chain' = Append(chain, EmptyAccount)
    /\ accounts' = [onboard[o].read EXCEPT ![onboard[o].agent] = key]
    /\ ReturnKey(o, key)
    /\ UNCHANGED <<registered, status, pool, landed, misread, unstarted, used>>

\* Reading or writing the file raised: 500.
EnsureFails(o) ==
    /\ onboard[o].pc = "ensure"
    /\ accountsLock' = Nobody
    /\ Close(o)
    /\ UNCHANGED <<accounts, registered, status, OnChain, told, used>>

----------------------------------------------------------------------------
(***************************************************************************)
(* The rest of create_agent, and delete_agent.                             *)
(***************************************************************************)
Register(o) ==
    /\ onboard[o].pc = "register" /\ onboard[o].agent \notin registered
    /\ registered' = registered \cup {onboard[o].agent}
    /\ Goto(o, "announce")
    /\ UNCHANGED <<accounts, accountsLock, status, OnChain, told, used>>

\* 409, or the file of policies cannot be written.
RegisterFails(o) ==
    /\ onboard[o].pc = "register"
    /\ Close(o)
    /\ UNCHANGED <<accounts, accountsLock, registered, status, OnChain, told, used>>

SetStatus(o, state) ==
    status' = [status EXCEPT ![onboard[o].agent] = [state |-> state, met |-> onboard[o].met]]

\* append_event, then provision_async.
StartFunding(o) ==
    /\ onboard[o].pc = "announce"
    /\ SetStatus(o, "funding")
    /\ unstarted' = unstarted \ {onboard[o].agent}
    /\ Goto(o, "balances")
    /\ UNCHANGED <<accounts, accountsLock, registered, OnChain, given, misread, used>>

\* Thread.start raised, after the status was set: a 500, and nobody sets it again.
StartFails(o) ==
    /\ onboard[o].pc = "announce"
    /\ SetStatus(o, "funding")
    /\ unstarted' = unstarted \cup {onboard[o].agent}
    /\ Close(o)
    /\ UNCHANGED <<accounts, accountsLock, registered, OnChain, given, misread, used>>

\* fund is false, or append_event raised: the agent stays as it is.
DoNotFund(o) ==
    /\ onboard[o].pc = "announce"
    /\ Close(o)
    /\ UNCHANGED <<accounts, accountsLock, registered, status, OnChain, told, used>>

\* Whatever is going on with the agent's account.
Delete(a) ==
    /\ a \in registered /\ used.deletes < MaxDeletes
    /\ registered' = registered \ {a}
    /\ used' = [used EXCEPT !.deletes = @ + 1]
    /\ UNCHANGED <<accounts, accountsLock, status, onboard, OnChain, told>>

----------------------------------------------------------------------------
(***************************************************************************)
(* provision, in its thread.                                               *)
(***************************************************************************)
\* Wrong: funded whatever it holds.
ToDo_Everything(account) == Needs

\* The steps that are not true already.
ToDo(account) == {need \in Needs : ~Meets(account, need)}

\* More may come to the account of a thread: something is on its way, or another
\* thread that has taken the balances may still send.
MoreToCome(o) ==
    \/ \E tx \in pool : tx.key = onboard[o].key
    \/ \E p \in Onboardings \ {o} : /\ onboard[p].key = onboard[o].key
                                   /\ onboard[p].pc \in {"send", "wait"}

\* _balances takes any failure for an account that does not exist.
ReadBalances(o) ==
    LET key == onboard[o].key IN
    /\ onboard[o].pc = "balances"
    /\ \E account \in {chain[key], EmptyAccount} :
          /\ onboard' = [onboard EXCEPT ![o].pc = "send", ![o].todo = ToDo(account),
                                        ![o].met = Needs \ ToDo(account)]
          /\ misread' = IF account # chain[key] \/ MoreToCome(o) THEN misread \cup {key}
                                                                ELSE misread
    /\ UNCHANGED <<accounts, accountsLock, registered, status, OnChain, given, unstarted, used>>

\* The first of the steps that are left.
NextStep(o) == Steps[CHOOSE i \in 1 .. 3 : /\ Steps[i] \in onboard[o].todo
                                          /\ \A j \in 1 .. i - 1 : Steps[j] \notin onboard[o].todo]

Tx(o) == [by |-> o, need |-> NextStep(o), key |-> onboard[o].key]

Send(o) ==
    /\ onboard[o].pc = "send" /\ onboard[o].todo # {}
    /\ pool' = pool \cup {Tx(o)}
    /\ SetStatus(o, "funding")
    /\ Goto(o, "wait")
    /\ UNCHANGED <<accounts, accountsLock, registered, chain, landed, told, used>>

\* The status is set once more, but after the last step.
NextNeed(o) ==
    /\ onboard' = [onboard EXCEPT ![o].pc = "send", ![o].todo = @ \ {NextStep(o)}]
    /\ IF NextStep(o) = "usdc" THEN UNCHANGED status ELSE SetStatus(o, "funding")

\* Wrong: the transaction is not waited for.
Confirm_NoWait(o) ==
    /\ onboard[o].pc = "wait"
    /\ NextNeed(o)
    /\ UNCHANGED <<accounts, accountsLock, registered, OnChain, told, used>>

Confirm(o) ==
    /\ onboard[o].pc = "wait" /\ Tx(o) \in landed
    /\ NextNeed(o)
    /\ UNCHANGED <<accounts, accountsLock, registered, OnChain, told, used>>

Ready(o) ==
    /\ onboard[o].pc = "send" /\ onboard[o].todo = {}
    /\ SetStatus(o, "ready")
    /\ Goto(o, "notify")
    /\ UNCHANGED <<accounts, accountsLock, registered, OnChain, told, used>>

\* Wrong: the exception ends the thread, and nobody hears of it.
Raise_Silently(o) ==
    /\ Close(o)
    /\ UNCHANGED <<accounts, accountsLock, registered, status, chain, landed, told, used>>

\* The except of run: what was sent stays sent.
Raise(o) ==
    /\ SetStatus(o, "failed")
    /\ Goto(o, "notifyFailure")
    /\ UNCHANGED <<accounts, accountsLock, registered, chain, landed, told, used>>

\* A file or a balance cannot be read, or a transaction cannot be sent; the node
\* may have taken it all the same.
ProvisionFails(o) ==
    /\ \/ onboard[o].pc = "balances" /\ UNCHANGED pool
       \/ /\ onboard[o].pc = "send" /\ onboard[o].todo # {}
          /\ pool' \in {pool, pool \cup {Tx(o)}}
    /\ Raise(o)

\* wait_for_confirmation gives up; the transaction may still get into a block.
NotConfirmed(o) ==
    /\ onboard[o].pc = "wait" /\ Tx(o) \notin landed
    /\ Raise(o) /\ UNCHANGED pool

\* on_done appends an event: the thread is through, or that raised too, after
\* which an agent that is ready is said to have failed.
Notify(o) ==
    /\ onboard[o].pc = "notify"
    /\ \/ /\ Close(o)
          /\ UNCHANGED <<accounts, accountsLock, registered, status, OnChain, told, used>>
       \/ Raise(o) /\ UNCHANGED pool

NotifyFailure(o) ==
    /\ onboard[o].pc = "notifyFailure"
    /\ Close(o)
    /\ UNCHANGED <<accounts, accountsLock, registered, status, OnChain, told, used>>

----------------------------------------------------------------------------
(***************************************************************************)
(* The chain.                                                              *)
(***************************************************************************)
Received(account, need) ==
    CASE need = "algo"  -> [account EXCEPT !.algo = @ + FundAlgo]
      [] need = "optin" -> [account EXCEPT !.algo = @ - OptInFee, !.optedIn = TRUE]
      [] need = "usdc"  -> [account EXCEPT !.usdc = @ + FundUsdc]

Accepts(account, need) ==
    CASE need = "algo"  -> TRUE
      [] need = "optin" -> account.algo >= OptInFee
      [] need = "usdc"  -> account.optedIn

\* The needs of a thread that its account has met by now.
NowMet(o, tx) ==
    IF onboard[o].key = tx.key /\ onboard[o].pc \in {"send", "wait"} THEN {tx.need} ELSE {}

Land(tx) ==
    /\ Accepts(chain[tx.key], tx.need)
    /\ chain' = [chain EXCEPT ![tx.key] = Received(@, tx.need)]
    /\ pool' = pool \ {tx} /\ landed' = landed \cup {tx}
    /\ onboard' = [o \in Onboardings |->
                     [onboard[o] EXCEPT !.met = @ \cup NowMet(o, tx)]]
    /\ UNCHANGED <<accounts, accountsLock, registered, status, told, used>>

\* A transaction is valid for so many rounds, and then no more.
Expire(tx) ==
    /\ pool' = pool \ {tx}
    /\ UNCHANGED <<accounts, accountsLock, registered, status, onboard, chain, landed,
                   told, used>>

Spend(key, asset) ==
    /\ chain[key][asset] > 0 /\ used.spends < MaxSpends
    /\ chain' = [chain EXCEPT ![key][asset] = @ - 1]
    /\ used' = [used EXCEPT !.spends = @ + 1]
    /\ UNCHANGED <<accounts, accountsLock, registered, status, onboard, pool, landed, told>>

----------------------------------------------------------------------------
NoStatus == [state |-> "none", met |-> {}]

\* The process dies: files, the chain and what was sent to it stay.
Crash ==
    /\ used.crashes < MaxCrashes
    /\ accountsLock' = Nobody
    /\ status' = [a \in Agents |-> NoStatus]
    /\ onboard' = [o \in Onboardings |-> IF onboard[o].pc = "idle" THEN IdleJob
                                         ELSE [IdleJob EXCEPT !.pc = "done"]]
    /\ unstarted' = {}
    /\ used' = [used EXCEPT !.crashes = @ + 1]
    /\ UNCHANGED <<accounts, registered, OnChain, given, misread>>

Rest ==
    /\ \A o \in Onboardings : onboard[o].pc = "done"
    /\ UNCHANGED vars

Init ==
    /\ accounts = [a \in Agents |-> NoKey]
    /\ accountsLock = Nobody
    /\ registered = {}
    /\ status = [a \in Agents |-> NoStatus]
    /\ onboard = [o \in Onboardings |-> IdleJob]
    /\ chain = << >>
    /\ pool = {} /\ landed = {}
    /\ given = {} /\ misread = {} /\ unstarted = {}
    /\ used = [deletes |-> 0, spends |-> 0, crashes |-> 0]

HandlerStep(o) ==
    \/ \E a \in Agents : Ask(o, a)
    \/ LoadAccounts(o) \/ FindKey(o) \/ MakeKey(o) \/ EnsureFails(o)
    \/ Register(o) \/ RegisterFails(o)
    \/ StartFunding(o) \/ StartFails(o) \/ DoNotFund(o)

\* What the thread does on its own once it has begun.
JobStep(o) ==
    \/ ReadBalances(o) \/ Send(o) \/ Confirm(o) \/ Ready(o)
    \/ ProvisionFails(o) \/ NotConfirmed(o) \/ Notify(o) \/ NotifyFailure(o)

ChainStep ==
    \/ \E tx \in pool : Land(tx) \/ Expire(tx)
    \/ \E key \in DOMAIN chain, asset \in Assets : Spend(key, asset)

Next ==
    \/ \E o \in Onboardings : HandlerStep(o) \/ JobStep(o)
    \/ \E a \in Agents : Delete(a)
    \/ ChainStep \/ Crash \/ Rest

Spec == Init /\ [][Next]_vars

\* The thread runs, and the node answers it, refuses it or drops the connection:
\* wait_for_confirmation gives up after six rounds.
FairSpec == Spec /\ \A o \in Onboardings : WF_vars(JobStep(o))

----------------------------------------------------------------------------
(***************************************************************************)
(* Properties.                                                             *)
(***************************************************************************)
Keys == DOMAIN chain

States == {"none", "funding", "ready", "failed"}

\* Every variable has its type.
ProvisioningTypeOK ==
    /\ accounts \in [Agents -> Keys \cup {NoKey}]
    /\ accountsLock \in Onboardings \cup {Nobody}
    /\ registered \subseteq Agents
    /\ status \in [Agents -> [state : States, met : SUBSET Needs]]
    /\ onboard \in [Onboardings ->
          [pc : {"idle", "account", "ensure", "register", "announce", "balances", "send",
                 "wait", "notify", "notifyFailure", "done"},
           agent : Agents, read : {<< >>} \cup [Agents -> Keys \cup {NoKey}],
           key : Keys \cup {NoKey}, todo : SUBSET Needs, met : SUBSET Needs]]
    /\ chain \in Seq([algo : Nat, usdc : Nat, optedIn : BOOLEAN])
    /\ pool \cup landed \subseteq [by : Onboardings, need : Needs, key : Keys]
    /\ given \subseteq Agents \X Keys /\ misread \subseteq Keys /\ unstarted \subseteq Agents
    /\ used \in [deletes : Nat, spends : Nat, crashes : Nat]

\* _accounts_lock: no onboarding drops the key that another one has saved, and
\* onboarding an agent again does not give it another: the funds of an account are
\* never stranded.
KeysKept == \A pair \in given : accounts[pair[1]] = pair[2]

\* "An agent that looks ready and then fails to pay": when an agent is said to be
\* ready, its account has held the fees, the opt-in and the working capital since
\* its funding began, however late or lost its transactions.
ReadyIsFunded == \A a \in Agents : status[a].state = "ready" => status[a].met = Needs

Coming(key, asset) == Cardinality({tx \in pool : tx.key = key /\ tx.need = asset})

\* "Every step is skipped if it's already true, so this is safe to re-run": no number
\* of onboardings, removals, failures and crashes takes more out of the treasury than
\* one top-up of an account that is just short, unless some thread could not read the
\* balances, or took them while more was to come.
NeverOverfunded ==
    \A key \in DOMAIN chain \ misread, asset \in Assets :
       chain[key][asset] + Coming(key, asset) * Fund(asset) < Enough(asset) + Fund(asset)

\* The state machine of _status: an agent does not stay in "funding", unless the
\* thread that was to fund it could not even be started.
StatusSettles ==
    \A a \in Agents :
       status[a].state = "funding" ~> status[a].state # "funding" \/ a \in unstarted
=============================================================================
