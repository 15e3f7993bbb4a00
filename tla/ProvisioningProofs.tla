------------------------- MODULE ProvisioningProofs -------------------------
(***************************************************************************)
(* Proofs about Provisioning, for any agents, onboardings and amounts:     *)
(* keys are kept, and who is said to be ready is funded, whatever is       *)
(* removed, lost or late.                                                  *)
(***************************************************************************)
EXTENDS Provisioning, SequenceTheorems, FiniteSetTheorems, TLAPS

Jobs == [pc : {"idle", "account", "ensure", "register", "announce", "balances", "send",
               "wait", "notify", "notifyFailure", "done"},
         agent : Agents, read : {<< >>} \cup [Agents -> Keys \cup {NoKey}],
         key : Keys \cup {NoKey}, todo : SUBSET Needs, met : SUBSET Needs]

Accounts == [algo : Nat, usdc : Nat, optedIn : BOOLEAN]

Txs == [by : Onboardings, need : Needs, key : Keys]

Keyed == {"register", "announce", "balances", "send", "wait"}

Funding == {"send", "wait"}

\* The holder of the lock has read what the file says.
ReadFits(o) == onboard[o].pc = "ensure" => accountsLock = o /\ onboard[o].read = accounts

KeyInHand(o) == onboard[o].pc \in Keyed => onboard[o].key \in Keys

\* What a thread has left to do and what the account has met is everything.
NothingSkipped(o) == onboard[o].pc \in Funding => Needs \subseteq onboard[o].todo \cup onboard[o].met

\* The transactions of a thread are for its account, and those that are in a block
\* are among what the account has met.
SentFits(o) ==
    \A tx \in pool \cup landed : tx.by = o =>
       /\ onboard[o].pc \in Funding \cup {"notify", "notifyFailure", "done"}
       /\ onboard[o].pc \in Funding =>
             tx.key = onboard[o].key /\ (tx \in landed => tx.need \in onboard[o].met)

JobFits(o) == ReadFits(o) /\ KeyInHand(o) /\ NothingSkipped(o) /\ SentFits(o)

FundInv ==
    /\ ProvisioningTypeOK /\ KeysKept /\ ReadyIsFunded
    /\ \A o \in Onboardings : JobFits(o)
----------------------------------------------------------------------------
LEMMA TypeMeans ==
    ProvisioningTypeOK <=>
        /\ accounts \in [Agents -> Keys \cup {NoKey}]
        /\ accountsLock \in Onboardings \cup {Nobody}
        /\ registered \subseteq Agents
        /\ status \in [Agents -> [state : States, met : SUBSET Needs]]
        /\ onboard \in [Onboardings -> Jobs]
        /\ chain \in Seq(Accounts)
        /\ pool \cup landed \subseteq Txs
        /\ given \subseteq Agents \X Keys /\ misread \subseteq Keys /\ unstarted \subseteq Agents
        /\ used \in [deletes : Nat, spends : Nat, crashes : Nat]
  BY DEF ProvisioningTypeOK, Jobs, Accounts, Txs

\* The pc of a job is changed, and nothing else in it.
LEMMA PcMoves ==
    ASSUME NEW job \in Jobs, NEW next,
           NEW pc \in {"idle", "account", "ensure", "register", "announce", "balances", "send",
                       "wait", "notify", "notifyFailure", "done"},
           next = [job EXCEPT !.pc = pc]
    PROVE  /\ next \in Jobs /\ next.pc = pc /\ next.key = job.key /\ next.todo = job.todo
           /\ next.met = job.met /\ next.agent = job.agent /\ next.read = job.read
  BY DEF Jobs

LEMMA IdleIsJob ==
    /\ IdleJob \in Jobs /\ IdleJob.pc = "idle"
    /\ [IdleJob EXCEPT !.pc = "done"] \in Jobs
    /\ [IdleJob EXCEPT !.pc = "done"].pc = "done"
<1>1. (CHOOSE a \in Agents : TRUE) \in Agents
  BY ProvisioningAssumption
<1>2. IdleJob \in Jobs
  BY <1>1, SMTT(30) DEF IdleJob, Jobs
<1> DEFINE rest == [IdleJob EXCEPT !.pc = "done"]
<1>3. rest \in Jobs /\ rest.pc = "done"
  BY <1>2, PcMoves
<1>4. IdleJob.pc = "idle"
  BY DEF IdleJob
<1> QED
  BY <1>2, <1>3, <1>4

\* One thread's step leaves the others as they fit.
LEMMA OthersFit ==
    ASSUME FundInv, NEW p \in Onboardings,
           onboard'[p] = onboard[p],
           onboard[p].pc = "ensure" => accountsLock' = accountsLock /\ accounts' = accounts,
           Keys \subseteq Keys',
           \A tx \in pool' \cup landed' : tx.by = p => tx \in pool \cup landed,
           \A tx \in landed' : tx.by = p => tx \in landed
    PROVE  JobFits(p)'
<1>1. JobFits(p)
  BY DEF FundInv
<1>2. ReadFits(p)' /\ KeyInHand(p)' /\ NothingSkipped(p)'
  BY <1>1 DEF JobFits, ReadFits, KeyInHand, NothingSkipped
<1>3. SentFits(p)'
  BY <1>1 DEF JobFits, SentFits
<1> QED
  BY <1>2, <1>3 DEF JobFits

LEMMA InitHolds == Init => FundInv
<1> SUFFICES ASSUME Init PROVE FundInv
  OBVIOUS
<1>1. NoStatus \in [state : States, met : SUBSET Needs] /\ NoStatus.state = "none"
  BY DEF NoStatus, States
<1>2. chain = << >> /\ chain \in Seq(Accounts)
  BY DEF Init
<1>3. ProvisioningTypeOK
  BY <1>1, <1>2, IdleIsJob, TypeMeans DEF Init
<1>4. \A o \in Onboardings : JobFits(o)
  BY IdleIsJob DEF Init, JobFits, ReadFits, KeyInHand, NothingSkipped, SentFits, Keyed, Funding
<1> QED
  BY <1>1, <1>3, <1>4 DEF FundInv, Init, KeysKept, ReadyIsFunded

Statuses == [Agents -> [state : States, met : SUBSET Needs]]

\* A step of one thread that leaves the accounts and the file alone.
LEMMA Moves ==
    ASSUME FundInv, NEW o \in Onboardings, NEW job \in Jobs,
           onboard' = [onboard EXCEPT ![o] = job],
           accountsLock' \in Onboardings \cup {Nobody},
           \A p \in Onboardings \ {o} : onboard[p].pc = "ensure" => accountsLock' = accountsLock,
           UNCHANGED <<accounts, chain, landed, given, used>>,
           registered' \subseteq Agents, misread' \subseteq Keys, unstarted' \subseteq Agents,
           status' \in Statuses,
           \A a \in Agents : status'[a].state = "ready" => status'[a].met = Needs,
           pool' \subseteq Txs,
           \A tx \in pool' : tx \in pool \/ tx.by = o,
           job.pc = "ensure" => accountsLock' = o /\ job.read = accounts,
           job.pc \in Keyed => job.key \in Keys,
           job.pc \in Funding => Needs \subseteq job.todo \cup job.met,
           \A tx \in pool' \cup landed : tx.by = o =>
              /\ job.pc \in Funding \cup {"notify", "notifyFailure", "done"}
              /\ job.pc \in Funding => tx.key = job.key /\ (tx \in landed => tx.need \in job.met)
    PROVE  FundInv'
<1>1. onboard \in [Onboardings -> Jobs] /\ Keys' = Keys /\ Jobs' = Jobs /\ Txs' = Txs
  BY TypeMeans DEF FundInv, Keys, Jobs, Txs
<1>2. onboard' \in [Onboardings -> Jobs] /\ onboard'[o] = job
  BY <1>1
<1>3. ProvisioningTypeOK'
  <2>1. ProvisioningTypeOK
    BY DEF FundInv
  <2>2. pool' \cup landed' \subseteq Txs
    BY <2>1, TypeMeans
  <2> QED
    BY <1>1, <1>2, <2>1, <2>2 DEF ProvisioningTypeOK, Jobs, Txs, Statuses
<1>4. JobFits(o)'
  BY <1>1, <1>2 DEF JobFits, ReadFits, KeyInHand, NothingSkipped, SentFits
<1>5. ASSUME NEW p \in Onboardings, p # o PROVE JobFits(p)'
  BY <1>1, <1>5, OthersFit
<1>6. KeysKept' /\ ReadyIsFunded'
  BY DEF FundInv, KeysKept, ReadyIsFunded
<1> QED
  BY <1>3, <1>4, <1>5, <1>6 DEF FundInv

\* A thread that goes on without a key, a transaction or a status.
LEMMA MovesOn ==
    ASSUME FundInv, NEW o \in Onboardings, NEW job \in Jobs,
           onboard' = [onboard EXCEPT ![o] = job],
           accountsLock' \in Onboardings \cup {Nobody},
           \A p \in Onboardings \ {o} : onboard[p].pc = "ensure" => accountsLock' = accountsLock,
           UNCHANGED <<accounts, status, chain, pool, landed, told, used>>,
           registered' \subseteq Agents,
           job.pc = "ensure" => accountsLock' = o /\ job.read = accounts,
           job.pc \in Keyed => job.key \in Keys,
           job.pc \in Funding => Needs \subseteq job.todo \cup job.met,
           \A tx \in pool \cup landed : tx.by = o =>
              /\ job.pc \in Funding \cup {"notify", "notifyFailure", "done"}
              /\ job.pc \in Funding => tx.key = job.key /\ (tx \in landed => tx.need \in job.met)
    PROVE  FundInv'
<1>1. status \in Statuses /\ pool \subseteq Txs /\ misread \subseteq Keys /\ unstarted \subseteq Agents
  BY TypeMeans DEF FundInv, Statuses
<1>2. \A a \in Agents : status[a].state = "ready" => status[a].met = Needs
  BY DEF FundInv, ReadyIsFunded
<1> QED
  BY <1>1, <1>2, Moves DEF told

LEMMA JobParts ==
    ASSUME FundInv, NEW o \in Onboardings
    PROVE  /\ onboard \in [Onboardings -> Jobs] /\ onboard[o] \in Jobs
           /\ onboard[o].agent \in Agents /\ onboard[o].todo \subseteq Needs
           /\ onboard[o].met \subseteq Needs /\ onboard[o].key \in Keys \cup {NoKey}
           /\ onboard[o].read \in {<< >>} \cup [Agents -> Keys \cup {NoKey}]
<1>1. onboard \in [Onboardings -> Jobs]
  BY TypeMeans DEF FundInv
<1>2. onboard[o] \in Jobs
  BY <1>1
<1> QED
  BY <1>1, <1>2 DEF Jobs

LEMMA AskKeeps ==
    ASSUME FundInv, NEW o \in Onboardings, NEW a \in Agents, Ask(o, a)
    PROVE  FundInv'
<1> DEFINE job == [onboard[o] EXCEPT !.pc = "account", !.agent = a]
<1>1. onboard' = [onboard EXCEPT ![o] = job]
  BY JobParts DEF Ask
<1>2. job \in Jobs /\ job.pc = "account"
  BY JobParts DEF Jobs
<1>3. \A tx \in pool \cup landed : tx.by # o
  BY DEF Ask, FundInv, JobFits, SentFits, Funding
<1> HIDE DEF job
<1> QED
  BY <1>1, <1>2, <1>3, MovesOn DEF Ask, OnChain, FundInv, ProvisioningTypeOK, Keyed, Funding

LEMMA LoadKeeps ==
    ASSUME FundInv, NEW o \in Onboardings, LoadAccounts(o)
    PROVE  FundInv'
<1> DEFINE job == [onboard[o] EXCEPT !.pc = "ensure", !.read = accounts]
<1>1. onboard' = [onboard EXCEPT ![o] = job]
  BY JobParts DEF LoadAccounts
<1>2. accounts \in [Agents -> Keys \cup {NoKey}]
  BY TypeMeans DEF FundInv
<1>3. job \in Jobs /\ job.pc = "ensure" /\ job.read = accounts
  BY <1>2, JobParts DEF Jobs
<1>4. \A tx \in pool \cup landed : tx.by # o
  BY DEF LoadAccounts, FundInv, JobFits, SentFits, Funding
<1>5. \A p \in Onboardings : onboard[p].pc # "ensure"
  BY ProvisioningAssumption DEF LoadAccounts, TakeLock, FundInv, JobFits, ReadFits
<1>6. /\ accountsLock' = o
      /\ UNCHANGED <<accounts, registered, status, chain, pool, landed, told, used>>
  BY DEF LoadAccounts, TakeLock, OnChain
<1>7. registered \subseteq Agents
  BY DEF FundInv, ProvisioningTypeOK
<1> HIDE DEF job
<1> QED
  BY <1>1, <1>3, <1>4, <1>5, <1>6, <1>7, MovesOn DEF Keyed, Funding

LEMMA CloseIs ==
    ASSUME FundInv, NEW o \in Onboardings, Close(o)
    PROVE  onboard' = [onboard EXCEPT ![o] = [IdleJob EXCEPT !.pc = "done"]]
  BY DEF Close

\* The request or the thread is through.
LEMMA CloseKeeps ==
    ASSUME FundInv, NEW o \in Onboardings, Close(o),
           accountsLock' \in Onboardings \cup {Nobody},
           \A p \in Onboardings \ {o} : onboard[p].pc = "ensure" => accountsLock' = accountsLock,
           UNCHANGED <<accounts, registered, status, chain, pool, landed, told, used>>
    PROVE  FundInv'
<1> DEFINE job == [IdleJob EXCEPT !.pc = "done"]
<1>1. job \in Jobs /\ job.pc = "done" /\ onboard' = [onboard EXCEPT ![o] = job]
  BY IdleIsJob DEF Close
<1> HIDE DEF job
<1> QED
  BY <1>1, MovesOn DEF FundInv, ProvisioningTypeOK, Keyed, Funding

LEMMA EnsureFailsKeeps ==
    ASSUME FundInv, NEW o \in Onboardings, EnsureFails(o)
    PROVE  FundInv'
<1>1. accountsLock = o
  BY DEF EnsureFails, FundInv, JobFits, ReadFits
<1>2. \A p \in Onboardings \ {o} : onboard[p].pc # "ensure"
  BY <1>1 DEF FundInv, JobFits, ReadFits
<1> QED
  BY <1>2, CloseKeeps DEF EnsureFails, OnChain

LEMMA QuietCloseKeeps ==
    ASSUME FundInv, NEW o \in Onboardings,
           \/ RegisterFails(o) \/ DoNotFund(o) \/ NotifyFailure(o)
    PROVE  FundInv'
<1>1. accountsLock \in Onboardings \cup {Nobody}
  BY DEF FundInv, ProvisioningTypeOK
<1> QED
  BY <1>1, CloseKeeps DEF RegisterFails, DoNotFund, NotifyFailure, OnChain

LEMMA RegisterKeeps ==
    ASSUME FundInv, NEW o \in Onboardings, Register(o)
    PROVE  FundInv'
<1> DEFINE job == [onboard[o] EXCEPT !.pc = "announce"]
<1>1. onboard' = [onboard EXCEPT ![o] = job]
  BY JobParts DEF Register, Goto
<1>2. job \in Jobs /\ job.pc = "announce" /\ job.key = onboard[o].key
  BY JobParts, PcMoves
<1>3. job.key \in Keys
  BY <1>2 DEF Register, FundInv, JobFits, KeyInHand, Keyed
<1>4. \A tx \in pool \cup landed : tx.by # o
  BY DEF Register, FundInv, JobFits, SentFits, Funding
<1> HIDE DEF job
<1>5. registered' \subseteq Agents /\ accountsLock \in Onboardings \cup {Nobody}
  BY JobParts DEF Register, FundInv, ProvisioningTypeOK
<1>6. UNCHANGED <<accounts, accountsLock, status, chain, pool, landed, told, used>>
  BY DEF Register, OnChain
<1> QED
  BY <1>1, <1>2, <1>3, <1>4, <1>5, <1>6, MovesOn DEF Funding

\* A status is set.
LEMMA StatusSet ==
    ASSUME FundInv, NEW o \in Onboardings, NEW state \in States, SetStatus(o, state),
           state = "ready" => onboard[o].met = Needs
    PROVE  /\ status' \in Statuses
           /\ \A a \in Agents : status'[a].state = "ready" => status'[a].met = Needs
<1> DEFINE entry == [state |-> state, met |-> onboard[o].met]
<1>1. status \in Statuses
  BY TypeMeans DEF FundInv, Statuses
<1>2. entry \in [state : States, met : SUBSET Needs]
  BY JobParts
<1>3. status' = [status EXCEPT ![onboard[o].agent] = entry]
  BY DEF SetStatus
<1>4. entry.state = "ready" => entry.met = Needs
  OBVIOUS
<1> HIDE DEF entry
<1> QED
  BY <1>1, <1>2, <1>3, <1>4, JobParts DEF FundInv, ReadyIsFunded, Statuses

LEMMA LockTyped ==
    ASSUME FundInv
    PROVE  /\ accountsLock \in Onboardings \cup {Nobody} /\ registered \subseteq Agents
           /\ pool \subseteq Txs /\ landed \subseteq Txs
           /\ misread \subseteq Keys /\ unstarted \subseteq Agents
  BY TypeMeans DEF FundInv

LEMMA ReadBalancesKeeps ==
    ASSUME FundInv, NEW o \in Onboardings, ReadBalances(o)
    PROVE  FundInv'
<1>1. PICK account \in {chain[onboard[o].key], EmptyAccount} :
          /\ onboard' = [onboard EXCEPT ![o].pc = "send", ![o].todo = ToDo(account),
                                        ![o].met = Needs \ ToDo(account)]
          /\ misread' \in {misread, misread \cup {onboard[o].key}}
  BY DEF ReadBalances
<1>2. ToDo(account) \subseteq Needs
  BY DEF ToDo
<1> DEFINE job == [onboard[o] EXCEPT !.pc = "send", !.todo = ToDo(account),
                                     !.met = Needs \ ToDo(account)]
<1>3. onboard' = [onboard EXCEPT ![o] = job]
  BY <1>1, JobParts
<1>4. /\ job \in Jobs /\ job.pc = "send" /\ job.key = onboard[o].key
      /\ job.todo = ToDo(account) /\ job.met = Needs \ ToDo(account)
  <2> DEFINE todo == ToDo(account)
  <2>1. todo \in SUBSET Needs /\ Needs \ todo \in SUBSET Needs
    BY <1>2
  <2> HIDE DEF todo
  <2>2. /\ [onboard[o] EXCEPT !.pc = "send", !.todo = todo, !.met = Needs \ todo] \in Jobs
        /\ [onboard[o] EXCEPT !.pc = "send", !.todo = todo, !.met = Needs \ todo].todo = todo
        /\ [onboard[o] EXCEPT !.pc = "send", !.todo = todo, !.met = Needs \ todo].met = Needs \ todo
        /\ [onboard[o] EXCEPT !.pc = "send", !.todo = todo, !.met = Needs \ todo].pc = "send"
        /\ [onboard[o] EXCEPT !.pc = "send", !.todo = todo, !.met = Needs \ todo].key = onboard[o].key
    BY <2>1, JobParts DEF Jobs
  <2> QED
    BY <2>2 DEF todo
<1>5. job.key \in Keys
  BY <1>4 DEF ReadBalances, FundInv, JobFits, KeyInHand, Keyed
<1>6. \A tx \in pool \cup landed : tx.by # o
  BY DEF ReadBalances, FundInv, JobFits, SentFits, Funding
<1>7. Needs \subseteq job.todo \cup job.met
  BY <1>4
<1> HIDE DEF job
<1>8. /\ status \in Statuses /\ \A a \in Agents : status[a].state = "ready" => status[a].met = Needs
      /\ misread' \subseteq Keys /\ unstarted \subseteq Agents
  BY <1>1, <1>4, <1>5, TypeMeans DEF FundInv, ReadyIsFunded, Statuses
<1>9. UNCHANGED <<accounts, accountsLock, registered, status, chain, pool, landed, given, unstarted, used>>
  BY DEF ReadBalances, OnChain
<1> QED
  BY <1>3, <1>4, <1>5, <1>6, <1>7, <1>8, <1>9, LockTyped, Moves DEF Funding, Keyed

LEMMA StartFundingKeeps ==
    ASSUME FundInv, NEW o \in Onboardings, StartFunding(o)
    PROVE  FundInv'
<1> DEFINE job == [onboard[o] EXCEPT !.pc = "balances"]
<1>1. onboard' = [onboard EXCEPT ![o] = job]
  BY JobParts DEF StartFunding, Goto
<1>2. job \in Jobs /\ job.pc = "balances" /\ job.key = onboard[o].key
  BY JobParts, PcMoves
<1>3. job.key \in Keys
  BY <1>2 DEF StartFunding, FundInv, JobFits, KeyInHand, Keyed
<1>4. \A tx \in pool \cup landed : tx.by # o
  BY DEF StartFunding, FundInv, JobFits, SentFits, Funding
<1>5. /\ status' \in Statuses
      /\ \A a \in Agents : status'[a].state = "ready" => status'[a].met = Needs
  BY StatusSet DEF StartFunding, States
<1>6. /\ UNCHANGED <<accounts, accountsLock, registered, chain, pool, landed, given, misread, used>>
      /\ unstarted' \subseteq Agents
  BY LockTyped DEF StartFunding, OnChain
<1> HIDE DEF job
<1> QED
  BY <1>1, <1>2, <1>3, <1>4, <1>5, <1>6, LockTyped, Moves DEF Funding

LEMMA StartFailsKeeps ==
    ASSUME FundInv, NEW o \in Onboardings, StartFails(o)
    PROVE  FundInv'
<1> DEFINE job == [IdleJob EXCEPT !.pc = "done"]
<1>1. job \in Jobs /\ job.pc = "done" /\ onboard' = [onboard EXCEPT ![o] = job]
  BY IdleIsJob DEF StartFails, Close
<1> HIDE DEF job
<1>2. /\ status' \in Statuses
      /\ \A a \in Agents : status'[a].state = "ready" => status'[a].met = Needs
  BY StatusSet DEF StartFails, States
<1>3. /\ UNCHANGED <<accounts, accountsLock, registered, chain, pool, landed, given, misread, used>>
      /\ unstarted' \subseteq Agents
  BY LockTyped, JobParts DEF StartFails, OnChain
<1> QED
  BY <1>1, <1>2, <1>3, LockTyped, Moves DEF Funding, Keyed

LEMMA NextStepNeeded ==
    ASSUME FundInv, NEW o \in Onboardings, onboard[o].todo # {}
    PROVE  NextStep(o) \in onboard[o].todo /\ NextStep(o) \in Needs
<1> DEFINE First(i) == /\ Steps[i] \in onboard[o].todo
                       /\ \A j \in 1 .. i - 1 : Steps[j] \notin onboard[o].todo
<1>1. Steps[1] = "algo" /\ Steps[2] = "optin" /\ Steps[3] = "usdc"
  BY DEF Steps
<1>2. \E i \in 1 .. 3 : First(i)
  <2>1. CASE "algo" \in onboard[o].todo
    BY <2>1, <1>1, First(1)
  <2>2. CASE "algo" \notin onboard[o].todo /\ "optin" \in onboard[o].todo
    <3>1. First(2)
      BY <2>2, <1>1
    <3> QED
      BY <3>1
  <2>3. CASE "algo" \notin onboard[o].todo /\ "optin" \notin onboard[o].todo
    <3>1. "usdc" \in onboard[o].todo
      BY <2>3, JobParts DEF Needs
    <3>2. First(3)
      BY <2>3, <3>1, <1>1
    <3> QED
      BY <3>2
  <2> QED
    BY <2>1, <2>2, <2>3
<1>3. NextStep(o) = Steps[CHOOSE i \in 1 .. 3 : First(i)]
  BY DEF NextStep
<1>4. First(CHOOSE i \in 1 .. 3 : First(i))
  BY <1>2
<1> QED
  BY <1>3, <1>4, JobParts

LEMMA TxTyped ==
    ASSUME FundInv, NEW o \in Onboardings, onboard[o].pc \in Funding, onboard[o].todo # {}
    PROVE  Tx(o) \in Txs /\ Tx(o).by = o /\ Tx(o).key = onboard[o].key
<1>1. onboard[o].key \in Keys
  BY DEF FundInv, JobFits, KeyInHand, Keyed, Funding
<1> QED
  BY <1>1, NextStepNeeded DEF Tx, Txs

LEMMA SendKeeps ==
    ASSUME FundInv, NEW o \in Onboardings, Send(o)
    PROVE  FundInv'
<1> DEFINE job == [onboard[o] EXCEPT !.pc = "wait"]
<1>1. onboard' = [onboard EXCEPT ![o] = job]
  BY JobParts DEF Send, Goto
<1>2. /\ job \in Jobs /\ job.pc = "wait" /\ job.key = onboard[o].key
      /\ job.todo = onboard[o].todo /\ job.met = onboard[o].met
  BY JobParts, PcMoves
<1>3. job.key \in Keys /\ Needs \subseteq job.todo \cup job.met
  BY <1>2 DEF Send, FundInv, JobFits, KeyInHand, NothingSkipped, Keyed, Funding
<1> HIDE DEF job
<1>4. Tx(o) \in Txs /\ Tx(o).by = o /\ Tx(o).key = onboard[o].key
  BY TxTyped DEF Send, Funding
<1>5. /\ pool' = pool \cup {Tx(o)}
      /\ UNCHANGED <<accounts, accountsLock, registered, chain, landed, told, used>>
  BY DEF Send
<1>6. SentFits(o)
  BY DEF FundInv, JobFits
<1>7. \A tx \in pool' \cup landed : tx.by = o =>
         tx.key = job.key /\ (tx \in landed => tx.need \in job.met)
  <2> SUFFICES ASSUME NEW tx \in pool' \cup landed, tx.by = o
               PROVE  tx.key = job.key /\ (tx \in landed => tx.need \in job.met)
    OBVIOUS
  <2>1. CASE tx \in pool \cup landed
    BY <2>1, <1>2, <1>6 DEF SentFits, Send, Funding
  <2>2. CASE tx = Tx(o) /\ tx \notin landed
    BY <2>2, <1>2, <1>4
  <2> QED
    BY <2>1, <2>2, <1>5
<1>8. /\ status' \in Statuses
      /\ \A a \in Agents : status'[a].state = "ready" => status'[a].met = Needs
  BY StatusSet DEF Send, States
<1> QED
  BY <1>1, <1>2, <1>3, <1>4, <1>5, <1>7, <1>8, LockTyped, Moves DEF Funding, told

LEMMA ConfirmKeeps ==
    ASSUME FundInv, NEW o \in Onboardings, Confirm(o)
    PROVE  FundInv'
<1> DEFINE rest == onboard[o].todo \ {NextStep(o)}
           job == [onboard[o] EXCEPT !.pc = "send", !.todo = rest]
<1>1. onboard' = [onboard EXCEPT ![o] = job]
  BY JobParts DEF Confirm, NextNeed
<1>2. rest \in SUBSET Needs
  BY JobParts
<1>3. NextStep(o) \in onboard[o].met /\ Needs \subseteq rest \cup onboard[o].met
  <2>1. Tx(o) \in landed /\ Tx(o).by = o /\ Tx(o).need = NextStep(o) /\ onboard[o].pc = "wait"
    BY DEF Confirm, Tx
  <2>2. SentFits(o) /\ NothingSkipped(o)
    BY DEF FundInv, JobFits
  <2>3. NextStep(o) \in onboard[o].met
    BY <2>1, <2>2 DEF SentFits, Funding
  <2> QED
    BY <2>1, <2>2, <2>3 DEF NothingSkipped, Funding
<1> HIDE DEF rest
<1>4. /\ job \in Jobs /\ job.pc = "send" /\ job.key = onboard[o].key
      /\ job.todo = rest /\ job.met = onboard[o].met
  BY <1>2, JobParts DEF Jobs
<1> HIDE DEF job
<1>5. job.key \in Keys
  BY <1>4 DEF Confirm, FundInv, JobFits, KeyInHand, Keyed
<1>6. \A tx \in pool \cup landed : tx.by = o =>
         tx.key = job.key /\ (tx \in landed => tx.need \in job.met)
  BY <1>4 DEF Confirm, FundInv, JobFits, SentFits, Funding
<1>7. UNCHANGED <<accounts, accountsLock, registered, chain, pool, landed, told, used>>
  BY DEF Confirm, OnChain
<1>8. /\ status' \in Statuses
      /\ \A a \in Agents : status'[a].state = "ready" => status'[a].met = Needs
  <2>1. CASE UNCHANGED status
    BY <2>1, TypeMeans DEF FundInv, ReadyIsFunded, Statuses
  <2>2. CASE SetStatus(o, "funding")
    BY <2>2, StatusSet DEF States
  <2> QED
    BY <2>1, <2>2 DEF Confirm, NextNeed
<1> QED
  BY <1>1, <1>3, <1>4, <1>5, <1>6, <1>7, <1>8, LockTyped, Moves DEF Funding, told

LEMMA ReadyKeeps ==
    ASSUME FundInv, NEW o \in Onboardings, Ready(o)
    PROVE  FundInv'
<1> DEFINE job == [onboard[o] EXCEPT !.pc = "notify"]
<1>1. onboard' = [onboard EXCEPT ![o] = job]
  BY JobParts DEF Ready, Goto
<1>2. job \in Jobs /\ job.pc = "notify"
  BY JobParts, PcMoves
<1> HIDE DEF job
<1>3. onboard[o].met = Needs
  BY JobParts DEF Ready, FundInv, JobFits, NothingSkipped, Funding
<1>4. /\ status' \in Statuses
      /\ \A a \in Agents : status'[a].state = "ready" => status'[a].met = Needs
  BY <1>3, StatusSet DEF Ready, States
<1>5. UNCHANGED <<accounts, accountsLock, registered, chain, pool, landed, told, used>>
  BY DEF Ready, OnChain
<1> QED
  BY <1>1, <1>2, <1>4, <1>5, LockTyped, Moves DEF Funding, Keyed, told

\* An exception: at most one more transaction has been sent.
LEMMA RaiseKeeps ==
    ASSUME FundInv, NEW o \in Onboardings, Raise(o),
           onboard[o].pc \in {"balances", "send", "wait", "notify"},
           pool' \subseteq Txs, \A tx \in pool' : tx \in pool \/ tx.by = o
    PROVE  FundInv'
<1> DEFINE job == [onboard[o] EXCEPT !.pc = "notifyFailure"]
<1>1. onboard' = [onboard EXCEPT ![o] = job]
  BY JobParts DEF Raise, Goto
<1>2. job \in Jobs /\ job.pc = "notifyFailure"
  BY JobParts, PcMoves
<1> HIDE DEF job
<1>3. /\ status' \in Statuses
      /\ \A a \in Agents : status'[a].state = "ready" => status'[a].met = Needs
  BY StatusSet DEF Raise, States
<1>4. UNCHANGED <<accounts, accountsLock, registered, chain, landed, told, used>>
  BY DEF Raise
<1> QED
  BY <1>1, <1>2, <1>3, <1>4, LockTyped, Moves DEF Funding, Keyed, told

LEMMA FailuresKeep ==
    ASSUME FundInv, NEW o \in Onboardings,
           ProvisionFails(o) \/ NotConfirmed(o) \/ Notify(o)
    PROVE  FundInv'
<1>1. CASE ProvisionFails(o)
  <2>1. CASE onboard[o].pc = "balances" /\ UNCHANGED pool
    BY <1>1, <2>1, RaiseKeeps, LockTyped DEF ProvisionFails
  <2>2. CASE onboard[o].pc = "send" /\ onboard[o].todo # {} /\ pool' \in {pool, pool \cup {Tx(o)}}
    BY <1>1, <2>2, RaiseKeeps, LockTyped, TxTyped DEF ProvisionFails, Funding
  <2> QED
    BY <1>1, <2>1, <2>2 DEF ProvisionFails
<1>2. CASE NotConfirmed(o)
  BY <1>2, RaiseKeeps, LockTyped DEF NotConfirmed
<1>3. CASE Notify(o)
  <2>1. CASE Close(o) /\ UNCHANGED <<accounts, accountsLock, registered, status, OnChain, told, used>>
    BY <2>1, CloseKeeps, LockTyped DEF OnChain
  <2>2. CASE Raise(o) /\ UNCHANGED pool
    BY <1>3, <2>2, RaiseKeeps, LockTyped DEF Notify
  <2> QED
    BY <1>3, <2>1, <2>2 DEF Notify
<1> QED
  BY <1>1, <1>2, <1>3

\* A key that the file has, or has now, is handed out, and the lock given back.
LEMMA ReturnKeeps ==
    ASSUME FundInv, NEW o \in Onboardings, onboard[o].pc = "ensure", NEW key \in Keys',
           ReturnKey(o, key), Keys \subseteq Keys', chain' \in Seq(Accounts),
           accounts' \in [Agents -> Keys' \cup {NoKey}], accounts'[onboard[o].agent] = key,
           \A pair \in given : accounts'[pair[1]] = pair[2],
           UNCHANGED <<registered, status, pool, landed, misread, unstarted, used>>
    PROVE  FundInv'
<1> DEFINE job == [onboard[o] EXCEPT !.pc = "register", !.read = << >>, !.key = key]
<1>1. onboard' = [onboard EXCEPT ![o] = job] /\ accountsLock' = Nobody
  BY JobParts DEF ReturnKey
<1>2. job \in Jobs' /\ job.pc = "register" /\ job.key = key
  BY JobParts DEF Jobs
<1> HIDE DEF job
<1>3. onboard' \in [Onboardings -> Jobs'] /\ onboard'[o] = job
  <2>1. \A p \in Onboardings : onboard[p] \in Jobs'
    <3> SUFFICES ASSUME NEW p \in Onboardings PROVE onboard[p] \in Jobs'
      OBVIOUS
    <3>1. onboard[p].read \in {<< >>} \cup [Agents -> Keys' \cup {NoKey}]
      <4>1. onboard[p].read \in {<< >>} \cup [Agents -> Keys \cup {NoKey}]
        BY JobParts
      <4> QED
        BY <4>1
    <3> QED
      BY <3>1, JobParts DEF Jobs
  <2> QED
    BY <1>1, <1>2, <2>1, JobParts
<1>4. given' = given \cup {<<onboard[o].agent, key>>}
  BY DEF ReturnKey
<1>5. given' \subseteq Agents \X Keys'
  <2>1. given \subseteq Agents \X Keys
    BY TypeMeans DEF FundInv
  <2> QED
    BY <1>4, <2>1, JobParts
<1>6. ProvisioningTypeOK'
  <2>1. pool' \cup landed' \subseteq Txs'
    BY LockTyped DEF Txs
  <2>2. ProvisioningTypeOK
    BY DEF FundInv
  <2> HIDE DEF Keys
  <2>3. registered' \subseteq Agents /\ used' \in [deletes : Nat, spends : Nat, crashes : Nat]
        /\ status' \in [Agents -> [state : States, met : SUBSET Needs]]
        /\ accountsLock' \in Onboardings \cup {Nobody}
    BY <1>1, <2>2, TypeMeans
  <2>4. onboard' \in [Onboardings ->
          [pc : {"idle", "account", "ensure", "register", "announce", "balances", "send",
                 "wait", "notify", "notifyFailure", "done"},
           agent : Agents, read : {<< >>} \cup [Agents -> Keys' \cup {NoKey}],
           key : Keys' \cup {NoKey}, todo : SUBSET Needs, met : SUBSET Needs]]
    BY <1>3 DEF Jobs
  <2>5. chain' \in Seq([algo : Nat, usdc : Nat, optedIn : BOOLEAN])
    BY DEF Accounts
  <2>6. misread' \subseteq Keys' /\ unstarted' \subseteq Agents
    BY LockTyped
  <2> QED
    BY <1>5, <2>1, <2>3, <2>4, <2>5, <2>6 DEF ProvisioningTypeOK, Txs
<1>7. KeysKept'
  <2>1. ASSUME NEW pair \in given' PROVE accounts'[pair[1]] = pair[2]
    BY <1>4, <2>1
  <2> QED
    BY <2>1 DEF KeysKept
<1>8. JobFits(o)'
  <2>1. \A tx \in pool \cup landed : tx.by # o
    BY DEF FundInv, JobFits, SentFits, Funding
  <2> QED
    BY <1>2, <1>3, <2>1 DEF JobFits, ReadFits, KeyInHand, NothingSkipped, SentFits, Funding
<1>9. ASSUME NEW p \in Onboardings, p # o PROVE JobFits(p)'
  <2>1. onboard[p].pc # "ensure"
    BY <1>9 DEF FundInv, JobFits, ReadFits
  <2>2. onboard'[p] = onboard[p]
    BY <1>1, <1>9, JobParts
  <2> QED
    BY <2>1, <2>2, OthersFit
<1> QED
  BY <1>6, <1>7, <1>8, <1>9 DEF FundInv, ReadyIsFunded

LEMMA FindKeyKeeps ==
    ASSUME FundInv, NEW o \in Onboardings, FindKey(o)
    PROVE  FundInv'
<1> DEFINE key == accounts[onboard[o].agent]
<1>1. onboard[o].read = accounts /\ onboard[o].pc = "ensure"
  BY DEF FindKey, FundInv, JobFits, ReadFits
<1>2. accounts \in [Agents -> Keys \cup {NoKey}] /\ chain \in Seq(Accounts)
  BY TypeMeans DEF FundInv
<1>3. key \in Keys /\ ReturnKey(o, key) /\ Keys' = Keys
      /\ UNCHANGED <<accounts, registered, status, chain, pool, landed, misread, unstarted, used>>
  BY <1>1, <1>2, JobParts DEF FindKey, Missing, OnChain, Keys
<1>4. \A pair \in given : accounts[pair[1]] = pair[2]
  BY DEF FundInv, KeysKept
<1> QED
  BY <1>1, <1>2, <1>3, <1>4, ReturnKeeps

LEMMA MakeKeyKeeps ==
    ASSUME FundInv, NEW o \in Onboardings, MakeKey(o)
    PROVE  FundInv'
<1> DEFINE key == Len(chain) + 1
<1>1. onboard[o].read = accounts /\ onboard[o].pc = "ensure" /\ accounts[onboard[o].agent] = NoKey
  BY DEF MakeKey, Missing, FundInv, JobFits, ReadFits
<1>2. accounts \in [Agents -> Keys \cup {NoKey}] /\ chain \in Seq(Accounts)
      /\ given \subseteq Agents \X Keys
  BY TypeMeans DEF FundInv
<1>3. EmptyAccount \in Accounts
  BY DEF EmptyAccount, Accounts
<1>4. /\ chain' = Append(chain, EmptyAccount) /\ ReturnKey(o, key)
      /\ accounts' = [accounts EXCEPT ![onboard[o].agent] = key]
      /\ UNCHANGED <<registered, status, pool, landed, misread, unstarted, used>>
  BY <1>1 DEF MakeKey
<1>5. chain' \in Seq(Accounts) /\ Keys \subseteq Keys' /\ key \in Keys'
  BY <1>2, <1>3, <1>4, AppendProperties DEF Keys
<1>6. NoKey \notin Keys
  BY <1>2, ProvisioningAssumption DEF Keys
<1>7. \A pair \in given : accounts'[pair[1]] = pair[2]
  <2> SUFFICES ASSUME NEW pair \in given PROVE accounts'[pair[1]] = pair[2]
    OBVIOUS
  <2>1. accounts[pair[1]] = pair[2] /\ pair[1] \in Agents /\ pair[2] \in Keys
    BY <1>2 DEF FundInv, KeysKept
  <2> QED
    BY <1>1, <1>2, <1>4, <1>6, <2>1, JobParts
<1>8. accounts' \in [Agents -> Keys' \cup {NoKey}] /\ accounts'[onboard[o].agent] = key
  BY <1>2, <1>4, <1>5, JobParts
<1> HIDE DEF key
<1> QED
  BY <1>1, <1>4, <1>5, <1>7, <1>8, ReturnKeeps

\* What a transaction makes of an account that accepts it is an account.
LEMMA ReceivedTyped ==
    ASSUME NEW account \in Accounts, NEW need \in Needs, Accepts(account, need)
    PROVE  Received(account, need) \in Accounts
<1>1. CASE need = "algo"
  BY <1>1, ProvisioningAssumption DEF Received, Accounts
<1>2. CASE need = "optin"
  <2>1. account.algo - OptInFee \in Nat
    BY <1>2, ProvisioningAssumption DEF Accepts, Accounts
  <2> QED
    BY <1>2, <2>1 DEF Received, Accounts
<1>3. CASE need = "usdc"
  BY <1>3, ProvisioningAssumption DEF Received, Accounts
<1> QED
  BY <1>1, <1>2, <1>3 DEF Needs

\* The chain changes an account.
LEMMA AccountSet ==
    ASSUME FundInv, NEW key \in Keys, NEW account \in Accounts,
           chain' = [chain EXCEPT ![key] = account]
    PROVE  chain' \in Seq(Accounts) /\ Keys' = Keys /\ chain'[key] = account
           /\ \A k \in Keys \ {key} : chain'[k] = chain[k]
<1>1. chain \in Seq(Accounts)
  BY TypeMeans DEF FundInv
<1>2. chain \in [1 .. Len(chain) -> Accounts] /\ Len(chain) \in Nat /\ Keys = 1 .. Len(chain)
  BY <1>1 DEF Keys
<1>3. chain' \in [1 .. Len(chain) -> Accounts]
  BY <1>2
<1>4. chain' \in Seq(Accounts)
  BY <1>2, <1>3, SeqDef
<1> QED
  BY <1>2, <1>3, <1>4 DEF Keys

LEMMA LandKeeps ==
    ASSUME FundInv, NEW tx \in pool, Land(tx)
    PROVE  FundInv'
<1>1. tx \in Txs /\ tx.key \in Keys /\ tx.need \in Needs
  BY LockTyped DEF Txs
<1>2. chain[tx.key] \in Accounts
  BY <1>1, TypeMeans DEF FundInv, Keys
<1>3. chain' = [chain EXCEPT ![tx.key] = Received(chain[tx.key], tx.need)]
  BY DEF Land
<1>4. Received(chain[tx.key], tx.need) \in Accounts
  BY <1>1, <1>2, ReceivedTyped DEF Land
<1>5. chain' \in Seq(Accounts) /\ Keys' = Keys
  BY <1>1, <1>3, <1>4, AccountSet
<1>6. /\ pool' = pool \ {tx} /\ landed' = landed \cup {tx}
      /\ UNCHANGED <<accounts, accountsLock, registered, status, given, misread, unstarted, used>>
  BY DEF Land, told
<1>7. ASSUME NEW o \in Onboardings
      PROVE  /\ onboard'[o] \in Jobs /\ onboard'[o].pc = onboard[o].pc
             /\ onboard'[o].key = onboard[o].key /\ onboard'[o].todo = onboard[o].todo
             /\ onboard'[o].read = onboard[o].read
             /\ onboard'[o].met = onboard[o].met \cup NowMet(o, tx)
  <2> DEFINE met == onboard[o].met \cup NowMet(o, tx)
  <2>1. onboard'[o] = [onboard[o] EXCEPT !.met = met]
    BY DEF Land
  <2>2. met \in SUBSET Needs
    BY <1>1, JobParts DEF NowMet
  <2> HIDE DEF met
  <2>3. /\ onboard'[o] \in Jobs /\ onboard'[o].met = met /\ onboard'[o].pc = onboard[o].pc
        /\ onboard'[o].key = onboard[o].key /\ onboard'[o].todo = onboard[o].todo
        /\ onboard'[o].read = onboard[o].read
    BY <2>1, <2>2, JobParts DEF Jobs
  <2> QED
    BY <2>3 DEF met
<1>8. onboard' \in [Onboardings -> Jobs]
  BY <1>7 DEF Land
<1>9. ProvisioningTypeOK'
  <2>1. ProvisioningTypeOK
    BY DEF FundInv
  <2>2. pool' \cup landed' \subseteq Txs
    BY <1>1, <1>6, LockTyped
  <2> QED
    BY <1>5, <1>6, <1>8, <2>1, <2>2 DEF ProvisioningTypeOK, Jobs, Txs, Accounts
<1>10. ASSUME NEW o \in Onboardings PROVE JobFits(o)'
  <2>1. JobFits(o)
    BY DEF FundInv
  <2>2. ReadFits(o)' /\ KeyInHand(o)' /\ NothingSkipped(o)'
    BY <1>5, <1>6, <1>7, <2>1 DEF JobFits, ReadFits, KeyInHand, NothingSkipped
  <2>3. SentFits(o)'
    <3> SUFFICES ASSUME NEW ty \in pool' \cup landed', ty.by = o
                 PROVE  /\ onboard[o].pc \in Funding \cup {"notify", "notifyFailure", "done"}
                        /\ onboard[o].pc \in Funding =>
                              ty.key = onboard[o].key /\ (ty \in landed' => ty.need \in onboard'[o].met)
      BY <1>7 DEF SentFits
    <3>1. ty \in pool \cup landed /\ (ty \in landed' => ty \in landed \/ ty = tx)
      BY <1>6
    <3>2. onboard[o].pc \in Funding /\ ty = tx => ty.need \in NowMet(o, tx)
      BY <2>1, <3>1 DEF NowMet, Funding, JobFits, SentFits
    <3> QED
      BY <1>7, <2>1, <3>1, <3>2 DEF JobFits, SentFits
  <2> QED
    BY <2>2, <2>3 DEF JobFits
<1> QED
  BY <1>6, <1>9, <1>10 DEF FundInv, KeysKept, ReadyIsFunded

\* Nothing changes but the registered agents, what is on the way, and balances.
LEMMA WorldKeeps ==
    ASSUME FundInv, registered' \subseteq Agents, pool' \subseteq pool,
           chain' \in Seq(Accounts), Keys' = Keys,
           used' \in [deletes : Nat, spends : Nat, crashes : Nat],
           UNCHANGED <<accounts, accountsLock, status, onboard, landed, told>>
    PROVE  FundInv'
<1>1. ProvisioningTypeOK'
  BY DEF FundInv, ProvisioningTypeOK, Accounts, told
<1>2. ASSUME NEW o \in Onboardings PROVE JobFits(o)'
  BY OthersFit
<1> QED
  BY <1>1, <1>2 DEF FundInv, KeysKept, ReadyIsFunded, told

LEMMA UsedTyped ==
    ASSUME FundInv, NEW u \in {"deletes", "spends", "crashes"},
           used' = [used EXCEPT ![u] = used[u] + 1]
    PROVE  used' \in [deletes : Nat, spends : Nat, crashes : Nat]
  BY DEF FundInv, ProvisioningTypeOK

LEMMA DeleteKeeps ==
    ASSUME FundInv, NEW a \in Agents, Delete(a)
    PROVE  FundInv'
<1>1. used' \in [deletes : Nat, spends : Nat, crashes : Nat]
  BY UsedTyped DEF Delete
<1>2. chain \in Seq(Accounts)
  BY TypeMeans DEF FundInv
<1> QED
  BY <1>1, <1>2, LockTyped, WorldKeeps DEF Delete, OnChain, Keys

LEMMA ExpireKeeps ==
    ASSUME FundInv, NEW tx \in pool, Expire(tx)
    PROVE  FundInv'
<1>1. chain \in Seq(Accounts) /\ used \in [deletes : Nat, spends : Nat, crashes : Nat]
  BY TypeMeans DEF FundInv
<1> QED
  BY <1>1, LockTyped, WorldKeeps DEF Expire, Keys

LEMMA SpendTyped ==
    ASSUME FundInv, NEW key \in Keys, NEW asset \in Assets, Spend(key, asset)
    PROVE  /\ chain' = [chain EXCEPT ![key] = [chain[key] EXCEPT ![asset] = chain[key][asset] - 1]]
           /\ [chain[key] EXCEPT ![asset] = chain[key][asset] - 1] \in Accounts
<1>1. chain[key] \in Accounts
  BY TypeMeans DEF FundInv, Keys
<1>2. CASE asset = "algo"
  BY <1>1, <1>2 DEF Spend, Accounts
<1>3. CASE asset = "usdc"
  BY <1>1, <1>3 DEF Spend, Accounts
<1> QED
  BY <1>2, <1>3 DEF Assets

LEMMA SpendKeeps ==
    ASSUME FundInv, NEW key \in Keys, NEW asset \in Assets, Spend(key, asset)
    PROVE  FundInv'
<1>1. chain' \in Seq(Accounts) /\ Keys' = Keys
  BY SpendTyped, AccountSet
<1>2. used' \in [deletes : Nat, spends : Nat, crashes : Nat]
  BY UsedTyped DEF Spend
<1> QED
  BY <1>1, <1>2, LockTyped, WorldKeeps DEF Spend

LEMMA CrashKeeps ==
    ASSUME FundInv, Crash
    PROVE  FundInv'
<1>1. used' \in [deletes : Nat, spends : Nat, crashes : Nat]
  BY UsedTyped DEF Crash
<1>2. ASSUME NEW o \in Onboardings
      PROVE  /\ onboard'[o] \in Jobs /\ onboard'[o].pc \in {"idle", "done"}
             /\ onboard'[o].pc = "idle" => onboard[o].pc = "idle"
  BY IdleIsJob DEF Crash
<1>3. onboard' \in [Onboardings -> Jobs]
  BY <1>2 DEF Crash
<1>4. /\ status' = [a \in Agents |-> NoStatus] /\ accountsLock' = Nobody
      /\ unstarted' = {} /\ UNCHANGED <<accounts, registered, chain, pool, landed, given, misread>>
  BY DEF Crash, OnChain
<1>5. NoStatus \in [state : States, met : SUBSET Needs] /\ NoStatus.state = "none"
  BY DEF NoStatus, States
<1>6. ProvisioningTypeOK'
  <2>1. status' \in [Agents -> [state : States, met : SUBSET Needs]]
    BY <1>4, <1>5
  <2>2. ProvisioningTypeOK
    BY DEF FundInv
  <2> QED
    BY <1>1, <1>3, <1>4, <2>1, <2>2 DEF ProvisioningTypeOK, Keys, Jobs
<1>7. ASSUME NEW o \in Onboardings PROVE JobFits(o)'
  BY <1>2, <1>4 DEF FundInv, JobFits, ReadFits, KeyInHand, NothingSkipped, SentFits, Keyed, Funding
<1>8. ReadyIsFunded'
  BY <1>4, <1>5 DEF ReadyIsFunded
<1> QED
  BY <1>4, <1>6, <1>7, <1>8 DEF FundInv, KeysKept

LEMMA StutterKeeps == FundInv /\ UNCHANGED vars => FundInv'
  BY DEF vars, FundInv, ProvisioningTypeOK, KeysKept, ReadyIsFunded, JobFits, ReadFits, KeyInHand,
      NothingSkipped, SentFits, Keys

LEMMA FundStep == FundInv /\ [Next]_vars => FundInv'
<1> SUFFICES ASSUME FundInv, [Next]_vars PROVE FundInv'
  OBVIOUS
<1>1. ASSUME NEW o \in Onboardings, HandlerStep(o) PROVE FundInv'
  BY <1>1, AskKeeps, LoadKeeps, FindKeyKeeps, MakeKeyKeeps, EnsureFailsKeeps, RegisterKeeps,
     StartFundingKeeps, StartFailsKeeps, QuietCloseKeeps DEF HandlerStep
<1>2. ASSUME NEW o \in Onboardings, JobStep(o) PROVE FundInv'
  BY <1>2, ReadBalancesKeeps, SendKeeps, ConfirmKeeps, ReadyKeeps, FailuresKeep, QuietCloseKeeps
  DEF JobStep
<1>3. CASE \E a \in Agents : Delete(a)
  BY <1>3, DeleteKeeps
<1>4. CASE ChainStep
  BY <1>4, LandKeeps, ExpireKeeps, SpendKeeps DEF ChainStep, Keys
<1>5. CASE Crash
  BY <1>5, CrashKeeps
<1>6. CASE Rest \/ UNCHANGED vars
  BY <1>6, StutterKeeps DEF Rest
<1> QED
  BY <1>1, <1>2, <1>3, <1>4, <1>5, <1>6 DEF Next

\* The inductive invariant is one.
THEOREM FundInvariant == Spec => []FundInv
<1> QED
  BY InitHolds, FundStep, PTL DEF Spec

\* Every variable of provisioning keeps its type.
THEOREM ProvisioningTypeCorrect == Spec => []ProvisioningTypeOK
<1>1. FundInv => ProvisioningTypeOK
  BY DEF FundInv
<1> QED
  BY <1>1, FundInvariant, PTL

\* _accounts_lock does what it is for: the key that an agent was given stays its key,
\* whichever onboardings race and whatever crashes.
THEOREM KeysAreKept == Spec => []KeysKept
<1>1. FundInv => KeysKept
  BY DEF FundInv
<1> QED
  BY <1>1, FundInvariant, PTL

\* Who is said to be ready has held fees, opt-in and capital since its thread looked,
\* removals, late transactions and crashes notwithstanding.
THEOREM ReadyAreFunded == Spec => []ReadyIsFunded
<1>1. FundInv => ReadyIsFunded
  BY DEF FundInv
<1> QED
  BY <1>1, FundInvariant, PTL
----------------------------------------------------------------------------
(***************************************************************************)
(* An account is funded once, unless its balances were misread.            *)
(***************************************************************************)
\* What a thread has yet to send.
Unsent(o) ==
    IF onboard[o].pc = "wait" THEN onboard[o].todo \ {NextStep(o)} ELSE onboard[o].todo

\* A thread that took the balances of its account for what they were.
Clear(o) == onboard[o].pc \in Funding /\ onboard[o].key \notin misread

\* Of what it has yet to send nothing is on the way.
NothingComing(o) ==
    Clear(o) => \A tx \in pool : tx.key = onboard[o].key => tx.need \notin Unsent(o)

\* The account is short of what its thread has yet to send.
StillShort(o) ==
    Clear(o) => \A asset \in Assets \cap Unsent(o) : chain[onboard[o].key][asset] < Enough(asset)

JobRest(o) == NothingComing(o) /\ StillShort(o)

\* Nobody else is sending to the account.
OneAtWork ==
    \A o, p \in Onboardings :
       Clear(o) /\ onboard[p].pc \in Funding /\ onboard[o].key = onboard[p].key => o = p

RestInv ==
    /\ FundInv /\ IsFiniteSet(pool) /\ OneAtWork
    /\ \A o \in Onboardings : JobRest(o)
    /\ NeverOverfunded
----------------------------------------------------------------------------
LEMMA FundTyped ==
    ASSUME NEW asset \in Assets
    PROVE  Fund(asset) \in Nat \ {0} /\ Enough(asset) \in Nat
<1>1. Fund(asset) \in Nat \ {0}
  BY ProvisioningAssumption DEF Fund
<1> QED
  BY <1>1 DEF Enough

LEMMA BalanceTyped ==
    ASSUME FundInv, NEW key \in Keys, NEW asset \in Assets
    PROVE  chain[key][asset] \in Nat
<1>1. chain[key] \in Accounts
  BY TypeMeans DEF FundInv, Keys
<1>2. CASE asset = "algo"
  BY <1>1, <1>2 DEF Accounts
<1>3. CASE asset = "usdc"
  BY <1>1, <1>3 DEF Accounts
<1> QED
  BY <1>2, <1>3 DEF Assets

\* A thread in its funding has the balances of an account.
LEMMA FundingBalances ==
    ASSUME FundInv, NEW o \in Onboardings, onboard[o].pc \in Funding
    PROVE  onboard[o].key \in Keys /\ \A asset \in Assets : chain[onboard[o].key][asset] \in Nat
  BY BalanceTyped DEF FundInv, JobFits, KeyInHand, Keyed, Funding

LEMMA NextStepSame ==
    ASSUME NEW o \in Onboardings, onboard'[o].todo = onboard[o].todo
    PROVE  NextStep(o)' = NextStep(o)
  BY DEF NextStep

\* A thread that does not move still fits, if the world left it what it relies on.
LEMMA SameJobRests ==
    ASSUME FundInv, NEW p \in Onboardings, JobRest(p), misread \subseteq misread',
           /\ onboard'[p].pc = onboard[p].pc /\ onboard'[p].key = onboard[p].key
           /\ onboard'[p].todo = onboard[p].todo,
           Clear(p) =>
              \A tx \in pool' : tx.key = onboard[p].key => tx \in pool \/ tx.need \notin Unsent(p),
           Clear(p) =>
              \A asset \in Assets \cap Unsent(p) :
                 chain'[onboard[p].key][asset] \in Nat
                 /\ chain'[onboard[p].key][asset] <= chain[onboard[p].key][asset]
    PROVE  JobRest(p)'
<1>1. Unsent(p)' = Unsent(p) /\ (Clear(p)' => Clear(p))
  BY NextStepSame DEF Unsent, Clear
<1>2. NothingComing(p)'
  BY <1>1 DEF JobRest, NothingComing
<1>3. StillShort(p)'
  <2> SUFFICES ASSUME Clear(p), NEW asset \in Assets \cap Unsent(p)
               PROVE  chain'[onboard[p].key][asset] < Enough(asset)
    BY <1>1 DEF StillShort, Enough, Fund
  <2>1. chain[onboard[p].key][asset] < Enough(asset) /\ chain[onboard[p].key][asset] \in Nat
        /\ Enough(asset) \in Nat
    BY FundingBalances, FundTyped DEF JobRest, StillShort, Clear
  <2> QED
    BY <2>1
<1> QED
  BY <1>2, <1>3 DEF JobRest

LEMMA RestInit == Init => RestInv
<1> SUFFICES ASSUME Init PROVE RestInv
  OBVIOUS
<1>1. FundInv
  BY InitHolds
<1>2. \A o \in Onboardings : ~Clear(o)
  BY IdleIsJob DEF Init, Clear, Funding
<1>3. OneAtWork /\ \A o \in Onboardings : JobRest(o)
  BY <1>2 DEF OneAtWork, JobRest, NothingComing, StillShort
<1>4. IsFiniteSet(pool)
  BY FS_EmptySet DEF Init
<1>5. NeverOverfunded
  BY DEF Init, NeverOverfunded
<1> QED
  BY <1>1, <1>3, <1>4, <1>5 DEF RestInv

\* One thread moves and goes on with its account, or has none in hand; the chain does
\* not change.
LEMMA QuietRests ==
    ASSUME RestInv, FundInv', NEW o \in Onboardings, UNCHANGED <<chain, pool>>,
           misread \subseteq misread',
           \A p \in Onboardings \ {o} : onboard'[p] = onboard[p],
           onboard'[o].pc \in Funding =>
              onboard[o].pc \in Funding /\ onboard'[o].key = onboard[o].key,
           JobRest(o)'
    PROVE  RestInv'
<1>1. ASSUME NEW p \in Onboardings, p # o PROVE JobRest(p)'
  <2>1. FundInv /\ JobRest(p) /\ onboard'[p] = onboard[p]
    BY <1>1 DEF RestInv
  <2>2. Clear(p) => \A asset \in Assets : chain[onboard[p].key][asset] \in Nat
    BY <2>1, FundingBalances DEF Clear
  <2> QED
    BY <2>1, <2>2, SameJobRests
<1>2. OneAtWork'
  BY DEF RestInv, OneAtWork, Clear
<1>3. IsFiniteSet(pool')
  BY DEF RestInv
<1>4. NeverOverfunded'
  BY DEF RestInv, NeverOverfunded, Coming, Fund, Enough
<1> QED
  BY <1>1, <1>2, <1>3, <1>4 DEF RestInv

\* A thread has not begun to fund an account, or is through with it.
LEMMA OutsideRests ==
    ASSUME RestInv, FundInv', NEW o \in Onboardings, UNCHANGED <<chain, pool, misread>>,
           \A p \in Onboardings \ {o} : onboard'[p] = onboard[p],
           onboard'[o].pc \notin Funding
    PROVE  RestInv'
<1>1. JobRest(o)'
  BY DEF JobRest, NothingComing, StillShort, Clear
<1> QED
  BY <1>1, QuietRests

\* The pc of one thread is set.
LEMMA GotoIs ==
    ASSUME FundInv, NEW o \in Onboardings, NEW pc, Goto(o, pc)
    PROVE  /\ \A p \in Onboardings \ {o} : onboard'[p] = onboard[p]
           /\ onboard'[o].pc = pc /\ onboard'[o].key = onboard[o].key
           /\ onboard'[o].todo = onboard[o].todo
<1>1. onboard \in [Onboardings -> Jobs] /\ onboard[o] \in Jobs
  BY JobParts
<1>2. onboard' = [onboard EXCEPT ![o] = [onboard[o] EXCEPT !.pc = pc]]
  BY <1>1 DEF Goto
<1>3. onboard'[o] = [onboard[o] EXCEPT !.pc = pc]
      /\ \A p \in Onboardings \ {o} : onboard'[p] = onboard[p]
  BY <1>1, <1>2
<1> QED
  BY <1>1, <1>3 DEF Jobs

LEMMA ClosedRests ==
    ASSUME RestInv, FundInv', NEW o \in Onboardings, Close(o),
           UNCHANGED <<chain, pool, misread>>
    PROVE  RestInv'
<1>1. onboard \in [Onboardings -> Jobs]
  BY JobParts DEF RestInv
<1>2. onboard'[o].pc = "done" /\ \A p \in Onboardings \ {o} : onboard'[p] = onboard[p]
  BY <1>1, IdleIsJob DEF Close
<1> QED
  BY <1>2, OutsideRests DEF Funding

\* The steps of the handler that make no account.
LEMMA HandlerRests ==
    ASSUME RestInv, FundInv', NEW o \in Onboardings, HandlerStep(o), ~MakeKey(o)
    PROVE  RestInv'
<1> USE DEF OnChain, told
<1>1. FundInv /\ onboard \in [Onboardings -> Jobs] /\ onboard[o] \in Jobs
  BY JobParts DEF RestInv
<1>2. ASSUME NEW a \in Agents, Ask(o, a) PROVE RestInv'
  <2>1. onboard'[o].pc = "account" /\ \A p \in Onboardings \ {o} : onboard'[p] = onboard[p]
    BY <1>1, <1>2 DEF Ask, Jobs
  <2> QED
    BY <1>2, <2>1, OutsideRests DEF Ask, Funding
<1>3. CASE LoadAccounts(o)
  <2>1. onboard'[o].pc = "ensure" /\ \A p \in Onboardings \ {o} : onboard'[p] = onboard[p]
    BY <1>1, <1>3 DEF LoadAccounts, Jobs
  <2> QED
    BY <1>3, <2>1, OutsideRests DEF LoadAccounts, Funding
<1>4. CASE FindKey(o)
  <2>1. onboard'[o].pc = "register" /\ \A p \in Onboardings \ {o} : onboard'[p] = onboard[p]
    BY <1>1, <1>4 DEF FindKey, ReturnKey, Jobs
  <2> QED
    BY <1>4, <2>1, OutsideRests DEF FindKey, Funding
<1>5. CASE EnsureFails(o) \/ RegisterFails(o) \/ StartFails(o) \/ DoNotFund(o)
  BY <1>5, ClosedRests DEF EnsureFails, RegisterFails, StartFails, DoNotFund
<1>6. CASE Register(o)
  BY <1>1, <1>6, GotoIs, OutsideRests DEF Register, Funding
<1>7. CASE StartFunding(o)
  BY <1>1, <1>7, GotoIs, OutsideRests DEF StartFunding, Funding
<1> QED
  BY <1>2, <1>3, <1>4, <1>5, <1>6, <1>7 DEF HandlerStep

\* A thread that is through with the account, for better or worse.
LEMMA EndingRests ==
    ASSUME RestInv, FundInv', NEW o \in Onboardings,
           \/ Ready(o) \/ NotConfirmed(o) \/ Notify(o) \/ NotifyFailure(o)
           \/ Raise(o) /\ UNCHANGED pool
    PROVE  RestInv'
<1> USE DEF OnChain, told
<1>1. FundInv
  BY DEF RestInv
<1>2. CASE Ready(o)
  BY <1>1, <1>2, GotoIs, OutsideRests DEF Ready, Funding
<1>3. CASE Raise(o) /\ UNCHANGED pool
  BY <1>1, <1>3, GotoIs, OutsideRests DEF Raise, Funding
<1>4. CASE Close(o) /\ UNCHANGED <<chain, pool, misread>>
  BY <1>4, ClosedRests
<1> QED
  BY <1>2, <1>3, <1>4 DEF NotConfirmed, Notify, NotifyFailure

\* Balances that were misread are listed as such; those that were not show what the
\* account is short of, and nobody else is about to send it anything.
LEMMA ReadBalancesRests ==
    ASSUME RestInv, FundInv', NEW o \in Onboardings, ReadBalances(o)
    PROVE  RestInv'
<1> DEFINE key == onboard[o].key
<1>1. /\ FundInv /\ onboard \in [Onboardings -> Jobs] /\ onboard[o] \in Jobs
      /\ key \in Keys /\ onboard[o].pc = "balances"
  BY JobParts DEF RestInv, ReadBalances, FundInv, JobFits, KeyInHand, Keyed
<1>2. PICK account \in {chain[key], EmptyAccount} :
         /\ onboard' = [onboard EXCEPT ![o].pc = "send", ![o].todo = ToDo(account),
                                       ![o].met = Needs \ ToDo(account)]
         /\ misread' = IF account # chain[key] \/ MoreToCome(o) THEN misread \cup {key}
                                                               ELSE misread
  BY DEF ReadBalances
<1>3. UNCHANGED <<chain, pool>>
  BY DEF ReadBalances, OnChain
<1>4. /\ onboard'[o].pc = "send" /\ onboard'[o].key = key /\ onboard'[o].todo = ToDo(account)
      /\ \A p \in Onboardings \ {o} : onboard'[p] = onboard[p]
  <2> DEFINE todo == ToDo(account)
             met == Needs \ ToDo(account)
  <2>1. onboard' = [onboard EXCEPT ![o] = [onboard[o] EXCEPT !.pc = "send", !.todo = todo, !.met = met]]
    BY <1>1, <1>2
  <2> HIDE DEF todo, met
  <2>2. onboard'[o] = [onboard[o] EXCEPT !.pc = "send", !.todo = todo, !.met = met]
        /\ \A p \in Onboardings \ {o} : onboard'[p] = onboard[p]
    BY <1>1, <2>1
  <2>3. onboard'[o].pc = "send" /\ onboard'[o].key = onboard[o].key /\ onboard'[o].todo = todo
    BY <1>1, <2>2 DEF Jobs
  <2> QED
    BY <2>2, <2>3 DEF todo
<1>5. misread \subseteq misread' /\ (key \notin misread' => account = chain[key] /\ ~MoreToCome(o))
  BY <1>2
<1>6. Unsent(o)' = ToDo(account)
  BY <1>4 DEF Unsent
<1>7. JobRest(o)'
  <2> SUFFICES ASSUME key \notin misread' PROVE JobRest(o)'
    BY <1>4 DEF JobRest, NothingComing, StillShort, Clear
  <2>1. account = chain[key] /\ \A tx \in pool : tx.key # key
    BY <1>5 DEF MoreToCome
  <2>2. NothingComing(o)'
    BY <1>3, <1>4, <2>1 DEF NothingComing
  <2>3. ASSUME NEW asset \in Assets \cap ToDo(account) PROVE chain[key][asset] < Enough(asset)
    <3>1. chain[key][asset] \in Nat /\ Enough(asset) \in Nat
      BY <1>1, BalanceTyped, FundTyped
    <3>2. ~Meets(chain[key], asset) /\ asset # "optin"
      BY <2>1 DEF ToDo, Assets
    <3> QED
      BY <3>1, <3>2 DEF Meets
  <2>4. \A asset \in Assets : Enough(asset)' = Enough(asset)
    BY DEF Enough, Fund
  <2>5. StillShort(o)'
    BY <1>3, <1>4, <1>6, <2>3, <2>4 DEF StillShort
  <2> QED
    BY <2>2, <2>5 DEF JobRest
<1>8. ASSUME NEW p \in Onboardings, p # o PROVE JobRest(p)'
  <2>1. FundInv /\ JobRest(p) /\ onboard'[p] = onboard[p]
    BY <1>4, <1>8 DEF RestInv
  <2>2. Clear(p) => \A asset \in Assets : chain[onboard[p].key][asset] \in Nat
    BY <2>1, FundingBalances DEF Clear
  <2> QED
    BY <1>3, <1>5, <2>1, <2>2, SameJobRests
<1>9. OneAtWork'
  <2> SUFFICES ASSUME NEW q \in Onboardings, NEW p \in Onboardings, q # p,
                      Clear(q)', onboard'[p].pc \in Funding, onboard'[q].key = onboard'[p].key
               PROVE  FALSE
    BY DEF OneAtWork
  <2>1. key \notin misread' => \A r \in Onboardings \ {o} : onboard[r].key = key => onboard[r].pc \notin Funding
    BY <1>5 DEF MoreToCome, Funding
  <2>2. CASE q = o
    BY <1>4, <2>1, <2>2 DEF Clear
  <2>3. CASE p = o
    BY <1>4, <2>1, <2>3 DEF Clear
  <2>4. CASE q # o /\ p # o
    BY <1>4, <1>5, <2>4 DEF RestInv, OneAtWork, Clear
  <2> QED
    BY <2>2, <2>3, <2>4
<1>10. IsFiniteSet(pool') /\ NeverOverfunded'
  BY <1>3, <1>5 DEF RestInv, NeverOverfunded, Coming, Fund, Enough
<1> QED
  BY <1>7, <1>8, <1>9, <1>10 DEF RestInv

LEMMA ConfirmRests ==
    ASSUME RestInv, FundInv', NEW o \in Onboardings, Confirm(o)
    PROVE  RestInv'
<1> DEFINE rest == onboard[o].todo \ {NextStep(o)}
<1>1. /\ FundInv /\ JobRest(o) /\ onboard[o].pc = "wait" /\ onboard[o] \in Jobs
      /\ onboard \in [Onboardings -> Jobs]
  BY JobParts DEF RestInv, Confirm
<1>2. Unsent(o) = rest
  BY <1>1 DEF Unsent
<1>3. onboard' = [onboard EXCEPT ![o] = [onboard[o] EXCEPT !.pc = "send", !.todo = rest]]
  BY <1>1 DEF Confirm, NextNeed
<1> HIDE DEF rest
<1>4. onboard'[o] = [onboard[o] EXCEPT !.pc = "send", !.todo = rest]
      /\ \A p \in Onboardings \ {o} : onboard'[p] = onboard[p]
  BY <1>1, <1>3
<1>5. onboard'[o].pc = "send" /\ onboard'[o].key = onboard[o].key /\ onboard'[o].todo = rest
  BY <1>1, <1>4 DEF Jobs
<1>6. UNCHANGED <<chain, pool, misread>>
  BY DEF Confirm, OnChain, told
<1>7. Unsent(o)' = Unsent(o) /\ (Clear(o)' => Clear(o))
  BY <1>1, <1>2, <1>5, <1>6 DEF Unsent, Clear, Funding
<1>8. JobRest(o)'
  <2>1. \A asset \in Assets : Enough(asset)' = Enough(asset)
    BY DEF Enough, Fund
  <2> QED
    BY <1>1, <1>5, <1>6, <1>7, <2>1 DEF JobRest, NothingComing, StillShort
<1> QED
  BY <1>1, <1>4, <1>5, <1>6, <1>8, QuietRests DEF Funding

LEMMA NothingOnItsWay ==
    ASSUME NEW key, NEW asset, \A tx \in pool : tx.key = key => tx.need # asset
    PROVE  Coming(key, asset) = 0
<1>1. {tx \in pool : tx.key = key /\ tx.need = asset} = {}
  OBVIOUS
<1> QED
  BY <1>1, FS_EmptySet DEF Coming

LEMMA ComingTyped ==
    ASSUME IsFiniteSet(pool), NEW key, NEW asset
    PROVE  Coming(key, asset) \in Nat
<1> DEFINE txs == {tx \in pool : tx.key = key /\ tx.need = asset}
<1>1. IsFiniteSet(txs)
  BY FS_Subset
<1> QED
  BY <1>1, FS_CardinalityType DEF Coming

LEMMA MakeKeyRests ==
    ASSUME RestInv, FundInv', NEW o \in Onboardings, MakeKey(o)
    PROVE  RestInv'
<1> DEFINE key == Len(chain) + 1
<1>1. /\ FundInv /\ onboard \in [Onboardings -> Jobs] /\ onboard[o] \in Jobs
      /\ chain \in Seq(Accounts) /\ pool \subseteq Txs
  BY JobParts, LockTyped, TypeMeans DEF RestInv, FundInv
<1>2. /\ chain' = Append(chain, EmptyAccount) /\ UNCHANGED <<pool, misread>>
      /\ onboard'[o].pc = "register" /\ \A p \in Onboardings \ {o} : onboard'[p] = onboard[p]
  BY <1>1 DEF MakeKey, ReturnKey, Jobs
<1>3. /\ Keys' = Keys \cup {key} /\ key \notin Keys
      /\ chain'[key] = EmptyAccount /\ \A k \in Keys : chain'[k] = chain[k]
  <2>1. EmptyAccount \in Accounts
    BY DEF EmptyAccount, Accounts
  <2> QED
    BY <1>1, <1>2, <2>1, AppendProperties DEF Keys
<1> HIDE DEF key
<1>4. JobRest(o)'
  BY <1>2 DEF JobRest, NothingComing, StillShort, Clear, Funding
<1>5. ASSUME NEW p \in Onboardings, p # o PROVE JobRest(p)'
  <2>1. JobRest(p) /\ onboard'[p] = onboard[p]
    BY <1>2, <1>5 DEF RestInv
  <2>2. Clear(p) => /\ chain'[onboard[p].key] = chain[onboard[p].key]
                    /\ \A asset \in Assets : chain[onboard[p].key][asset] \in Nat
    BY <1>1, <1>3, FundingBalances DEF Clear
  <2>3. Clear(p) =>
          \A asset \in Assets \cap Unsent(p) :
             chain'[onboard[p].key][asset] \in Nat
             /\ chain'[onboard[p].key][asset] <= chain[onboard[p].key][asset]
    BY <2>2
  <2> QED
    BY <1>1, <1>2, <2>1, <2>3, SameJobRests
<1>6. OneAtWork'
  BY <1>2 DEF RestInv, OneAtWork, Clear, Funding
<1>7. NeverOverfunded'
  <2> SUFFICES ASSUME NEW k \in Keys', k \notin misread, NEW asset \in Assets
               PROVE  chain'[k][asset] + Coming(k, asset) * Fund(asset) < Enough(asset) + Fund(asset)
    BY <1>2 DEF NeverOverfunded, Coming, Keys, Fund, Enough
  <2>1. CASE k \in Keys
    BY <1>3, <2>1 DEF RestInv, NeverOverfunded, Keys
  <2>2. CASE k = key
    <3>1. Coming(k, asset) = 0
      <4>1. \A tx \in pool : tx.key # key
        BY <1>1, <1>3 DEF Txs
      <4> QED
        BY <2>2, <4>1, NothingOnItsWay
    <3>2. chain'[k][asset] = 0
      BY <1>3, <2>2 DEF EmptyAccount, Assets
    <3> QED
      BY <3>1, <3>2, FundTyped
  <2> QED
    BY <1>3, <2>1, <2>2
<1> QED
  BY <1>2, <1>4, <1>5, <1>6, <1>7 DEF RestInv

\* A thread sends what it has yet to send, and waits for it or hears of an error.
LEMMA SendingRests ==
    ASSUME RestInv, FundInv', NEW o \in Onboardings, NEW pc \in {"wait", "notifyFailure"},
           onboard[o].pc = "send", onboard[o].todo # {},
           Goto(o, pc), pool' = pool \cup {Tx(o)}, UNCHANGED <<chain, misread>>
    PROVE  RestInv'
<1> DEFINE need == NextStep(o)
           key == onboard[o].key
<1>1. /\ FundInv /\ JobRest(o) /\ key \in Keys /\ need \in onboard[o].todo /\ need \in Needs
  BY NextStepNeeded, FundingBalances DEF RestInv, Funding
<1>2. Tx(o).key = key /\ Tx(o).need = need
  BY DEF Tx
<1>3. /\ \A p \in Onboardings \ {o} : onboard'[p] = onboard[p]
      /\ onboard'[o].pc = pc /\ onboard'[o].key = key /\ onboard'[o].todo = onboard[o].todo
  BY <1>1, GotoIs
<1>4. key \notin misread =>
        /\ \A tx \in pool : tx.key = key => tx.need \notin onboard[o].todo
        /\ \A asset \in Assets \cap onboard[o].todo : chain[key][asset] < Enough(asset)
        /\ \A p \in Onboardings \ {o} : onboard[p].pc \in Funding => onboard[p].key # key
  BY <1>1 DEF RestInv, JobRest, NothingComing, StillShort, OneAtWork, Clear, Funding, Unsent
<1>5. pc = "wait" => Unsent(o)' = onboard[o].todo \ {need}
  <2>1. NextStep(o)' = NextStep(o)
    BY <1>3, NextStepSame
  <2> QED
    BY <1>3, <2>1 DEF Unsent
<1>6. Clear(o)' => pc = "wait" /\ key \notin misread
  BY <1>3 DEF Clear, Funding
<1> HIDE DEF need, key
<1>7. JobRest(o)'
  <2>1. NothingComing(o)'
    BY <1>2, <1>3, <1>4, <1>5, <1>6 DEF NothingComing
  <2>2. StillShort(o)'
    <3>1. \A asset \in Assets : Enough(asset)' = Enough(asset)
      BY DEF Enough, Fund
    <3> QED
      BY <1>3, <1>4, <1>5, <1>6, <3>1 DEF StillShort
  <2> QED
    BY <2>1, <2>2 DEF JobRest
<1>8. ASSUME NEW p \in Onboardings, p # o PROVE JobRest(p)'
  <2>1. JobRest(p) /\ onboard'[p] = onboard[p]
    BY <1>3, <1>8 DEF RestInv
  <2>2. Clear(p) => onboard[p].key # key
    BY <1>4, <1>8 DEF Clear
  <2>3. Clear(p) => \A asset \in Assets : chain[onboard[p].key][asset] \in Nat
    BY <1>1, FundingBalances DEF Clear
  <2> QED
    BY <1>1, <1>2, <2>1, <2>2, <2>3, SameJobRests
<1>9. OneAtWork'
  BY <1>3 DEF RestInv, OneAtWork, Clear, Funding, key
<1>10. IsFiniteSet(pool')
  BY FS_AddElement DEF RestInv
<1>11. NeverOverfunded'
  <2> SUFFICES ASSUME NEW k \in Keys, k \notin misread, NEW asset \in Assets
               PROVE  chain[k][asset] + Coming(k, asset)' * Fund(asset) < Enough(asset) + Fund(asset)
    BY DEF NeverOverfunded, Keys, Fund, Enough
  <2>1. CASE k = key /\ asset = need
    <3>1. {tx \in pool' : tx.key = k /\ tx.need = asset} = {Tx(o)}
      BY <1>1, <1>2, <1>4, <2>1
    <3>2. Coming(k, asset)' = 1
      BY <3>1, FS_Singleton DEF Coming
    <3>3. chain[k][asset] < Enough(asset)
      BY <1>1, <1>4, <2>1
    <3> QED
      BY <1>1, <3>2, <3>3, BalanceTyped, FundTyped
  <2>2. CASE k # key \/ asset # need
    <3>1. {tx \in pool' : tx.key = k /\ tx.need = asset} = {tx \in pool : tx.key = k /\ tx.need = asset}
      BY <1>2, <2>2
    <3>2. Coming(k, asset)' = Coming(k, asset)
      BY <3>1 DEF Coming
    <3> QED
      BY <3>2 DEF RestInv, NeverOverfunded, Keys
  <2> QED
    BY <2>1, <2>2
<1> QED
  BY <1>7, <1>8, <1>9, <1>10, <1>11 DEF RestInv

LEMMA SendRests ==
    ASSUME RestInv, FundInv', NEW o \in Onboardings, Send(o)
    PROVE  RestInv'
  BY SendingRests DEF Send, told

LEMMA ProvisionFailsRests ==
    ASSUME RestInv, FundInv', NEW o \in Onboardings, ProvisionFails(o)
    PROVE  RestInv'
<1>1. CASE UNCHANGED pool
  BY <1>1, EndingRests DEF ProvisionFails
<1>2. CASE pool' # pool
  <2>1. /\ onboard[o].pc = "send" /\ onboard[o].todo # {} /\ pool' = pool \cup {Tx(o)}
        /\ Goto(o, "notifyFailure") /\ UNCHANGED <<chain, misread>>
    BY <1>2 DEF ProvisionFails, Raise, told
  <2> QED
    BY <2>1, SendingRests
<1> QED
  BY <1>1, <1>2

\* The world takes transactions off the pool and never raises a balance that a thread
\* is about to raise.
LEMMA WorldRests ==
    ASSUME RestInv, FundInv', pool' \subseteq pool, UNCHANGED misread,
           \A o \in Onboardings :
              /\ onboard'[o].pc = onboard[o].pc /\ onboard'[o].key = onboard[o].key
              /\ onboard'[o].todo = onboard[o].todo,
           \A o \in Onboardings : Clear(o) =>
              \A asset \in Assets \cap Unsent(o) :
                 chain'[onboard[o].key][asset] \in Nat
                 /\ chain'[onboard[o].key][asset] <= chain[onboard[o].key][asset],
           NeverOverfunded'
    PROVE  RestInv'
<1>1. ASSUME NEW p \in Onboardings PROVE JobRest(p)'
  <2>1. FundInv /\ JobRest(p)
    BY DEF RestInv
  <2> QED
    BY <2>1, SameJobRests
<1>2. OneAtWork' /\ IsFiniteSet(pool')
  BY FS_Subset DEF RestInv, OneAtWork, Clear
<1> QED
  BY <1>1, <1>2 DEF RestInv

\* A transaction brings what it was sent for, or costs a fee.
LEMMA ReceivedIs ==
    ASSUME NEW account \in Accounts, NEW need \in Needs, Accepts(account, need),
           NEW asset \in Assets
    PROVE  /\ account[asset] \in Nat /\ Received(account, need)[asset] \in Nat
           /\ need = asset => Received(account, need)[asset] = account[asset] + Fund(asset)
           /\ need # asset => Received(account, need)[asset] <= account[asset]
<1>1. /\ FundAlgo \in Nat /\ FundUsdc \in Nat /\ OptInFee \in Nat
      /\ account.algo \in Nat /\ account.usdc \in Nat
  BY ProvisioningAssumption DEF Accounts
<1>2. CASE need = "algo"
  BY <1>1, <1>2 DEF Received, Fund, Assets, Accounts
<1>3. CASE need = "optin"
  <2>1. account.algo - OptInFee \in Nat
    BY <1>1, <1>3 DEF Accepts
  <2>2. Received(account, need).algo = account.algo - OptInFee
        /\ Received(account, need).usdc = account.usdc
    BY <1>3 DEF Received, Accounts
  <2> QED
    BY <1>1, <1>3, <2>1, <2>2 DEF Assets
<1>4. CASE need = "usdc"
  BY <1>1, <1>4 DEF Received, Fund, Assets, Accounts
<1> QED
  BY <1>2, <1>3, <1>4 DEF Needs

LEMMA LandRests ==
    ASSUME RestInv, FundInv', NEW tx \in pool, Land(tx)
    PROVE  RestInv'
<1>1. /\ FundInv /\ tx \in Txs /\ tx.key \in Keys /\ tx.need \in Needs
      /\ chain[tx.key] \in Accounts /\ onboard \in [Onboardings -> Jobs]
  BY LockTyped, TypeMeans DEF RestInv, FundInv, Txs, Keys
<1>2. /\ chain' = [chain EXCEPT ![tx.key] = Received(chain[tx.key], tx.need)]
      /\ Accepts(chain[tx.key], tx.need)
      /\ pool' = pool \ {tx} /\ UNCHANGED misread
  BY DEF Land, told
<1>3. /\ Keys' = Keys /\ chain'[tx.key] = Received(chain[tx.key], tx.need)
      /\ \A k \in Keys \ {tx.key} : chain'[k] = chain[k]
  BY <1>1, <1>2, ReceivedTyped, AccountSet
<1>4. ASSUME NEW k \in Keys, NEW asset \in Assets
      PROVE  /\ chain[k][asset] \in Nat /\ chain'[k][asset] \in Nat
             /\ k = tx.key /\ asset = tx.need => chain'[k][asset] = chain[k][asset] + Fund(asset)
             /\ k # tx.key \/ asset # tx.need => chain'[k][asset] <= chain[k][asset]
  <2>1. CASE k = tx.key
    BY <1>1, <1>2, <1>3, <2>1, ReceivedIs
  <2>2. CASE k # tx.key
    <3>1. chain'[k] = chain[k] /\ chain[k][asset] \in Nat
      BY <1>1, <1>3, <2>2, BalanceTyped
    <3> QED
      BY <2>2, <3>1
  <2> QED
    BY <2>1, <2>2
<1>5. ASSUME NEW o \in Onboardings
      PROVE  /\ onboard'[o].pc = onboard[o].pc /\ onboard'[o].key = onboard[o].key
             /\ onboard'[o].todo = onboard[o].todo
  <2> DEFINE met == onboard[o].met \cup NowMet(o, tx)
  <2>1. onboard'[o] = [onboard[o] EXCEPT !.met = met]
    BY DEF Land
  <2> HIDE DEF met
  <2> QED
    BY <1>1, <2>1 DEF Jobs
<1>6. ASSUME NEW o \in Onboardings, Clear(o), NEW asset \in Assets \cap Unsent(o)
      PROVE  /\ chain'[onboard[o].key][asset] \in Nat
             /\ chain'[onboard[o].key][asset] <= chain[onboard[o].key][asset]
  <2>1. onboard[o].key # tx.key \/ asset # tx.need
    BY <1>6 DEF RestInv, JobRest, NothingComing
  <2>2. onboard[o].key \in Keys
    BY <1>1, <1>6, FundingBalances DEF Clear
  <2> QED
    BY <1>4, <2>1, <2>2
<1>7. NeverOverfunded'
  <2> SUFFICES ASSUME NEW k \in Keys, k \notin misread, NEW asset \in Assets
               PROVE  chain'[k][asset] + Coming(k, asset)' * Fund(asset) < Enough(asset) + Fund(asset)
    BY <1>2, <1>3 DEF NeverOverfunded, Keys, Fund, Enough
  <2> DEFINE txs == {ty \in pool : ty.key = k /\ ty.need = asset}
             before == Coming(k, asset)
             after == Coming(k, asset)'
  <2>1. IsFiniteSet(txs) /\ before = Cardinality(txs) /\ before \in Nat
    <3>1. IsFiniteSet(pool) /\ txs \subseteq pool
      BY DEF RestInv
    <3>2. IsFiniteSet(txs) /\ before = Cardinality(txs)
      BY <3>1, FS_Subset DEF Coming
    <3> QED
      BY <3>2, FS_CardinalityType
  <2>2. chain[k][asset] + before * Fund(asset) < Enough(asset) + Fund(asset)
    BY DEF RestInv, NeverOverfunded, Keys
  <2>3. CASE k = tx.key /\ asset = tx.need
    <3>1. {ty \in pool' : ty.key = k /\ ty.need = asset} = txs \ {tx} /\ tx \in txs
      BY <1>2, <2>3
    <3>2. after = before - 1
      <4>1. after = Cardinality(txs \ {tx})
        BY <3>1 DEF Coming
      <4> HIDE DEF txs, before, after
      <4> QED
        BY <2>1, <3>1, <4>1, FS_RemoveElement
    <3>3. chain'[k][asset] = chain[k][asset] + Fund(asset) /\ chain[k][asset] \in Nat
      BY <1>4, <2>3
    <3> HIDE DEF txs, before, after
    <3>4. after * Fund(asset) = before * Fund(asset) - Fund(asset)
      BY <2>1, <3>2, FundTyped
    <3>5. before * Fund(asset) \in Nat /\ Fund(asset) \in Nat /\ Enough(asset) \in Nat
      BY <2>1, FundTyped
    <3>6. chain'[k][asset] + after * Fund(asset) < Enough(asset) + Fund(asset)
      BY <2>2, <3>3, <3>4, <3>5
    <3> QED
      BY <3>6 DEF after
  <2>4. CASE k # tx.key \/ asset # tx.need
    <3>1. {ty \in pool' : ty.key = k /\ ty.need = asset} = txs
      BY <1>2, <2>4
    <3>2. after = before
      BY <3>1 DEF Coming
    <3>3. /\ chain'[k][asset] <= chain[k][asset]
          /\ chain[k][asset] \in Nat /\ chain'[k][asset] \in Nat
      BY <1>4, <2>4
    <3> HIDE DEF txs, before, after
    <3>4. before * Fund(asset) \in Nat /\ Fund(asset) \in Nat /\ Enough(asset) \in Nat
      BY <2>1, FundTyped
    <3>5. chain'[k][asset] + after * Fund(asset) < Enough(asset) + Fund(asset)
      BY <2>2, <3>2, <3>3, <3>4
    <3> QED
      BY <3>5 DEF after
  <2> QED
    BY <2>3, <2>4
<1> QED
  BY <1>2, <1>5, <1>6, <1>7, WorldRests

LEMMA ExpireRests ==
    ASSUME RestInv, FundInv', NEW tx \in pool, Expire(tx)
    PROVE  RestInv'
<1>1. pool' = pool \ {tx} /\ UNCHANGED <<onboard, chain, misread>>
  BY DEF Expire, told
<1>2. ASSUME NEW o \in Onboardings, Clear(o), NEW asset \in Assets \cap Unsent(o)
      PROVE  /\ chain'[onboard[o].key][asset] \in Nat
             /\ chain'[onboard[o].key][asset] <= chain[onboard[o].key][asset]
  BY <1>1, <1>2, FundingBalances DEF RestInv, Clear
<1>3. NeverOverfunded'
  <2> SUFFICES ASSUME NEW k \in Keys, k \notin misread, NEW asset \in Assets
               PROVE  chain[k][asset] + Coming(k, asset)' * Fund(asset) < Enough(asset) + Fund(asset)
    BY <1>1 DEF NeverOverfunded, Keys, Fund, Enough
  <2> DEFINE txs == {ty \in pool : ty.key = k /\ ty.need = asset}
             fewer == {ty \in pool' : ty.key = k /\ ty.need = asset}
             before == Coming(k, asset)
             after == Coming(k, asset)'
  <2>1. IsFiniteSet(txs) /\ fewer \subseteq txs
    BY <1>1, FS_Subset DEF RestInv
  <2>2. before = Cardinality(txs) /\ after = Cardinality(fewer)
    BY DEF Coming
  <2>3. chain[k][asset] + before * Fund(asset) < Enough(asset) + Fund(asset)
    BY DEF RestInv, NeverOverfunded, Keys
  <2>4. chain[k][asset] \in Nat
    BY BalanceTyped DEF RestInv
  <2> HIDE DEF txs, fewer, before, after
  <2>5. before \in Nat /\ after \in Nat /\ after <= before
    BY <2>1, <2>2, FS_Subset, FS_CardinalityType
  <2>6. after * Fund(asset) <= before * Fund(asset)
        /\ after * Fund(asset) \in Nat /\ before * Fund(asset) \in Nat
    <3> DEFINE less == before - after
    <3>1. less \in Nat /\ before = after + less
      BY <2>5
    <3> HIDE DEF less
    <3>2. Fund(asset) \in Nat
      BY FundTyped
    <3>3. before * Fund(asset) = after * Fund(asset) + less * Fund(asset)
      BY <2>5, <3>1, <3>2
    <3>4. less * Fund(asset) \in Nat /\ after * Fund(asset) \in Nat
      BY <2>5, <3>1, <3>2
    <3> QED
      BY <3>3, <3>4
  <2>7. chain[k][asset] + after * Fund(asset) < Enough(asset) + Fund(asset)
    BY <2>3, <2>4, <2>6, FundTyped
  <2> QED
    BY <2>7 DEF after
<1> QED
  BY <1>1, <1>2, <1>3, WorldRests

LEMMA SpendRests ==
    ASSUME RestInv, FundInv', NEW key \in Keys, NEW asset \in Assets, Spend(key, asset)
    PROVE  RestInv'
<1>1. FundInv /\ chain[key] \in Accounts /\ chain[key][asset] \in Nat \ {0}
  <2>1. FundInv /\ chain[key] \in Accounts
    BY TypeMeans DEF RestInv, FundInv, Keys
  <2> QED
    BY <2>1, BalanceTyped DEF Spend
<1>2. UNCHANGED <<onboard, pool, misread>>
  BY DEF Spend, told
<1> DEFINE account == [chain[key] EXCEPT ![asset] = chain[key][asset] - 1]
<1>3. /\ Keys' = Keys /\ chain'[key] = account
      /\ \A k \in Keys \ {key} : chain'[k] = chain[k]
  BY <1>1, SpendTyped, AccountSet
<1>4. ASSUME NEW k \in Keys, NEW kind \in Assets
      PROVE  /\ chain[k][kind] \in Nat /\ chain'[k][kind] \in Nat
             /\ chain'[k][kind] <= chain[k][kind]
  <2>1. chain[k][kind] \in Nat
    BY <1>1, BalanceTyped
  <2>2. CASE k = key
    <3>1. account[kind] = IF kind = asset THEN chain[key][asset] - 1 ELSE chain[key][kind]
      BY <1>1 DEF Assets, Accounts
    <3> HIDE DEF account
    <3> QED
      BY <1>1, <1>3, <2>1, <2>2, <3>1
  <2>3. CASE k # key
    BY <1>3, <2>1, <2>3
  <2> QED
    BY <2>2, <2>3
<1>5. ASSUME NEW o \in Onboardings, Clear(o), NEW kind \in Assets \cap Unsent(o)
      PROVE  /\ chain'[onboard[o].key][kind] \in Nat
             /\ chain'[onboard[o].key][kind] <= chain[onboard[o].key][kind]
  BY <1>1, <1>4, <1>5, FundingBalances DEF Clear
<1>6. NeverOverfunded'
  <2> SUFFICES ASSUME NEW k \in Keys, k \notin misread, NEW kind \in Assets
               PROVE  chain'[k][kind] + Coming(k, kind)' * Fund(kind) < Enough(kind) + Fund(kind)
    BY <1>2, <1>3 DEF NeverOverfunded, Keys, Fund, Enough
  <2> DEFINE coming == Coming(k, kind)
  <2>1. Coming(k, kind)' = coming /\ coming \in Nat
    BY <1>2, ComingTyped DEF RestInv, Coming
  <2>2. chain[k][kind] + coming * Fund(kind) < Enough(kind) + Fund(kind)
    BY DEF RestInv, NeverOverfunded, Keys
  <2>3. /\ chain'[k][kind] <= chain[k][kind]
        /\ chain[k][kind] \in Nat /\ chain'[k][kind] \in Nat
    BY <1>4
  <2> HIDE DEF coming
  <2>4. coming * Fund(kind) \in Nat /\ Fund(kind) \in Nat /\ Enough(kind) \in Nat
    BY <2>1, FundTyped
  <2> QED
    BY <2>1, <2>2, <2>3, <2>4
<1> QED
  BY <1>2, <1>5, <1>6, WorldRests

LEMMA CrashRests ==
    ASSUME RestInv, FundInv', Crash
    PROVE  RestInv'
<1>1. \A o \in Onboardings : ~Clear(o)' /\ onboard'[o].pc \notin Funding
  BY IdleIsJob DEF Crash, Clear, Funding
<1>2. UNCHANGED <<chain, pool, misread>>
  BY DEF Crash, OnChain
<1>3. OneAtWork' /\ \A o \in Onboardings : JobRest(o)'
  BY <1>1 DEF OneAtWork, JobRest, NothingComing, StillShort
<1>4. IsFiniteSet(pool') /\ NeverOverfunded'
  BY <1>2 DEF RestInv, NeverOverfunded, Coming, Fund, Enough
<1> QED
  BY <1>3, <1>4 DEF RestInv

\* An agent is removed, or nothing happens: no account hears of it.
LEMMA StutterRests ==
    ASSUME RestInv, FundInv', UNCHANGED <<onboard, chain, pool, misread>>
    PROVE  RestInv'
<1>1. ASSUME NEW o \in Onboardings, Clear(o), NEW asset \in Assets \cap Unsent(o)
      PROVE  /\ chain'[onboard[o].key][asset] \in Nat
             /\ chain'[onboard[o].key][asset] <= chain[onboard[o].key][asset]
  BY <1>1, FundingBalances DEF RestInv, Clear
<1>2. NeverOverfunded'
  BY DEF RestInv, NeverOverfunded, Coming, Fund, Enough
<1> QED
  BY <1>1, <1>2, WorldRests

LEMMA RestStep == RestInv /\ [Next]_vars => RestInv'
<1> SUFFICES ASSUME RestInv, [Next]_vars PROVE RestInv'
  OBVIOUS
<1>1. FundInv'
  BY FundStep DEF RestInv
<1>2. ASSUME NEW o \in Onboardings, HandlerStep(o) PROVE RestInv'
  BY <1>1, <1>2, HandlerRests, MakeKeyRests
<1>3. ASSUME NEW o \in Onboardings, JobStep(o) PROVE RestInv'
  BY <1>1, <1>3, ReadBalancesRests, SendRests, ConfirmRests, EndingRests, ProvisionFailsRests
  DEF JobStep
<1>4. CASE \E a \in Agents : Delete(a)
  BY <1>1, <1>4, StutterRests DEF Delete, OnChain, told
<1>5. CASE ChainStep
  BY <1>1, <1>5, LandRests, ExpireRests, SpendRests DEF ChainStep, Keys
<1>6. CASE Crash
  BY <1>1, <1>6, CrashRests
<1>7. CASE Rest \/ UNCHANGED vars
  BY <1>1, <1>7, StutterRests DEF Rest, vars
<1> QED
  BY <1>2, <1>3, <1>4, <1>5, <1>6, <1>7 DEF Next

\* provision tops an account up only if it is short, whatever comes late, is lost or is
\* cut off by a crash, and however often the agent is onboarded and removed: the only
\* accounts that may get more are those whose balances some thread could not read, or
\* took while more was to come.
THEOREM ToppedUpOnce == Spec => []NeverOverfunded
<1>1. RestInv => NeverOverfunded
  BY DEF RestInv
<1> QED
  BY <1>1, RestInit, RestStep, PTL DEF Spec
=============================================================================
