# The agent spend policy engine in TLA+

This directory models the policy engine of `src/`: the service that decides
whether an agent may spend, reserves budget for it, makes the payment over x402
and records what happened. Paths below are relative to `src/`.

| file | what it is |
|---|---|
| `Storage.tla` | the request log of `policy_engine/storage.py`: rows, the budget and rate checks, one operator per SQLite transaction, and what the table promises |
| `SpendEngine.tla` | the handlers of `policy_engine/app.py` that spend, release and reject, as interleaving threads over `Storage`, with policy edits, reset, crash and restart |
| `AuditLedger.tla` | the hash chain of `storage.py`: both ways of appending, `verify_chain`, the tamper drill and its restore |
| `Anchoring.tla` | `common/anchor.py` over `AuditLedger`: the hook, `anchor_now`, Algorand and its indexer, the integrity report |
| `PolicyStore.tla` | `policy_engine/policy_store.py`: `policy.json`, the cached dict and its mtime, edits under the lock, and saves by hand |
| `RequestIdentity.tla` | `common/identity.py`: the freshness window and the nonce table |
| `ResourceServer.tla` | a paid call from `_execute_payment` through `common/policy_auth.py` and `resource_server/` to the settlement and back |
| `Provisioning.tla` | `common/provisioning.py` with the onboarding and the removal of agents in `app.py` |
| `Budget.tla` | abstract: what the engine promises about money; `SpendEngine` implements it |
| `Exchange.tla` | abstract: a paid call, as both its ends have it; `SpendEngine` and `ResourceServer` implement it |
| `MC*.tla`, `MC*.cfg` | the instances TLC checks |
| `StorageProofs.tla` | lemmas on the request log: which transactions keep the daily cap and the rate limit |
| `SpendEngineProofs.tla` | the inductive invariants of the spend handlers, their theorems, and that `SpendEngine` implements `Budget` and `Exchange` |
| `AuditLedgerProofs.tla`, `AnchoringProofs.tla`, `PolicyStoreProofs.tla`, `RequestIdentityProofs.tla`, `ProvisioningProofs.tla`, `ResourceServerProofs.tla` | the inductive invariants and the theorems |

`SpendEngine` extends `Storage` and instantiates `Budget` and `Exchange`; `Anchoring` extends
`AuditLedger`; `PolicyStore`, `RequestIdentity`, `ResourceServer` and
`Provisioning` use no other module of the system. `ResourceServer` is the inside
of what `SpendEngine` has as one `Send` and one `Answer`; it too instantiates
`Exchange`, the protocol between the two. `Storage` and
`AuditLedger` are two halves of one database and share no table: what a handler
writes to the ledger changes nothing a reservation or a decision depends on, except
that a failed append ends the handler, which `SpendEngine` has as `EventLost`.

## 1. Inventory

### Components, their state, and how they interact

**Request log** (`policy_engine/storage.py`). The SQLite table `requests`: one row
per request with its agent, amount, timestamp and decision (`pending`,
`awaiting_approval`, `approved`, `denied`). `try_reserve` checks rate limit and
daily cap and inserts, all under `BEGIN IMMEDIATE`; `log_request` inserts a
denied row; `finalize` sets a decision; `reap_stale_reservations` denies old
pending rows when the process starts; `reset` empties the table. Correct when
the committed total of an agent never passes the cap its spends were admitted
under, the rate limit holds in every window, decisions that were reached stand,
and no reservation is held forever.

**Spend handlers** (`policy_engine/app.py`). `POST /spend` runs the checks in
order (identity, action, agent, frozen, allowed, arguments, ceiling, threshold),
reserves, and parks the request or pays. `_execute_payment` gets a session,
calls the resource server with a timeout, and finalizes. `POST
/admin/holds/{id}/approve` re-checks the authority of the agent and pays;
`.../reject` denies. They keep only local variables; FastAPI runs them in a
thread pool. Correct when money moves only for rows that hold budget, once per
reservation, never past the kill switch, never above the threshold without a
human, and the log says what happened.

**Policy store** (`policy_engine/policy_store.py`). `policy.json` and a cached
dict, reloaded when the file's mtime changes, written by rename. `get_policy`
hands out the cached dict itself, and `update_agent` changes it in place, so
handlers share it. Correct when no edit is lost and a request is judged by one
policy.

**Audit ledger** (`storage.py`, `app.py`). The hash chain `audit_events`:
`append_event` reads the head and inserts the next link; `verify_chain`,
the tamper drill and its restore, policy fingerprints. Correct when every
change of state has its event, the chain verifies exactly when it was not
altered, and the ledger and the request log agree.

**Anchoring** (`common/anchor.py`). Publication of the head's hash in an Algorand
note, from a background thread after a decision or on request; a lock and an
event keep it to one at a time. The integrity report reads chain, anchors and
indexer together. Correct when an anchor says what the chain said, nothing is
paid for twice, a failure does not stop anchoring for good, and the report
neither misses an alteration nor invents one.

**Request identity** (`common/identity.py`). Signatures, a freshness window and a
nonce table in memory, behind a lock. Correct when a signed request is let in at
most once and nothing else uses up its nonce.

**Authorization tokens** (`common/policy_auth.py`) and the **resource server**
(`resource_server/main.py`, `upstreams.py`). The token binds a payment to a
decision: its agent, action and arguments, under a secret that whichever process
starts first writes to a file. The middleware checks it before the x402 paywall,
on the request that draws the 402 and again on the one that pays. The paywall
verifies the payment, runs the route, and settles if the route's status is under
400. A route asks two upstreams in turn and caches what they said. Correct when
no agent pays for what it did not get or did not ask for, what it gets is
recent, no call that cleared policy is turned away for its token, and the engine
reads the answer rightly.

**Provisioning** (`common/provisioning.py`). `ensure_account` makes a key and saves
it in `accounts.json` under a lock; `provision`, in a thread of its own, sends
what the account lacks (fees, opt-in, working capital) and waits for each;
`_status` says how far that has come. Correct when no key is lost, an agent that
is said to be ready can pay, the treasury funds it once, and no agent stays in
`funding`.

**Admin authentication, argument resolution, configuration, session and chain
clients, simulator, scripts, dashboard**. Stateless or thin; see section 6.

The engine calls the resource server synchronously inside a handler; handlers
meet one another in SQLite, in the cached policy dict, in the ledger's head and
in the anchor and nonce tables behind their locks, and in `accounts.json`;
engine and resource server share the token's secret and nothing else. The dashboard and the agents
are HTTP clients; the admin endpoints edit the policy while spends run.

### What is hard

- *Concurrency*: handlers interleave between any two reads of shared state; only
  the transactions are atomic. A decision read at the top of `approve_hold` is
  acted on after a network call.
- *Failure*: the engine can die between the payment and the row that records it;
  a call can time out and be settled afterwards; any append to the ledger can
  raise in the middle of a handler; a chain transaction that was given up on can
  land later; an upstream can fail after the payment was verified.
- *Time*: the day of the cap and the window of the rate limit move while
  requests wait; reaping depends on how old a row is at the restart.
- *Edits*: freeze, revocation, removal and hot reload land between two checks of
  a request or between request and release.

The hazards at their lines, and which property covers which, are in
`PROJECT.json`.

## 2. The model

### Spending: state

`Storage` has `requests` (row id to row: the table), `lastId` (the AUTOINCREMENT
counter, which `reset` does not rewind) and `clock` (`_now()`, in ticks). A row
keeps, besides its columns, what it was born as and the cap and limit it was
admitted under; these are history, no action reads them. Money is a whole number
of cents. `SUM(amount_usd)` is the cardinality of the set of cents of the rows,
which needs no recursion and so can be proved about. The code sums floats and
allows `1e-9`; for fewer than about a million rows of whole cents that is exact
arithmetic.

`SpendEngine` adds `policy` (agent to configuration or `Absent`), `handlers`
(thread to its pc and locals), `calls` (every paid call sent, with its fate at
the resource server and whether the engine lost its answer), `granted` (rows
with an `approval.granted` event), `up`, `startedAt`, and `used`, which counts
against the bounds. Two variables are history, which no action reads:
`contested`, the rows that two handlers were at work on at once because a review
began while another handler had the row, and `dropped`, the rows whose handler
ended in an exception that kept it from recording what became of the payment.

### Spending: atomicity

One step is one SQLite transaction or one read of shared state:

| code | actions |
|---|---|
| `spend`, down to the agent's lookup; `verify_request` is a choice | `Spend` |
| `agent_cfg.get("frozen")`, `allowed_actions`, `_resolve_params`, `max_per_request_usd`, `approval_threshold_usd` | `CheckFrozen`, `CheckAllowed`, `BadParams`, `CheckCeiling`, `CheckThreshold` |
| the arguments of `try_reserve`, then the transaction | `ReadCaps`, `Reserve` |
| the finalize that parks a hold | `Park` |
| `_deny`: `_now()`, then `log_request`'s transaction | `Deny`, `Log` |
| `_execute_payment` | `SetupFails`, `Send`, `Receive`, `GiveUp`, `FinalizeApproved`, `FinalizeDenied` |
| what stands between and after its two `try` blocks raises (`mint_token`, the URL): a 500, the row stays as it is | `PaymentRaises` |
| a transaction waits for another connection longer than `sqlite3.connect(timeout=10)` does (`storage.py:114-122`, `:534`) and raises: a 500 | `DatabaseBusy` |
| `approve_hold` | `Approve`, `CheckAgent`, `CheckFrozen`, `CheckAllowed`, `Grant`, `RecordRefusal`, then as above |
| `reject_hold` | `RejectHold`, `RecordRefusal`, `FinalizeDenied` |
| `append_event` raising inside a review | `EventLost` |
| the resource server | `Answer` |
| `update_agent`, `add_agent`, `remove_agent`, `_load_locked` | `Patch`, `AddAgent`, `RemoveAgent`, `HotReload` |
| `/admin/reset`; process death; `init_db` at the next start, however soon | `ResetLog`, `Crash`, `Restart` |

A handler reads the agent's configuration *through a reference into the cached
dict*: `view = Live` while the dict is still the one being edited, the old
configuration once the agent was removed or the file reloaded (`ChangePolicy`).

The unknown-action check of `spend` and `approve_hold` leads where the
unknown-agent check leads, and is taken as part of it: `policy[a] = Absent`.

### Spending: what is merged or left out

- Cap and rate limit are read in one step although they are two expressions of
  one call; identity and arguments are nondeterministic verdicts.
- The anchoring call at the end of handlers touches none of this state.
- Minting the token and the signing of the call are part of `Send` when they
  succeed, and `PaymentRaises` when they do not.

### Reviews that overlap

`approve_hold` and `reject_hold` read the row's decision and look at nothing else.
The dashboard disables a card's buttons while its request runs
(`dashboard/app.js:864-885`), and that is all that keeps two reviews of one hold
apart; a second tab, or any other client, is not kept. So `Review` begins whenever
the row says `awaiting_approval`, whoever else is at work on it: another review, or
the `/spend` that is yet to finalize the hold it parks. No run and no theorem
assumes otherwise. What the engine promises is stated for the rows that are not
`contested`, and it is proved that an overlap costs nothing to any *other* row,
payment or budget; what it does to the row itself is shown by `concurrent_reviews`
and in section 5.

### The audit ledger

`events` is `audit_events` and `backups` is `tamper_backups`. History: `written`, the
bodies as they were appended; `headEdited`, that a drill has hit the newest event;
`crossed`, the events a drill of which overlapped a restore. A body is its type, whose event it is,
and the one payload field a drill overwrites. SHA-256 is taken to be free of
collisions, so a hash *is* the sequence of `(seq, body)` pairs it commits to.

| code | actions |
|---|---|
| `_append_event_locked` inside a transaction that has written already (`try_reserve`, `finalize`, `log_request`, `reset`, reaping) | `RecordRequest` |
| a handler's change, then `append_event`: the head is read before Python's `sqlite3` begins a transaction, at the INSERT | `MakeChange`, `ReadHead`, `InsertEvent`, `InsertFails` |
| `demo_tamper` with `tamper_with_event` | `PickEvent`, `Tamper` |
| `restore_tampered` | `ReadBackups`, `Restore` |
| `verify_chain`, `hash_at_seq`, `get_chain_head` | `Breaks`, `HashAt`, `ChainHead` |

`demo_tamper`'s choice of an event and `tamper_with_event`'s SELECT of it are one
read. Any number of threads drill and restore at once. `verify_chain` also looks for
a gap in `seq` (`storage.py:331-342`); `Breaks` does not, as `seq` is the place in the
sequence here and no statement of the program deletes an event. Which types of event the handlers append, and in which order, is not
modelled.

### Anchoring

`anchors` is the table; `chain` the notes sent, each in the pool, in a block, or
served by the indexer; `lock` and `inFlight` are `_anchor_lock` and `_in_flight`;
`threads` are the handlers and background threads that count the backlog and run
`anchor_now`, step by step: `CountBacklog`, `Spawn`, `Acquire` or `Busy`,
`SetFlag`, `ReadChainHead` or `NothingToAnchor`, `Send`, `Confirm` or
`NotConfirmed`, `RecordAnchor`, and, on every path, `ClearFlag` and `Release`. An
error may strike at the sending, after which the note may or may not have got
through, and at the recording (`AnchorError`). A note that was not confirmed in
six rounds may still get into a block (`Include`). `report` is one
`integrity_report`, with `VerifyChain`, `GetAnchors`, a `VerifyAnchor` for each
anchor and `GiveVerdict`; everything else goes on in between.

Merged: the read of the last anchor with the read of the head (only the holder
of the lock adds anchors), and the local and the on-chain half of
`verify_anchor` (the on-chain half only ever becomes available). Nobody edits the
table of anchors. `Rewrite` is not the program: it is the editor of the database
that the tests call a full rewrite, who recomputes every hash after the edit.

### The policy store

`file` is `policy.json` with its mtime, and whether it can be parsed right now;
`cache` is `_cache`; `lock` is `_lock`. A call is `Begin` (lock, stat), then
`Read`, `FallBack` on the last good snapshot or `ReadFails` if the cache is not
up to date, then `Get`, or `Refuse`, or `Apply` (the cached dict itself is
changed) followed by `WriteFails` (the dict stays changed) or `Replace` (rename)
and `Stamp` (the new mtime is read). A save by hand is `Truncate` and `Fill`; a
rename in between cuts it off. History: `intended` is the policy that all acknowledged edits and saves
amount to; `unsaved` the agents with an edit in the dict that could not be written,
its caller having been told so; `carried` those whose unsaved edit went to the file
with a later one; `clashed`, that a save by hand has overlapped a call that edits.
The lock is not the editor's, and nothing keeps the two apart. What the store
promises, it promises until then; reads may overlap a save at any time. Opening and
parsing the file are one read. Every write is taken to give the file an mtime it did
not have before: `getmtime` has the file system's resolution, and two writes within
it are not told apart by the code either.

How handlers that hold on to the dict see edits is `SpendEngine`'s `policy`.

### Request identity

A request is its agent and nonce; `signed` has its timestamp. `verify_request` is
`Receive` (the clock is read; a request outside the window is turned away and
changes nothing), `CheckSignature`, then `Admit` or `Refuse` under the lock, both
of which prune the table. Requests are delivered any number of times, and so are
copies whose content is not what was signed (`genuine = FALSE`). `Restart`
empties the table. `Ahead` and `Behind` bound how far a signer's clock may be
off, either way. Time may pass at any moment, also between reading the clock and
taking the lock. History: `swept`, the latest clock the table was pruned by;
`early`, the requests let in before their own timestamp, which `abs()` lets pass
(`identity.py:98`); `overtaken`, those let in after a thread with a later clock had
pruned the table. The engine's own clock, `time.time()`, is taken not to step back.

### The budget, abstractly

`Budget` has one variable: the items that were admitted, each with its agent, day,
amount and cap. An item is *held*, then *spent*, *returned* or *disputed*. `Admit`
takes an item that its cap has room for next to all that is held or spent for its
agent and day; `Resolve` moves held items on; `Wipe` is the operator's. An item that
was spent or returned does not change unless it is wiped, and what is held or spent
never exceeds the cap it was admitted under. Of a disputed item nothing is promised,
and it takes no budget from the others.

`Items` maps the request log to it: the rows that were not born denied, `pending`
and `awaiting_approval` both being *held*, and a row being *disputed* once it is
contested. Handlers, calls, policy edits, threads and crashes map to nothing: a crash
is a stutter, reaping one `Resolve` of many items at once, `/admin/reset` a `Wipe`.

### A paid call: ResourceServer

`engine` is the thread in `_execute_payment` for each call, `server` the request at
the resource server (a client that has given up does not stop it), `cache` is
`_cache`, `secret` the secret's file and each process's copy. History: what a
route served, with its age and the age of the list of tickers it was found in
(`product`); the layer that turned a request away (`blame`); when the 402 came
(`priced`); `raced`, that a process read the secret's file while it was empty, or
emptied or overwrote one that was not; `late`, the calls whose second leg reached the
server more than the margin after the price; `unheard`, those whose settlement went
through without the server hearing of it.

| code | actions |
|---|---|
| `_load_or_create_secret`, which the process may not survive | `Start`, `OpenSecret`, `WriteSecret`, `StartFails` |
| `_execute_payment`: `mint_token`, `session.get`, `except`, `_classify_failure` | `Request`, `GiveUp`, `GetAnswer` |
| the x402 client: the retry after a 402 | `GetPaymentRequired`, `Pay` |
| `PolicyAuthMiddleware.dispatch`, `verify_token` | `CheckToken` |
| the x402 middleware and facilitator | `VerifyPayment`, `Settle`, `SettleFails` |
| `fetch_weather`, `fetch_company` with `_TTLCache` and `_get_json` | `MissingName`, `Lookup`, `Geocode`, `Match`, `Keep`; `GetFails`, `Unusable` |
| `_ticker_index` | `TickerIndex`, `KeepIndex` |
| the resource server's process dies | `ServerDies`, `Unreachable` |

The two processes start in any order, or at the same time, as `start.sh:94-99` has
them; each may die before it has written the secret, and a file left empty is read as
an empty secret. The facilitator's `verify` finds the payment good or bad or raises,
which Starlette answers with a bare 500. `Canonical` is `.strip().lower()`: what is
asked for is told from what is looked up and cached by (`Key`).

Time passes only while something is waited for. A leg takes no longer than
`OutboundTimeout`, an upstream GET no longer than `UpstreamTimeout`; the making of a
payment and a request's way through the network take any time. The bound of a
`requests` timeout is taken to hold for the whole answer; the library applies it to
the connection and to each read. Computing takes no time, so a thread is not
descheduled across a tick between an answer and the cache. How a company is matched to
a name, and the fields of an answer, are left out.

`Exchange` is a call without its inside, the protocol between engine and resource
server. Its one variable has, for each call sent, its state (*open*, *settled*,
*refused*) and what the engine knows of it (*nothing*, *settled*, *refused*, *lost*).
`Send` adds an open call; `End` settles or refuses open calls, for good and whether or
not anyone waits (several at once when the server dies); `Learn` reads the state of a
call that has ended; `Lose` counts answers as lost, whatever the calls' states (several
at once when the engine dies). `Exchanges` maps `ResourceServer` to it: a call is
settled when its payment is on the chain, refused when its request has been answered
(a 402 to the first leg is no answer) or has died with the server, and open otherwise;
its answer is lost when the engine gave up, and when the server reported a failure
because it did not hear of the settlement.
`Fates` maps `SpendEngine` to it: `Answer` is its `End`, `GiveUp` and `Crash` its
`Lose`, and so is a busy database at the `finalize` of a settled payment. The engine
knows an outcome once it has acted on it, a refusal when it is received and a
settlement when the row is marked approved, since what comes in between loses it.

### Provisioning

`accounts`, `accountsLock`, `status` are the file, `_accounts_lock` and `_status`;
`onboard` is a `POST /admin/agents`, first as its handler, then as the thread it
starts; `chain` the accounts' balances, `pool` what was sent and may still get into
a block, `landed` what did. History: `given`, the keys agents were told are
theirs; `met`, what an account has held since the thread looked; `misread`, the keys
whose account a thread took for emptier than it was or was to be; `unstarted`, the
agents whose thread could not be started.

| code | actions |
|---|---|
| `create_agent`: `ensure_account` | `Ask`, `LoadAccounts`, then `FindKey`, `MakeKey` or `EnsureFails` |
| `policy_store.add_agent`, the event, `provision_async` | `Register` or `RegisterFails`, `StartFunding`, `DoNotFund` or, when `Thread.start` raises, `StartFails` |
| `delete_agent`, whatever is going on with the account | `Delete` |
| `provision`: `_balances`, then for each step that is not true already: send, wait | `ReadBalances`, `Send`, `Confirm`, `Ready` |
| whatever raises, then the `except` of `run` | `ProvisionFails`, `NotConfirmed`, `Raise` |
| `on_done`, which appends an event and may raise | `Notify`, `NotifyFailure` |
| the chain | `Land`, `Expire`, `Spend` |

The reads of the file and of the balances are one step: nothing that thread
reads changes in between, as a key is never replaced (`KeysKept`). The second
`_balances`, for the message only, is left out, and so are the treasury's own
funds: a send may fail at any time.

`_balances` takes every failure for an account that does not exist
(`provisioning.py:121`), so `ReadBalances` reads the account or an empty one. A removal
and a new registration may start a second thread for an account while the first, or
what it sent, is still under way; the balances that such a thread takes are `misread`
too (`MoreToCome`).

## 3. What is checked

### Runs that pass

| run | configuration | question |
|---|---|---|
| `spend_race` | `MCSpendRace.cfg` | With two threads, three spends and a crash at any moment, do concurrent reservations stay in the daily cap and in the rate limit, across midnight, with denials logged late? Is no answered payment denied, and is there an explanation for every reservation that nobody works on? |
| `holds` | `MCSpendHolds.cfg` | With two holds, two reviews that may overlap each other or the parking, a policy edit, a reset and a crash in any order, do payments, decisions and the kill switch stay consistent, and is every step one of `Budget`? |
| `ledger` | `MCLedger.cfg` | With two racing appends, a crash and up to four drills or restores by two threads, does `verify_chain` point at the altered events and only there, and can each be put back unless a drill of it overlapped a restore? |
| `anchoring` | `MCAnchor.cfg` | With two anchoring threads, lost confirmations, an error and a crash, is a head paid for once, is every recorded anchor in a block, is the slot always freed? |
| `integrity_report` | `MCReport.cfg` | Does a report read step by step, while the ledger is appended to, anchored, drilled, restored and rewritten, miss nothing and invent nothing? |
| `policy_store` | `MCPolicyStore.cfg` | With edits, reads, a failed write, a crash and saves by hand at any moment, do calls work on what the file held while they ran, and is no acknowledged edit or save lost, until a save overlaps an edit? |
| `identity` | `MCRequestIdentity.cfg` | Stamped by clocks ahead or behind, delivered many times to two threads that may be held up before the lock, across two windows and a restart, is a request let in once (twice only if it came before its time), and refused only after it was let in? |
| `resource_server` | `MCResourceServer.cfg` | With processes that start at once, slow and failing upstreams, answers of the facilitator that do not come, a client that gives up and a process that dies, is only what was delivered settled, is it recent, does the token last, and does the engine read the answer rightly? |
| `provisioning` | `MCProvisioning.cfg` | With two onboardings, late and lost transactions, balances that cannot be read, a spending agent, a removal at any moment and a crash, are keys kept, ready agents funded, none funded beyond one top-up unless its balances were misread, and does `funding` end? |

Properties (stated in the modules):

- `WithinCap`: a row that holds budget fits, with everything admitted before it
  on its day, in the cap *it* was admitted under. Caps may be edited at any time.
  Contested rows are left out of the sum.
- `RateBound`: in every window of time, an agent's admitted spends are no more
  than the limit one of them was admitted under.
- `PayingHoldsBudget`, `SettledNotDenied`, `OnePayment`: the payment and the row
  agree, but for contested rows and lost answers.
- `DecisionIsFinal` (action property): no step reverses a decision of a row that is
  not contested.
- `HeldUntilGranted`, `BarredNeverPays`: the human's threshold and the operator's
  kill switch.
- `LeaksExplained`: while the engine serves, a reservation that waits for its payment
  with no handler at work on it was left by an exception (`dropped`), or was taken less
  than the outbound timeout before the engine was last started. `CrashReleases`
  (liveness) says of the latter what `README.md:228` does; it is violated.
- `KeepsBudget` (refinement): `Budget!Spec` under the mapping `Items`.
- `TamperLocated`: the breaks `verify_chain` finds are the successors of the
  altered events, so an unaltered ledger verifies. `HeadCommits`: the head's hash
  commits to what was *written*, altered events included. Both until a drill hits an event that nothing followed yet
  (`headEdited`), which `verify_chain`'s docstring excepts. `Restorable`: every altered
  event has a backup that puts its body back as written, unless a drill of that event
  overlapped a restore.
- `ChangesLogged`: a change that was made is in the ledger when its handler ends.
- `NoSecondFee`, `AnchorsPublished`, `AnchorTells`, `SlotFreed` (liveness): anchors.
- `ReportCatches`: what was altered from the report's first read to its verdict
  makes it `tampered`; `NoFalseAlarm`: a `tampered` verdict has an alteration.
- `CacheIsFile`, `ServedIsCurrent`, `NothingLost`: the file, the cache and the edits,
  until a save by hand overlaps a call that edits.
- `AcceptedOnce`, `RefusedOnlyIfAccepted`: the nonce table. A request that came before
  its own timestamp may be let in twice; nothing is said of one that was overtaken.
- `SettledDelivered`: a payment is settled only when the route has the product, for
  the arguments that were approved. `DataIsRecent`: what is served is no older
  than its TTL and one timeout, and so was the list of tickers when it was used.
  `TokenOutlivesExchange`: no call is turned away for its token, unless the secret was
  raced for or the second leg came late. `AnswerIsTrue`: the code the engine derives
  names the layer that failed, and is `approved` exactly when the payment was settled
  and the server heard of it. A bare 500 names two layers, since the facilitator's
  exception and an upstream's look the same (section 5).
- `KeysKept`: the key an agent was given stays its key. `ReadyIsFunded`: an agent
  that is `ready` has held fees, opt-in and capital. `NeverOverfunded`: what an
  account holds and what is on its way to it is less than one top-up above
  *enough*, unless a thread misread its balances. `StatusSettles` (liveness): `funding`
  ends, unless the thread could not be started.

### Runs that find a violation

Each states what a comment, a test or the docs say, and TLC shows a run of the
code that does otherwise; quotes and lines are in `PROJECT.json`, `findings`.

| run | what the code does |
|---|---|
| `concurrent_reviews` | two overlapping approvals of one hold pay twice |
| `crash_leak` | the engine dies while a payment is under way and is up again before the outbound timeout is over, as `start.sh` has it (`pkill`, `sleep 1`, start): the reservation is too young to be reaped, and holds its budget from then on |
| `lost_event` | two appends read one head; the second fails on the primary key, and the change it was to log (a freeze, an edit) is made but not in the ledger |

### Bounds, and why they are enough

One agent: agents share no row, no budget and no window, so a second one only multiplies
states (the theorems hold for any set). Two threads: every property is violated, when
its code is broken, by two handlers; `holds` gives them four requests, in sequence or at
once. Two or three spends of one or two cents against a cap of one or two cents make the
cap bind exactly; three spends against a limit of two make the rate limit bind.
`DayLength` and `VelocityWindow` of two ticks with `MaxClock = 3` put a midnight and a
full window inside the run, and with an outbound timeout of one tick a reservation can
be older or younger than it at a restart. One crash at any point; two differ from one
only in what reaping sees, and reaping looks at each row alone. `holds` has no clock, so
nothing is reaped there: reaping is in `spend_race`; it has one reset and one edit at
any point, and every kind of edit (a freeze, a revocation, a lower cap, removal,
registration, reload). Threads are symmetric, and the symmetry is not used for liveness.
Runs end at the bounds, but there is no deadlock: `Rest` stutters only when every thread
is idle, so a handler that is stuck is reported.

The ledger needs three events for a break that is neither the first nor the last, two
writers to race, and four drills for tampering twice, restoring and tampering again.
`anchoring` has two threads because the lock is between two, and three decisions against
a threshold of two, so an anchor can fall due while another is in flight.
`integrity_report` has one report, two drills and a rewrite among two decisions and an
anchor; errors and unconfirmed notes are left to `anchoring`, since a report reads only
recorded anchors. `policy_store` has two agents with two settings each, so an edit of
one can undo one of the other, and four calls, enough for a load, a failed write, an
edit and a read after either of two saves. `resource_server` has two calls that may ask
for the same, weather and company TTLs of zero (served from the cache only in the same
tick) and a ticker TTL of one tick, so an entry can be hit, expire and be replaced in
two ticks, and each leg can take all its time. No token expires in that time because the
payment is late, so `TokenOutlivesExchange` is checked there for slow first legs and for
the secret; for late second legs the theorem has it. The company is asked for under a
spelling that is not the one it is cached under. `provisioning` has two agents and two
onboardings, which may be for one agent in turn or for two at once; a top-up of three
ALGO, of which two are enough, so that an account that spent can be short or just not
short. `identity` has two agents that drew the same nonce, a window of two ticks each
way, a clock to five and signers one tick ahead or behind, so a request can leave its
window and its nonce the table, come again, and come early and again after its nonce was
pruned.

### Fairness

In `SpendEngine`, only for `crash_leak`: weak fairness of `Step(h)` for each thread (the
thread pool schedules it; its `session.get` has a timeout, so it returns or raises), of
`Restart` (a dead engine is started again) and of `Tick`. Nothing is assumed of callers,
reviewers, operators or the resource server, which may never answer; the counterexample
is not a handler, an engine or a clock that stopped. `StatusSettles` takes weak fairness
of `JobStep(o)`: the thread runs, and each question to the node is answered, refused or
cut off; algosdk's client has no timeout of its own, so a node that accepts a connection
and never answers is excluded. `wait_for_confirmation` gives up after six rounds.
Nothing is assumed of transactions, which need not get into a block. `SlotFreed` takes
weak fairness of `AnchorStep(t)`: the thread runs, the node answers or drops the
connection, and `wait_for_confirmation` returns after six rounds at most. Nothing is
assumed of the chain, which need not take a note.

## 4. What is proved

With TLAPS, for every set of agents, handlers, configurations and amounts and
every value of the other constants:

| theorem | states |
|---|---|
| `TypeCorrect` | `[]TypeOK` |
| `HoldsNeedGrants` | `[]HeldUntilGranted` |
| `KillSwitch` | `[]BarredNeverPays` |
| `RateHolds` | `[]RateBound` |
| `CapHolds` | `[]WithinCap` |
| `BudgetHeldWhilePaying` | `[]PayingHoldsBudget` |
| `SettledStaysCounted` | `[]SettledNotDenied` |
| `PaidAtMostOnce` | `[]OnePayment` |
| `DecisionsAreFinal` | `DecisionIsFinal` |
| `LeaksAreExplained` | `[]LeaksExplained` |
| `EngineImplementsBudget` | `KeepsBudget` |
| `EngineImplementsExchange` | `KeepsExchange`, of `SpendEngine` |
| `LedgerTypeCorrect` | `[]LedgerTypeOK` |
| `HeadsCommit` | `[]HeadCommits` |
| `TampersLocated` | `[]TamperLocated` |
| `AlterationsUndone` | `[]Restorable` |
| `AnchoringTypeCorrect` | `[]AnchoringTypeOK` |
| `NoFeeTwice` | `[]NoSecondFee` |
| `AnchorsArePublished` | `[]AnchorsPublished` |
| `AnchorsTell` | `[]AnchorTells` |
| `ReportsCatch` | `[]ReportCatches` |
| `ReportsRaiseNoFalseAlarm` | `[]NoFalseAlarm` |
| `LedgerHoldsUp` | `[](TamperLocated /\ HeadCommits)`, of `Anchoring` |
| `StoreTypeCorrect` | `[]PolicyTypeOK` |
| `CacheCoherent` | `[]CacheIsFile` |
| `ServedCurrent` | `[]ServedIsCurrent` |
| `EditsPersist` | `[]NothingLost` |
| `RequestAcceptedOnce` | `[]AcceptedOnce` |
| `OnlyAcceptedRefused` | `[]RefusedOnlyIfAccepted` |
| `IdentityTypeCorrect` | `[]IdentityTypeOK` |
| `ProvisioningTypeCorrect` | `[]ProvisioningTypeOK` |
| `KeysAreKept` | `[]KeysKept` |
| `ReadyAreFunded` | `[]ReadyIsFunded` |
| `ToppedUpOnce` | `[]NeverOverfunded` |
| `ServerTypeCorrect` | `[]ServerTypeOK` |
| `SettledIsDelivered` | `[]SettledDelivered` |
| `ServedIsRecent` | `[]DataIsRecent` |
| `AnswersAreTrue` | `[]AnswerIsTrue` |
| `TokensLast` | `[]TokenOutlivesExchange` |
| `ServerImplementsExchange` | `KeepsExchange`, of `ResourceServer` |

No theorem has a premise about how the program is used: reviews overlap, clocks are
off, processes start at once, drills and restores meet. What such an overlap may spoil
is named by a history variable in the property itself, and only that much is given up.
The assumptions are those on the constants, in the modules that declare them.

*LocalInv* is the first inductive invariant: types; for each pc, what the handler
holds (`LocalOK`), that the call it waits for is its own (`CallKnown`), that a
row about to be paid was born `pending` or was granted (`Released`), and that a
bar which has lasted since the handler began is still seen through its `view`
(`BarHolds`). The last is what makes the kill switch inductive: an in-place edit
changes what a live view sees together with the policy, a removal or reload
freezes the view at a configuration in which the bar already held, and a bar
that is lifted is dropped. A step that leaves a handler alone keeps its part if
the world only *grows* around it (`Grows`, `OthersKeep`); each action is then one
lemma about the handler that takes it.

*PayInv* adds: the cap; that nothing runs while the engine is down (`DownIdle`); that
no two handlers are at work on one row that is not contested (`RowsOwned`), as `Review`
marks the row that another handler has, and a row that a handler inserts is new; that
the row a handler is at work on, alone, is undecided (`OwnedUndecided`); that a call
which was neither lost nor refused is waited for, or its row is contested, or that row
is approved and nobody is at work on it (`PaymentTracked`); and `OnePayment`. Each
needs the others: `finalize` keeps the cap because the row it changes is undecided, so
already counted, or contested, so left out; a second call cannot be open when the owner
sends one because `PaymentTracked` would give the row another owner; reaping meets no
owned row because the engine is down. A handler that ends in an exception gives up its
row as it is: undecided, so another may take it; but one that has a settled payment to
record loses the answer with it.

*LeakInv* is for `LeaksExplained`: only a handler of `/spend`, before it parks, or of a
release has a row that says `pending` (`HeldRow`), and no such row is from the future. A
step of a handler is `Tidy`: it inserts at most one such row and keeps it in hand, and
it lets go of its row only when that no longer waits, or as a dropped one. What remains
is the crash, which leaves every row to `Restart`, and `Restart` reaps what is at least
one outbound timeout old.

The cap itself is two lemmas about finite sets of cents (`StorageProofs`):
`InsertKeepsCap` (a row added at the end fits by the check made in the same
transaction, and earlier rows look only at rows before them) and
`ReleaseKeepsCap` (finalize, reap and reset never make a row count that did not).

*RateKept* is the same for the rate limit: looking back one window from the time a
row was admitted at, the rows of its agent admitted up to and with it are no more
than the limit it was admitted under, which is what `try_reserve` counted
(`InsertKeepsRate`). A later row changes nothing for an earlier one, since ids grow,
and no transaction changes when or how a row was born, so no review can break it,
contested or not. `RateBound` follows without timestamps being in
table order: of the admitted rows in a window the last one inserted sees all others,
as they are after the window's begin and so after its own time less one window.

`EngineImplementsBudget` is a step lemma for each of the six things that happen to
the table: it is left alone, a row is inserted under a cap (`Admit`: the
transaction's check is `Budget`'s guard, as the sets of cents are the same), a row
is born denied (a stutter), a hold is parked (a stutter: both are *held*), one row
is resolved or disputed, many are reaped, all are wiped. *PayInv* supplies that a row
that is resolved was undecided or is disputed; one more invariant, `BornDenied`, that a row born denied
stays denied, so that it never turns into an item.

For `EngineImplementsExchange`, *LocalInv* is strengthened by
`OpenIsAwaited`: an open call that is not lost is waited for, so an answer that arrives
for a call nobody waits for changes nothing the engine knows. Most steps are `Apart`
from any call: the thread that takes them neither waits for one nor begins to. What is
left is `Send`, `Answer`, the end of a wait (`RecordTrades`) and the losses (`Loses`).
No two threads need be kept from waiting for one call: the second to be done with it
changes nothing.

*LedgerInv*: until the newest event is edited, each event's `prev` is the hash of
the history as *written* before it, and its hash is that history with its own
body, altered or not (`EventsFit`); the newest body is as written; what a writer
or a driller has read fits the same way (`ReadsFit`), and so do the backups,
which are never of the newest event (`BackupsFit`). `ReadsFit` is needed because
`append_event` links to a head it read before the lock: the head cannot have
been edited since, for it was the newest. An altered event then breaks the link
of its successor and no other, which is `TamperLocated`.

*RestoreInv* adds, for `Restorable`, about the events that are not crossed: putting the
oldest backup back leaves what was written, and an event without a backup still says it
(`Undoable`); the same is so of the backups that a restore has read (`RestoresCurrent`);
a driller that is about to alter an event which has no backup has read what was written
(`DrillsCurrent`); and a backup is of an event that exists (`BackedRows`). Two drills of
one event may overlap: the later one backs up the doctored body, or what was written a
second time, and the oldest backup is what was written either way. Two restores may overlap too: the second puts back what
is already there. A restore that meets a drill of the same event is what `crossed` is for.

*AnchorInv* is *LedgerInv* and three parts. A thread that carries a head holds the
lock, the head is newer than every recorded anchor, and its note, once sent, is the
last on the chain (`ThreadFits`). An anchor is older than the newest event, since
recording it appended one; so the next head read is past it, every later note
commits to more, and nothing is paid for twice: the lock alone would not do, nor
would the event (`AnchorFits`). Its note is in a block and says what the table says,
and, read before the newest event was edited, it commits to the history *as
written*, so recomputing every hash in the file does not fit it. A report has noted
every event that is altered (`ever`) and each that was so from its first read on
(`always`) lies under a sound anchor it has yet to check, or has been found
(`ReportFits`). Around a thread or a report the ledger only grows
(`CommitsKept`, `AnchorKept`, `ThreadKept`, `WatchKeeps`), whoever appends, drills,
restores or rewrites; so each action is again one lemma. `LedgerHoldsUp` carries the
ledger's theorems over to the composition, whose `Rewrite` the ledger alone does
not have.

*StoreInv*: when the cache's mtime is the file's, and between an edit's load and
its rename whether it is or not, the dict agrees with the file but for `unsaved`
and the agent being edited (`CacheFits`, `EditFits`); so what the rename writes is
what was intended. Mtimes in hand are never ahead of the file's (`Times`), so a
later write cannot make a stale one current. A call has witnessed what the file
holds now (`Seen`), which gives `ServedIsCurrent` at a load and at a cache hit. A call
that edits and a save by hand are not under way at once (`EditsAlone`). All this is so
until the two clash: the inductive invariant is *CalmInv*, that *StoreInv* holds while
nothing has clashed, over the types, which hold always; and a clash is never forgotten
(`ClashStays`).

*IdentityInv*: a request under verification was in its window when its thread read the
clock (`UnderWay`). One that was let in, and was not overtaken, is in the table with a
time no earlier than a certain moment, or the table has been pruned by a clock past
that moment and one window (`Remembered`); the moment is its timestamp, or, if it has
been let in only once and early, one window before that (`LetIn`). So an entry is gone
only when `swept` has passed the window of its request, or its early part; a thread that
is not overtaken has a clock no earlier than `swept`, and in the first case finds its
request out of its window, in the second one lets it in once more, with a time that is
now its timestamp's or later. What needs none of this is *GenuineInv*: behind the
signature check there is only the request itself, so what is in the table was let in,
and with it what is refused as replayed; clocks play no part in that.

*FundInv*: what the holder of `_accounts_lock` has read is what the file says
(`ReadFits`), so the write that adds a key drops none; what a thread has left to do
and what its account has met are together everything (`NothingSkipped`); and the
transactions of a thread are for its account, those in a block being among what the
account has met (`SentFits`), so that a confirmation takes nothing off `todo` that
was not met. *RestInv* adds, for `ToppedUpOnce`: a thread whose balances nobody misread (`Clear`) is
the only one at work on its account (`OneAtWork`); of what it has yet to send nothing is
on the way (`NothingComing`); and its account is short of it (`StillShort`), which is
what a sending uses up. The three are so when a thread takes the balances as they are
with nothing to come, and from then on whoever else begins with that account while the
thread is at work marks it `misread`; a removal changes nothing of it. The amounts are
taken to be positive, which `ProvisioningAssumption` says and `config.py`'s defaults are.

*ServerInv*: the two records of a call belong together (`Paired`: a request is about
what its thread asked for, and is worked on in its second leg only); the product is in
hand before the settlement is asked for, and is what was asked for (`Delivered`); each
pc says how long ago the upstreams can have been asked (`Punctual`); the status and
the code of an answer name the layer that gave it, and a 200 goes with the payment
(`Named`); an entry of the cache expires no later than its age allows (`CachedFits`).
An entry's expiry counts from when it was put, which is up to one timeout after its
source was asked: hence the bounds of `DataIsRecent`. *TokenInv* adds, for
`TokensLast`: as long as nothing was raced for, a process that is running has the secret
that is in the file (`SecretFits`); and what the first leg leaves of the token's life is
the margin (`TokenFits`): the leg uses no more than `OUTBOUND_TIMEOUT_SECONDS`, so
`priced + TokenMargin` is no later than the expiry, and a second leg that arrives
within the margin of the price finds the token good.

`ServerImplementsExchange` goes by who takes the step. The server, or the network,
works only on a request that is on its way or in hand, and such a call is open
(`BusyIsOpen`); so its step ends that call or is a stutter, and its death ends all
that it was at (`CallsEnd`). The engine's thread sends a call (`RequestSends`), goes
from one leg to the next, which is a stutter (`BetweenLegs`), or is through with it
(`EndIsKnown`): it gave up, which is `Lose`, or it read an answer, which *ServerInv*
says is that of an ended call, 200 if and only if it was paid and the server heard of
it; if it did not, what the engine reads is `Lose`. *ServerInv* is strengthened by `SigningIsPriced`: while
the client makes a payment the request rests at the 402 of its first leg, so that
sending the second leg revives nothing that had ended.

Only model-checked: `SlotFreed` and `StatusSettles`, which are liveness under fairness
and out of the prover's reach, and the three runs that find a violation. Every other
property of a passing run is a theorem. The two `KeepsExchange` are theorems that no run
lists; TLC agrees with them on small instances.

## 5. Limits of the promises

What the properties except, and what else the code does that a comment or the
documentation would not lead one to expect.

### Spending

*A crash.* A reservation that was made less than the outbound timeout before the
engine is up again is not reaped, and nothing looks at it until some later restart
(`storage.py:171`): `crash_leak`. `README.md:228` calls the leak fixed, and
`start.sh:85-98` restarts the engine after one second. `LeaksExplained` has it as its
third case. A release that a crash cuts off leaves its row `awaiting_approval` although
its payment may settle; the hold is offered and paid again (`OnePayment` excepts lost
answers).

*An exception.* "Every exit path here MUST finalize the reservation" (`app.py:759-763`)
is not so of what stands outside the two `try` blocks, nor of the `finalize` itself,
which raises when the database stays busy for ten seconds. The row then stays `pending`
or `awaiting_approval`, whatever became of the payment, until a restart reaps it or a
human reviews it again: the second case of `LeaksExplained`, and a lost answer when the
payment had settled.

*Overlapping reviews.* Two approvals of one hold that overlap pay twice
(`concurrent_reviews`). A rejection that overlaps an approval leaves a settled payment
`denied` (`app.py:1083`), or a denied row is turned into an approved one; the rejection
frees the budget of a hold being paid, another spend reserves it, and the payment's late
`approved` counts both, so an agent may spend more than its cap. A review that overtakes
the parking has its decision overwritten by `awaiting_approval`, and the hold can be
released again. All of this is about the `contested` row, which the properties leave
out, and nothing else is touched; what is spent beyond the cap is what contested rows
cost.

*A lost answer.* A timeout denies the row and frees its budget although the resource
server may settle the payment later, so money spent may exceed the cap by payments whose
answer was lost. The engine cannot know; the model has it as `lost`.

A `/spend` is not judged by one policy. `get_policy` returns the cached dict itself,
which `update_agent` changes in place (`policy_store.py:81`), so a PATCH between two
checks is seen by the later one; the comment at `app.py:855-858` promises "one
consistent view". `SpendEngine` has it as `view = Live`.

`/admin/reset` deletes rows whose payments are under way. Their `finalize` finds no row
and the handler ends; every property speaks of rows that are still there.

A spend for less than the action's price is admitted and reserved for its amount and
settles the price: nothing in `spend` compares the two (`app.py:871`).

### The ledger and anchoring

An event appended while the newest one is tampered with is linked to the doctored hash,
so the restore mends the bodies but not that link (`storage.py:798`). A drill between
`restore_tampered`'s read of the backups and its DELETE loses its backup
(`storage.py:802`), and one that read its event before the restore backs up what was
doctored then: `Restorable` excepts the event of such a drill.

A decision made while an anchor is in flight starts none, and nothing looks again when
it ends, so the backlog may stay at or over the threshold until the next decision
(`README.md:221` says the window is capped). `record_anchor` appends an event, so the
head is always past the last anchor, "already anchored" is never the answer, and each
request on an idle ledger pays a fee (`anchor.py:120`). A confirmation that is given up
on may still get in; the retry then pays for a second note of a head that is in no
table. The report checks the last `AnchorLimit` anchors, and `AnchorTells` is for
anchors taken before the newest event was first edited.

### The policy store

A save by hand that lands between `os.replace` and the `getmtime` after it
(`policy_store.py:139`) leaves the cache stamped with the save's mtime, and the save is
not loaded until something writes the file again; one that lands between the load and
the rename is overwritten. From such an overlap on (`clashed`), nothing is promised. An
edit whose write failed, so that its caller got an error, is in force all the same until
the file is next loaded (`unsaved`), and is written with the next edit that succeeds
(`carried`).

### Identity

The promise is per process, because the table is in memory (`identity.py:42-44` argues
that this is enough). "A valid signature replayed twice must not pass"
(`identity.py:94-96`) is not so in two cases. `abs()` lets a request pass up to one
window before its timestamp, and a nonce is kept for one window from when it was *seen*,
so such a request outlives its nonce and is let in again (`early`: twice at most). And a
thread judges the table by a clock it read before it waited for the lock, so it may be
behind the one that pruned the table (`overtaken`); by how much, nothing bounds.

### The resource server

`_classify_failure` says that "every status here means no payment was taken"
(`app.py:723-725`). When the settlement goes through and only the facilitator's answer
does not come, the client gets a 402 all the same, and the engine denies a row that was
paid: `AnswerIsTrue` excepts `unheard` calls. When the facilitator's `verify` raises, the
bare 500 is taken for the vendor's (`upstream_unavailable`), which "sends whoever is on
call to the wrong system": `Layers` has two layers for that code. A payment whose engine
gave up (`payment_failed`) may be settled; `AnswerIsTrue` is about answers that arrived.

Two processes that start for the first time together may each create a secret, and one
keeps what the other overwrote, or reads an empty file (`policy_auth.py:56-64`); a
process that dies between opening and writing it leaves an empty file for both: then
both agree on an empty secret, or every token is refused until one is restarted.
`TokenOutlivesExchange` excepts it (`raced`), and calls whose payment took longer to make
and to bring than the 30 seconds of the margin (`late`).

### Provisioning

"Every step is skipped if it's already true, so this is safe to re-run"
(`provisioning.py:133`) is not so in three cases, which `NeverOverfunded` excepts
(`misread`): a balance that cannot be read counts as zero (`provisioning.py:121`); an
agent is removed and registered again while its thread is at work, so a second one
starts; or while something that was given up on may still get into a block. Each funds an
account again. An agent whose thread could not be started is said to be `funding` until
the engine restarts (`unstarted`). When `on_done` raises, an agent that is ready is set
to `failed` (`provisioning.py:224`). `ReadyIsFunded` says what the account has held, not
what it holds: the agent may have spent it. `setup_accounts.py` rewrites `accounts.json`
without the lock; it is run before the engine is started.

## 6. Not modelled

Admin authentication (one header compared, no state), argument resolution (a pure
function of one request), configuration (read once at import: it is the modules'
constants), the algod and x402 clients (thin wrappers), the simulator, scripts and
the dashboard (clients). The events the handlers append, by type: the events of a
row are appended in the transaction that writes the row, so they cannot come
apart; those of the administration handlers can, which is `ChangesLogged`.

## 7. Plan

The modules of the first plan are written. What is left, in order:

1. An abstract specification of the published history (an append-only log of which
   ever longer prefixes are published), and `Anchoring` shown to implement it.
2. The safety half of the liveness properties: that the slot for anchoring is only
   ever taken by a thread whose next step is enabled, and likewise for `_status`.
3. `_resolve_params` and `_resolve_company` as operators checked against reference
   definitions.
