--------------------------- MODULE ResourceServer ---------------------------
(***************************************************************************)
(* A paid call, from the engine's _execute_payment (policy_engine/app.py)  *)
(* to the resource server (resource_server/main.py, upstreams.py) and      *)
(* back.  The engine mints a token (common/policy_auth.py) and sends the   *)
(* request; the x402 client answers the 402 with the same request and a    *)
(* payment; the server checks the token on both, verifies the payment,     *)
(* runs the route, and settles only when the route had an answer under     *)
(* 400.  The engine may give up at any time, and the server does not       *)
(* notice.                                                                 *)
(*                                                                         *)
(* Time: waiting takes time, up to the bound of what is waited for;        *)
(* computing takes none.                                                   *)
(***************************************************************************)
EXTENDS Naturals

CONSTANTS
    Calls,              \* the paid calls
    Names, Blank,       \* what may be asked for: a place or a company; nothing
    Canonical,          \* a name -> the same, stripped and in lower case
    Queries,            \* what is asked for
    Nothing,            \* None
    Faults,             \* ways for an upstream GET to fail: see Status
    OutboundTimeout,    \* OUTBOUND_TIMEOUT_SECONDS, which is per leg
    TokenMargin,        \* what TOKEN_TTL_SECONDS adds to it
    UpstreamTimeout,    \* UPSTREAM_TIMEOUT_SECONDS
    WeatherTtl, CompanyTtl, IndexTtl,
    MaxClock, MaxCrashes

\* The HTTP status that each UpstreamError carries.
Status == [upstream_timeout |-> 504, upstream_unreachable |-> 502,
           upstream_rate_limited |-> 502, upstream_error |-> 502,
           upstream_malformed |-> 502, upstream_not_found |-> 404,
           place_not_found |-> 404, company_not_found |-> 404, missing_param |-> 400]

Query == [route : {"weather", "enrich"}, name : Names \cup {Blank}]

ASSUME ServerAssumption ==
    /\ Queries \subseteq Query
    /\ Blank \notin Names
    /\ Canonical \in [Names \cup {Blank} -> Names \cup {Blank}] /\ Canonical[Blank] = Blank
    /\ Nothing \notin Query \cup [for : Query, age : Nat, lag : Nat]
    /\ Faults \subseteq DOMAIN Status
    /\ {OutboundTimeout, TokenMargin, UpstreamTimeout,
        WeatherTtl, CompanyTtl, IndexTtl, MaxClock, MaxCrashes} \subseteq Nat

VARIABLES
    clock,
    engine,            \* call -> the thread in _execute_payment
    server,            \* call -> the request at the resource server
    cache,             \* _cache of upstreams.py
    settled,           \* calls whose payment is on the chain
    secret,            \* the secret's file, and what each process has in memory
    boot,              \* process -> how far it has started
    crashes

(***************************************************************************)
(* History, which no action reads: whether a process has read the secret's *)
(* file while it was empty, or emptied or overwritten one that was not;    *)
(* the calls whose second leg reached the server more than the margin      *)
(* after the price; and those whose settlement went through without the    *)
(* server hearing of it.                                                   *)
(***************************************************************************)
VARIABLES raced, late, unheard

history == <<raced, late, unheard>>

vars == <<clock, engine, server, cache, settled, secret, boot, crashes, history>>

\* The cache's key for the list of tickers.
Tickers == [route |-> "tickers", name |-> Blank]

Processes == {"engine", "server"}

\* A secret: not there yet, a file not yet written to, or one of the two that the
\* processes may create.
Secrets == {"none", "empty", "first", "second"}

\* priced is history: when the 402 of the first leg came.
IdleCall == [pc |-> "idle", query |-> Nothing, key |-> "none", exp |-> 0, since |-> 0,
             priced |-> 0, code |-> "none"]

\* key and exp are of the token, until it is checked.  Two fields are history:
\* product, what the route has served, for what and how old it was then; and blame,
\* the layer that turned the request away.
NoRequest == [pc |-> "none", query |-> Nothing, key |-> "none", exp |-> 0, leg |-> 1,
              since |-> 0, listed |-> 0, product |-> Nothing, status |-> 0,
              code |-> "none", blame |-> "none"]

\* Both sides' records change together when a leg is sent; the rest of the time
\* only one of them does.
EngineTo(c, rec) == engine' = [engine EXCEPT ![c] = rec]
ServerTo(c, rec) == server' = [server EXCEPT ![c] = rec]

----------------------------------------------------------------------------
(***************************************************************************)
(* _load_or_create_secret, when a process is imported.                     *)
(***************************************************************************)
Other(p) == CHOOSE q \in Processes : q # p

\* A file without content is read as a secret without content.
Start(p) ==
    /\ boot[p] = "down"
    /\ raced' = (raced \/ secret.file = "empty")
    /\ IF secret.file = "none"
       THEN /\ boot' = [boot EXCEPT ![p] = "creating"]
            /\ UNCHANGED secret
       ELSE /\ boot' = [boot EXCEPT ![p] = "running"]
            /\ secret' = [secret EXCEPT ![p] = secret.file]
    /\ UNCHANGED <<clock, engine, server, cache, settled, crashes, late, unheard>>

OpenSecret(p) ==
    /\ boot[p] = "creating"
    /\ boot' = [boot EXCEPT ![p] = "writing"]
    /\ raced' = (raced \/ secret.file \in {"first", "second"})
    /\ secret' = [secret EXCEPT !.file = "empty"]
    /\ UNCHANGED <<clock, engine, server, cache, settled, crashes, late, unheard>>

\* token_bytes: not the secret of the other process.
WriteSecret(p) ==
    LET new == IF secret[Other(p)] = "first" THEN "second" ELSE "first" IN
    /\ boot[p] = "writing"
    /\ boot' = [boot EXCEPT ![p] = "running"]
    /\ raced' = (raced \/ secret.file # "empty")
    /\ secret' = [secret EXCEPT !.file = new, ![p] = new]
    /\ UNCHANGED <<clock, engine, server, cache, settled, crashes, late, unheard>>

\* The process is gone before it has written the file, which stays as it is.
StartFails(p) ==
    /\ boot[p] \in {"creating", "writing"} /\ crashes < MaxCrashes
    /\ crashes' = crashes + 1
    /\ boot' = [boot EXCEPT ![p] = "down"]
    /\ UNCHANGED <<clock, engine, server, cache, settled, secret, history>>

----------------------------------------------------------------------------
(***************************************************************************)
(* The engine: session.get of a session that pays.                         *)
(***************************************************************************)
\* Wrong: the margin is left out.
TokenTtl_NoMargin == OutboundTimeout

TokenTtl == OutboundTimeout + TokenMargin

Leg(c, n, call) ==
    ServerTo(c, [NoRequest EXCEPT !.pc = "transit", !.query = call.query, !.key = call.key,
                                 !.exp = call.exp, !.leg = n])

\* mint_token, for these arguments; the first leg is sent.
Request(c, query) ==
    LET call == [IdleCall EXCEPT !.pc = "asking", !.query = query, !.since = clock,
                                !.key = secret.engine, !.exp = clock + TokenTtl] IN
    /\ boot["engine"] = "running" /\ engine[c].pc = "idle"
    /\ EngineTo(c, call)
    /\ Leg(c, 1, call)
    /\ UNCHANGED <<clock, cache, settled, secret, boot, crashes, history>>

\* The client starts on a payment when it gets the 402.
GetPaymentRequired(c) ==
    /\ engine[c].pc = "asking" /\ server[c].pc = "answered" /\ server[c].status = 402
    /\ EngineTo(c, [engine[c] EXCEPT !.pc = "signing", !.since = 0, !.priced = clock])
    /\ UNCHANGED <<clock, server, cache, settled, secret, boot, crashes, history>>

\* The retry carries the payment, the same token and the same URL.
Pay(c) ==
    /\ engine[c].pc = "signing"
    /\ EngineTo(c, [engine[c] EXCEPT !.pc = "paying", !.since = clock])
    /\ Leg(c, 2, engine[c])
    /\ UNCHANGED <<clock, cache, settled, secret, boot, crashes, history>>

\* Wrong: a failure is a failed payment, wherever it comes from.
Classify_PaymentFirst(status, code) ==
    IF status = 200 THEN "approved" ELSE "settlement_failed"

\* _classify_failure, and the 2xx that _execute_payment takes for a settlement.
Classify(status, code) ==
    CASE status = 200 -> "approved"
      [] status = 402 -> "settlement_failed"
      [] status = 403 -> "policy_auth_failed"
      [] status = 404 -> "upstream_not_found"
      [] status = 400 -> "bad_request"
      [] OTHER        -> IF code = "none" THEN "upstream_unavailable" ELSE code

\* The thread is through with the call.
Done(c, code) ==
    EngineTo(c, [IdleCall EXCEPT !.pc = "done", !.query = engine[c].query, !.code = code])

GetAnswer(c) ==
    /\ server[c].pc = "answered"
    /\ \/ engine[c].pc = "paying"
       \/ engine[c].pc = "asking" /\ server[c].status # 402
    /\ Done(c, Classify(server[c].status, server[c].code))
    /\ UNCHANGED <<clock, server, cache, settled, secret, boot, crashes, history>>

\* session.get raised: a timeout, a connection that broke, a payment that could
\* not be made.
GiveUp(c) ==
    /\ engine[c].pc \in {"asking", "signing", "paying"}
    /\ Done(c, "payment_failed")
    /\ UNCHANGED <<clock, server, cache, settled, secret, boot, crashes, history>>

----------------------------------------------------------------------------
(***************************************************************************)
(* The middlewares.                                                        *)
(***************************************************************************)
Serving(c, pc) == boot["server"] = "running" /\ server[c].pc = pc

Moves(c, rec) ==
    /\ ServerTo(c, rec)
    /\ UNCHANGED <<clock, engine, settled, secret, boot, crashes, raced, unheard>>

Answer(c, status, code, blame) ==
    Moves(c, [server[c] EXCEPT !.pc = "answered", !.key = "none", !.exp = 0, !.since = 0,
                              !.listed = 0, !.status = status, !.code = code, !.blame = blame])

\* verify_token: this engine's signature, these arguments, not expired.
TokenHolds(c) ==
    /\ server[c].key = secret.server
    /\ server[c].query = engine[c].query
    /\ clock <= server[c].exp

\* dispatch, then the paywall: a request that carries no payment is told the price.
CheckToken(c) ==
    /\ Serving(c, "transit")
    /\ CASE ~TokenHolds(c) -> Answer(c, 403, "none", "auth")
         [] TokenHolds(c) /\ server[c].leg = 1 -> Answer(c, 402, "none", "none")
         [] TokenHolds(c) /\ server[c].leg = 2 ->
              Moves(c, [server[c] EXCEPT !.pc = "verify", !.key = "none", !.exp = 0])
    /\ late' = IF engine[c].pc = "paying" /\ clock > engine[c].priced + TokenMargin
               THEN late \cup {c} ELSE late
    /\ UNCHANGED cache

\* The facilitator finds the payment good, or bad, or does not answer: an exception
\* that nobody catches, which Starlette answers with a bare 500.
VerifyPayment(c) ==
    /\ Serving(c, "verify")
    /\ \/ Moves(c, [server[c] EXCEPT !.pc = "lookup"])
       \/ \E status \in {402, 500} : Answer(c, status, "none", "payment")
    /\ UNCHANGED <<cache, late>>

Settle(c) ==
    /\ Serving(c, "settle")
    /\ settled' = settled \cup {c}
    /\ ServerTo(c, [server[c] EXCEPT !.pc = "answered", !.status = 200])
    /\ UNCHANGED <<clock, engine, cache, secret, boot, crashes, history>>

\* The product stays here.  If it was only the facilitator's answer that did not
\* come, the payment has gone through all the same.
SettleFails(c) ==
    /\ Serving(c, "settle")
    /\ \/ UNCHANGED <<settled, unheard>>
       \/ settled' = settled \cup {c} /\ unheard' = unheard \cup {c}
    /\ ServerTo(c, [server[c] EXCEPT !.pc = "answered", !.status = 402,
                                    !.blame = "payment"])
    /\ UNCHANGED <<clock, engine, cache, secret, boot, crashes, raced, late>>

----------------------------------------------------------------------------
(***************************************************************************)
(* The routes: _serve, fetch_weather and fetch_company.                    *)
(***************************************************************************)
\* Wrong: an error is sent as a body, with a status under 400.
Fail_As200(c, code) ==
    Moves(c, [server[c] EXCEPT !.pc = "settle"])

\* UpstreamError, which _serve turns into a response of that status.
Fail(c, code) ==
    Answer(c, Status[code], code,
           CASE Status[code] = 400 -> "arguments"
             [] Status[code] = 404 -> "record"
             [] OTHER              -> "vendor")

\* What is looked up is stripped, and what is kept is found whatever its case.
Key(query) == [query EXCEPT !.name = Canonical[@]]

Ttl(route) == IF route = "weather" THEN WeatherTtl ELSE CompanyTtl

\* Wrong: every use of an entry makes it last longer.
Fresh_Sliding(k) == cache[k] # Nothing

Fresh(k) == cache[k] # Nothing /\ clock <= cache[k].expires

\* _TTLCache.get: an entry that has expired is deleted.
Get(k) == cache' = IF Fresh(k) THEN cache ELSE [cache EXCEPT ![k] = Nothing]

\* Wrong: the value is kept without its expiry.
Put_NoExpiry(k, product, ttl) == cache' = [cache EXCEPT ![k] = product]

Put(k, product, ttl) ==
    cache' = [cache EXCEPT ![k] = [product |-> product, expires |-> clock + ttl]]

\* An answer: when its source was asked for it, and for the list it was found in.
Product(query, asOf, listed) == [for |-> query, asOf |-> asOf, listed |-> listed]

Serve(c, product) ==
    Moves(c, [server[c] EXCEPT
                !.pc = "settle", !.since = 0, !.listed = 0,
                !.product = [for |-> product.for, age |-> clock - product.asOf,
                             lag |-> product.asOf - product.listed]])

MissingName(c) ==
    /\ Serving(c, "lookup") /\ Key(server[c].query).name = Blank
    /\ Fail(c, "missing_param")
    /\ UNCHANGED <<cache, late>>

\* A GET begins: the geocoder, or, unless it is cached, the list of tickers.
Lookup(c) ==
    LET query == server[c].query IN
    /\ Serving(c, "lookup") /\ Key(query).name # Blank
    /\ Get(Key(query)) /\ UNCHANGED late
    /\ \/ Fresh(Key(query)) /\ Serve(c, cache[Key(query)].product)
       \/ /\ ~Fresh(Key(query)) /\ query.route = "weather"
          /\ Moves(c, [server[c] EXCEPT !.pc = "resolve", !.since = clock])
       \/ /\ ~Fresh(Key(query)) /\ query.route = "enrich"
          /\ Moves(c, [server[c] EXCEPT !.pc = "index"])

\* The name is found in the list, or among the places, and the second GET begins;
\* or it is not there.
Match(c, listed) ==
    \/ Moves(c, [server[c] EXCEPT !.pc = "fetch", !.listed = listed, !.since = clock])
    \/ Fail(c, IF server[c].query.route = "weather" THEN "place_not_found"
                                                     ELSE "company_not_found")

TickerIndex(c) ==
    /\ Serving(c, "index")
    /\ Get(Tickers) /\ UNCHANGED late
    /\ \/ Fresh(Tickers) /\ Match(c, cache[Tickers].product.asOf)
       \/ ~Fresh(Tickers) /\ Moves(c, [server[c] EXCEPT !.pc = "resolve", !.since = clock])

\* The geocoder has answered.
Geocode(c) ==
    /\ Serving(c, "resolve") /\ server[c].query.route = "weather"
    /\ Match(c, server[c].since)
    /\ UNCHANGED <<cache, late>>

\* The list of tickers has come.
KeepIndex(c) ==
    LET asked == server[c].since IN
    /\ Serving(c, "resolve") /\ server[c].query.route = "enrich"
    /\ Put(Tickers, Product(Tickers, asked, asked), IndexTtl)
    /\ Match(c, asked) /\ UNCHANGED late

\* The second GET is answered: what it serves was true when the source was asked,
\* or later.
Keep(c) ==
    LET query == server[c].query
        product == Product(Key(query), server[c].since, server[c].listed) IN
    /\ Serving(c, "fetch")
    /\ Put(Key(query), product, Ttl(query.route))
    /\ Serve(c, product) /\ UNCHANGED late

\* _get_json raised UpstreamError.
GetFails(c) ==
    /\ Serving(c, "resolve") \/ Serving(c, "fetch")
    /\ \E f \in Faults : Fail(c, f)
    /\ UNCHANGED <<cache, late>>

\* What came back is not what was expected: checked for, or an exception that
\* nobody catches, which Starlette answers with a bare 500.
Unusable(c) ==
    /\ Serving(c, "resolve") \/ Serving(c, "fetch")
    /\ Fail(c, "upstream_malformed") \/ Answer(c, 500, "none", "vendor")
    /\ UNCHANGED <<cache, late>>

----------------------------------------------------------------------------
EmptyCache == [k \in Query \cup {Tickers} |-> Nothing]

\* The server dies: the requests it was working on end without an answer, and the
\* settlements it had asked for may go through.
ServerDies ==
    /\ boot["server"] = "running" /\ crashes < MaxCrashes
    /\ crashes' = crashes + 1
    /\ boot' = [boot EXCEPT !["server"] = "down"]
    /\ secret' = [secret EXCEPT !.server = "none"]
    /\ cache' = EmptyCache
    /\ server' = [c \in Calls |-> IF server[c].pc \in {"none", "answered"} THEN server[c]
                                  ELSE [NoRequest EXCEPT !.pc = "dead", !.query = server[c].query,
                                                     !.product = server[c].product]]
    /\ \E through \in SUBSET {c \in Calls : server[c].pc = "settle"} :
          settled' = settled \cup through
    /\ UNCHANGED <<clock, engine, history>>

Computing == {"lookup", "index"}

\* No bound of what is being waited for has been reached.
InTime(c) ==
    /\ engine[c].pc \in {"asking", "paying"} => clock < engine[c].since + OutboundTimeout
    /\ server[c].pc \in {"resolve", "fetch"} => clock < server[c].since + UpstreamTimeout
    /\ server[c].pc \notin Computing

\* A request that finds no server is refused by the network.
Unreachable(c) ==
    /\ server[c].pc = "transit" /\ boot["server"] # "running"
    /\ ServerTo(c, [NoRequest EXCEPT !.pc = "dead", !.query = server[c].query])
    /\ UNCHANGED <<clock, engine, cache, settled, secret, boot, crashes, history>>

Tick ==
    /\ clock < MaxClock /\ \A c \in Calls : InTime(c)
    /\ clock' = clock + 1
    /\ UNCHANGED <<engine, server, cache, settled, secret, boot, crashes, history>>

Rest ==
    /\ \A c \in Calls : /\ engine[c].pc \in {"idle", "done"}
                        /\ server[c].pc \in {"none", "answered", "dead"}
    /\ UNCHANGED vars

Init ==
    /\ clock = 0
    /\ engine = [c \in Calls |-> IdleCall]
    /\ server = [c \in Calls |-> NoRequest]
    /\ cache = EmptyCache
    /\ settled = {}
    /\ secret = [file |-> "none", engine |-> "none", server |-> "none"]
    /\ boot = [p \in Processes |-> "down"]
    /\ crashes = 0
    /\ raced = FALSE /\ late = {} /\ unheard = {}

EngineStep(c) ==
    \/ \E query \in Queries : Request(c, query)
    \/ GetPaymentRequired(c) \/ Pay(c) \/ GetAnswer(c) \/ GiveUp(c)

ServerStep(c) ==
    \/ CheckToken(c) \/ VerifyPayment(c)
    \/ MissingName(c) \/ Lookup(c) \/ TickerIndex(c) \/ Geocode(c) \/ KeepIndex(c)
    \/ Keep(c) \/ GetFails(c) \/ Unusable(c)
    \/ Settle(c) \/ SettleFails(c) \/ Unreachable(c)

Next ==
    \/ \E p \in Processes : Start(p) \/ OpenSecret(p) \/ WriteSecret(p) \/ StartFails(p)
    \/ \E c \in Calls : EngineStep(c) \/ ServerStep(c)
    \/ ServerDies \/ Tick \/ Rest

Spec == Init /\ [][Next]_vars

----------------------------------------------------------------------------
(***************************************************************************)
(* Properties.                                                             *)
(***************************************************************************)
Codes == {"none", "approved", "settlement_failed", "policy_auth_failed", "bad_request",
          "upstream_unavailable", "payment_failed"} \cup DOMAIN Status

Products == [for : Query \cup {Tickers}, asOf : Nat, listed : Nat]

\* Every variable has its type.
ServerTypeOK ==
    /\ clock \in Nat
    /\ engine \in [Calls -> [pc : {"idle", "asking", "signing", "paying", "done"},
                            query : Query \cup {Nothing}, key : Secrets, exp : Nat,
                            since : Nat, priced : Nat, code : Codes]]
    /\ server \in [Calls -> [pc : {"none", "transit", "verify", "resolve", "fetch", "settle",
                                  "answered", "dead"} \cup Computing,
                            query : Query \cup {Nothing}, key : Secrets, exp : Nat,
                            leg : {1, 2}, since : Nat, listed : Nat,
                            product : [for : Query, age : Nat, lag : Nat] \cup {Nothing},
                            status : {0, 200, 400, 402, 403, 404, 500, 502, 504},
                            code : Codes,
                            blame : {"none", "auth", "payment", "arguments", "record", "vendor"}]]
    /\ cache \in [Query \cup {Tickers} -> [product : Products, expires : Nat] \cup {Nothing}]
    /\ settled \subseteq Calls
    /\ secret \in [{"file"} \cup Processes -> Secrets]
    /\ boot \in [Processes -> {"down", "creating", "writing", "running"}]
    /\ crashes \in Nat
    /\ raced \in BOOLEAN /\ late \subseteq Calls /\ unheard \subseteq Calls

\* "A call that didn't deliver the product doesn't take the agent's money": a payment
\* is settled only once the route has the product in hand, for the arguments that
\* the engine approved.
SettledDelivered ==
    \A c \in settled :
       /\ server[c].product # Nothing
       /\ server[c].product.for = Key(engine[c].query)

\* A cached answer does not "outlive the data's usefulness": what a paid call is
\* served was asked of its source within the source's TTL and one timeout, and so
\* was the list of tickers that a company was then looked up in.
DataIsRecent ==
    \A c \in Calls : server[c].product # Nothing =>
       LET product == server[c].product IN
       /\ product.age <= Ttl(product.for.route) + UpstreamTimeout
       /\ product.lag <= IndexTtl + UpstreamTimeout

\* A token lasts through both legs, however slow the first, and both processes know
\* the secret: a call that cleared policy is turned away for its token only if both
\* were creating the secret at once, or the client was longer in making the payment,
\* and the network in bringing it, than the margin.
TokenOutlivesExchange ==
    \A c \in Calls : engine[c].code = "policy_auth_failed" => raced \/ c \in late

\* The layers of the system that a failure code names; a bare 500 comes from the
\* vendor's answer or from the facilitator, and the engine blames the vendor.
Layers(code) ==
    CASE code = "approved"             -> {"none"}
      [] code = "policy_auth_failed"   -> {"auth"}
      [] code = "settlement_failed"    -> {"payment"}
      [] code = "bad_request"          -> {"arguments"}
      [] code = "upstream_not_found"   -> {"record"}
      [] code = "upstream_unavailable" -> {"vendor", "payment"}
      [] OTHER                         -> {"vendor"}

\* What the engine makes of an answer is what happened: it names the layer that
\* turned the call away, and the payment was settled if it is approved, and only
\* then, unless the server did not hear of the settlement.
AnswerIsTrue ==
    \A c \in Calls : engine[c].code \notin {"none", "payment_failed"} =>
       /\ server[c].blame \in Layers(engine[c].code)
       /\ engine[c].code = "approved" <=> c \in settled \ unheard

----------------------------------------------------------------------------
(***************************************************************************)
(* What all this is to SpendEngine (Exchange.tla).  A 402 to the first leg *)
(* ends nothing; any other answer does, and so does the server's death.    *)
(* The answer is lost when the engine gives up, and when the server does   *)
(* not hear of the settlement and reports a failure.                       *)
(***************************************************************************)
Priced(c) == server[c].status = 402 /\ server[c].leg = 1

Ended(c) == server[c].pc = "dead" \/ (server[c].pc = "answered" /\ ~Priced(c))

Known(code) ==
    CASE code = "none"           -> "nothing"
      [] code = "approved"       -> "settled"
      [] code = "payment_failed" -> "lost"
      [] OTHER                   -> "refused"

Exchanges ==
    [c \in {d \in Calls : engine[d].pc # "idle"} |->
        [state |-> IF c \in settled THEN "settled" ELSE IF Ended(c) THEN "refused" ELSE "open",
         known |-> IF c \in unheard /\ engine[c].code # "none" THEN "lost"
                   ELSE Known(engine[c].code)]]

Seen == INSTANCE Exchange WITH calls <- Exchanges

\* Two legs, two timeouts, a token, a paywall and two upstreams are one exchange to
\* the engine: nothing that was refused is settled later, nothing settled is read as
\* a refusal, and what is read before the call has ended is read as lost.
KeepsExchange == Seen!Spec
=============================================================================
