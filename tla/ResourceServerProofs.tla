------------------------ MODULE ResourceServerProofs ------------------------
(***************************************************************************)
(* Proofs about ResourceServer, for any calls, queries, delays and times to *)
(* live: what is paid for was delivered, is what was asked for and recent, *)
(* the engine reads the answer rightly, the token lasts, and a call is to  *)
(* the engine one exchange, as in Exchange.                                *)
(***************************************************************************)
EXTENDS ResourceServer, TLAPS

EngineCalls == [pc : {"idle", "asking", "signing", "paying", "done"},
                query : Query \cup {Nothing}, key : Secrets, exp : Nat,
                since : Nat, priced : Nat, code : Codes]

ServedProducts == [for : Query, age : Nat, lag : Nat]

RequestPcs == {"none", "transit", "verify", "resolve", "fetch", "settle", "answered", "dead"}
              \cup Computing

Statuses == {0, 200, 400, 402, 403, 404, 500, 502, 504}

Blames == {"none", "auth", "payment", "arguments", "record", "vendor"}

MaybeQuery == Query \cup {Nothing}

MaybeProduct == ServedProducts \cup {Nothing}

Legs == {1, 2}

Requests == [pc : RequestPcs, query : MaybeQuery, key : Secrets, exp : Nat, leg : Legs,
             since : Nat, listed : Nat, product : MaybeProduct, status : Statuses, code : Codes, blame : Blames]

CacheKeys == Query \cup {Tickers}

Entries == [product : Products, expires : Nat]

Working == {"verify", "resolve", "fetch", "settle"} \cup Computing

\* The two records of a call belong together: a request is about what the engine asked
\* for, it is worked on in its second leg only, it rests at the 402 of the first while
\* the client makes a payment, and a code is the end of the thread.
Paired(c) ==
    /\ engine[c].pc = "idle" <=> server[c].pc = "none"
    /\ server[c].pc # "none" => server[c].query = engine[c].query /\ engine[c].query \in Query
    /\ engine[c].pc # "done" => engine[c].code = "none"
    /\ engine[c].pc \in {"asking", "signing"} => server[c].leg = 1
    /\ engine[c].pc = "signing" => server[c].pc = "answered" /\ server[c].status = 402
    /\ engine[c].pc = "paying" => server[c].leg = 2 \/ server[c].pc = "dead"
    /\ server[c].pc \in Working => server[c].leg = 2

\* The product is in hand before the payment is settled, it is what was asked for, and
\* it is recent.
Delivered(c) ==
    /\ c \in settled => /\ engine[c].pc \in {"paying", "done"}
                        /\ server[c].pc \in {"answered", "dead"}
                        /\ server[c].product # Nothing
    /\ server[c].pc = "settle" => server[c].product # Nothing
    /\ server[c].product # Nothing =>
          /\ server[c].pc \in {"settle", "answered", "dead"}
          /\ server[c].product.for = Key(server[c].query)
          /\ server[c].product.age <= Ttl(server[c].product.for.route) + UpstreamTimeout
          /\ server[c].product.lag <= IndexTtl + UpstreamTimeout

InBounds(earlier, later, bound) == earlier <= later /\ later <= earlier + bound

\* How long ago the upstreams were asked.
Punctual(c) ==
    /\ server[c].pc = "resolve" => InBounds(server[c].since, clock, UpstreamTimeout)
    /\ server[c].pc = "fetch" =>
          /\ InBounds(server[c].since, clock, UpstreamTimeout)
          /\ InBounds(server[c].listed, server[c].since, IndexTtl + UpstreamTimeout)

\* The status and the code of an answer tell which layer it comes from, and whether the
\* payment was settled as far as the server heard; the engine has the code of the answer
\* it got.
Named(c) ==
    /\ server[c].code \in {"none"} \cup DOMAIN Status
    /\ server[c].pc # "answered" => server[c].blame = "none"
    /\ server[c].pc = "answered" /\ ~Priced(c) =>
          server[c].blame \in Layers(Classify(server[c].status, server[c].code))
    /\ server[c].pc = "answered" => (server[c].status = 200 <=> c \in settled \ unheard)
    /\ c \in unheard => c \in settled /\ server[c].pc = "answered" /\ ~Priced(c)
    /\ engine[c].code \notin {"none", "payment_failed"} =>
          /\ server[c].pc = "answered" /\ ~Priced(c)
          /\ engine[c].code = Classify(server[c].status, server[c].code)

\* An entry expires no later than its age allows.
CachedFits(k) ==
    cache[k] # Nothing =>
       /\ cache[k].product.for = k /\ cache[k].product.asOf <= clock
       /\ InBounds(cache[k].product.listed, cache[k].product.asOf, IndexTtl + UpstreamTimeout)
       /\ cache[k].expires <= cache[k].product.asOf + UpstreamTimeout
                              + (IF k = Tickers THEN IndexTtl ELSE Ttl(k.route))

\* As long as no two processes have got in each other's way, those that have started
\* have the secret that is in the file.
SecretFits ==
    ~raced => \A p \in Processes :
                 boot[p] = "running" => /\ secret[p] = secret.file
                                        /\ secret.file \in {"first", "second"}

Excused(c) == raced \/ c \in late

\* What the first leg leaves of the token's life is the margin, which is enough for the
\* second unless that comes late.
TokenFits(c) ==
    /\ engine[c].pc \in {"asking", "signing", "paying"} =>
          boot["engine"] = "running" /\ engine[c].key = secret["engine"]
    /\ engine[c].pc = "asking" => InBounds(engine[c].since, clock, OutboundTimeout)
                                  /\ engine[c].exp = engine[c].since + TokenTtl
    /\ engine[c].pc \in {"signing", "paying"} =>
          engine[c].priced + TokenMargin <= engine[c].exp
    /\ server[c].pc = "transit" /\ engine[c].pc # "done" =>
          server[c].key = engine[c].key /\ server[c].exp = engine[c].exp
    /\ server[c].pc = "answered" /\ server[c].status = 403 /\ engine[c].pc # "done" => Excused(c)
    /\ engine[c].code = "policy_auth_failed" => Excused(c)

CallInv(c) == Paired(c) /\ Delivered(c) /\ Punctual(c) /\ Named(c)

CacheInv ==
    /\ cache \in [CacheKeys -> Entries \cup {Nothing}]
    /\ \A k \in CacheKeys : CachedFits(k)

ServerInv ==
    /\ ServerTypeOK
    /\ \A c \in Calls : CallInv(c)
    /\ CacheInv
----------------------------------------------------------------------------
LEMMA TypeMeans ==
    ServerTypeOK <=>
        /\ clock \in Nat
        /\ engine \in [Calls -> EngineCalls]
        /\ server \in [Calls -> Requests]
        /\ cache \in [CacheKeys -> Entries \cup {Nothing}]
        /\ settled \subseteq Calls
        /\ secret \in [{"file"} \cup Processes -> Secrets]
        /\ boot \in [Processes -> {"down", "creating", "writing", "running"}]
        /\ crashes \in Nat
        /\ raced \in BOOLEAN /\ late \subseteq Calls /\ unheard \subseteq Calls
  BY DEF ServerTypeOK, EngineCalls, Requests, ServedProducts, CacheKeys, Entries, RequestPcs,
      MaybeQuery, Legs, MaybeProduct, Statuses, Blames

LEMMA Delays ==
    /\ OutboundTimeout \in Nat /\ TokenMargin \in Nat
    /\ UpstreamTimeout \in Nat /\ IndexTtl \in Nat /\ TokenTtl \in Nat
    /\ \A route : Ttl(route) \in Nat
  BY ServerAssumption DEF TokenTtl, Ttl

LEMMA StatusIs ==
    /\ DOMAIN Status = {"upstream_timeout", "upstream_unreachable", "upstream_rate_limited",
                        "upstream_error", "upstream_malformed", "upstream_not_found",
                        "place_not_found", "company_not_found", "missing_param"}
    /\ Status["upstream_timeout"] = 504 /\ Status["upstream_unreachable"] = 502
    /\ Status["upstream_rate_limited"] = 502 /\ Status["upstream_error"] = 502
    /\ Status["upstream_malformed"] = 502 /\ Status["upstream_not_found"] = 404
    /\ Status["place_not_found"] = 404 /\ Status["company_not_found"] = 404
    /\ Status["missing_param"] = 400
  BY DEF Status

AnswerCodes == {"none"} \cup DOMAIN Status

\* What the engine makes of an answer.
LEMMA ClassifyIs ==
    ASSUME NEW status \in Statuses, NEW code \in AnswerCodes
    PROVE  /\ Classify(status, code) \in Codes \ {"none", "payment_failed"}
           /\ Classify(status, code) = "approved" <=> status = 200
           /\ Classify(status, code) = "policy_auth_failed" <=> status = 403
  BY StatusIs DEF Classify, Codes, AnswerCodes, Statuses

\* The layer that an upstream error blames is the one its code names.
LEMMA FailNames ==
    ASSUME NEW code \in DOMAIN Status
    PROVE  /\ Status[code] \in Statuses \ {0, 200, 402, 403}
           /\ (CASE Status[code] = 400 -> "arguments"
                [] Status[code] = 404 -> "record"
                [] OTHER              -> "vendor") \in Layers(Classify(Status[code], code))
<1>1. /\ Layers(Classify(400, code)) = {"arguments"}
      /\ Layers(Classify(404, code)) = {"record"}
  BY DEF Layers, Classify
<1>2. ASSUME code \in {"upstream_timeout", "upstream_unreachable", "upstream_rate_limited",
                       "upstream_error", "upstream_malformed"},
             NEW status \in {502, 504}
      PROVE  Layers(Classify(status, code)) = {"vendor"}
  BY <1>2 DEF Layers, Classify
<1>3. CASE code \in {"upstream_timeout", "upstream_unreachable", "upstream_rate_limited",
                     "upstream_error", "upstream_malformed"}
  <2>1. Status[code] \in {502, 504}
    BY <1>3, StatusIs
  <2> QED
    BY <1>2, <1>3, <2>1 DEF Statuses
<1>4. CASE code \in {"upstream_not_found", "place_not_found", "company_not_found"}
  <2>1. Status[code] = 404
    BY <1>4, StatusIs
  <2> QED
    BY <1>1, <2>1 DEF Statuses
<1>5. CASE code = "missing_param"
  <2>1. Status[code] = 400
    BY <1>5, StatusIs
  <2> QED
    BY <1>1, <2>1 DEF Statuses
<1> QED
  BY <1>3, <1>4, <1>5, StatusIs

LEMMA Parts ==
    ASSUME ServerInv, NEW c \in Calls
    PROVE  /\ engine \in [Calls -> EngineCalls] /\ engine[c] \in EngineCalls
           /\ server \in [Calls -> Requests] /\ server[c] \in Requests
           /\ clock \in Nat /\ settled \subseteq Calls
           /\ CallInv(c)
<1>1. engine \in [Calls -> EngineCalls] /\ server \in [Calls -> Requests]
      /\ clock \in Nat /\ settled \subseteq Calls
  BY TypeMeans DEF ServerInv
<1> QED
  BY <1>1 DEF ServerInv

LEMMA RecordsAre ==
    /\ IdleCall \in EngineCalls /\ IdleCall.pc = "idle" /\ IdleCall.code = "none"
    /\ IdleCall.since = 0 /\ IdleCall.priced = 0
    /\ NoRequest \in Requests /\ NoRequest.pc = "none" /\ NoRequest.product = Nothing
    /\ NoRequest.code = "none" /\ NoRequest.blame = "none" /\ NoRequest.leg = 1
  BY DEF IdleCall, NoRequest, EngineCalls, Requests, Codes, Secrets, RequestPcs, MaybeQuery,
      Legs, MaybeProduct, Statuses, Blames

\* What a call knows does not change with what others do.
LEMMA OthersFit ==
    ASSUME NEW d \in Calls, CallInv(d), clock' = clock,
           engine'[d] = engine[d], server'[d] = server[d], d \in settled' <=> d \in settled,
           d \in unheard' <=> d \in unheard
    PROVE  CallInv(d)'
<1>1. Paired(d)' /\ Delivered(d)'
  BY DEF CallInv, Paired, Delivered, Ttl, Key
<1>2. Punctual(d)'
  BY DEF CallInv, Punctual, InBounds
<1>3. Named(d)'
  BY DEF CallInv, Named, Priced, Classify, Layers
<1> QED
  BY <1>1, <1>2, <1>3 DEF CallInv

\* A step of one call, on either side.
LEMMA CallMoves ==
    ASSUME ServerInv, NEW c \in Calls, NEW e \in EngineCalls, NEW s \in Requests,
           engine' = [engine EXCEPT ![c] = e], server' = [server EXCEPT ![c] = s],
           settled' \subseteq settled \cup {c}, settled \subseteq settled',
           unheard' \subseteq unheard \cup {c}, unheard \subseteq unheard',
           late' \subseteq late \cup {c},
           CacheInv', UNCHANGED <<clock, secret, boot, crashes, raced>>,
           CallInv(c)'
    PROVE  ServerInv'
<1>1. /\ engine' \in [Calls -> EngineCalls] /\ server' \in [Calls -> Requests]
      /\ \A d \in Calls \ {c} : engine'[d] = engine[d] /\ server'[d] = server[d]
      /\ settled' \subseteq Calls /\ late' \subseteq Calls /\ unheard' \subseteq Calls
  BY Parts, TypeMeans DEF ServerInv
<1>2. ASSUME NEW d \in Calls, d # c PROVE CallInv(d)'
  BY <1>1, <1>2, Parts, OthersFit
<1>3. ServerTypeOK'
  <2>1. ServerTypeOK
    BY DEF ServerInv
  <2>2. cache' \in [CacheKeys -> Entries \cup {Nothing}]
    BY DEF CacheInv
  <2> QED
    BY <1>1, <2>1, <2>2
    DEF ServerTypeOK, EngineCalls, Requests, ServedProducts, CacheKeys, Entries, RequestPcs,
        MaybeQuery, Legs, MaybeProduct, Statuses, Blames
<1> QED
  BY <1>2, <1>3 DEF ServerInv

\* The cache fits as long as nobody touches it.
LEMMA CacheStays ==
    ASSUME ServerInv, UNCHANGED <<clock, cache>>
    PROVE  CacheInv'
  BY DEF ServerInv, CacheInv, CachedFits, InBounds, Ttl, CacheKeys, Entries, Tickers

\* Each side's record is of its type, and so is the other's.
LEMMA EngineMoves ==
    ASSUME ServerInv, NEW c \in Calls, NEW e \in EngineCalls,
           engine' = [engine EXCEPT ![c] = e],
           UNCHANGED <<clock, server, cache, settled, secret, boot, crashes, history>>,
           CallInv(c)'
    PROVE  ServerInv'
<1>1. server' = [server EXCEPT ![c] = server[c]] /\ server[c] \in Requests
  BY Parts
<1>2. UNCHANGED <<raced, late, unheard>>
  BY DEF history
<1> QED
  BY <1>1, <1>2, CacheStays, CallMoves

LEMMA RequestMoves ==
    ASSUME ServerInv, NEW c \in Calls, NEW s \in Requests,
           server' = [server EXCEPT ![c] = s],
           UNCHANGED <<clock, engine, secret, boot, crashes, raced>>,
           settled' \subseteq settled \cup {c}, settled \subseteq settled',
           unheard' \subseteq unheard \cup {c}, unheard \subseteq unheard',
           late' \subseteq late \cup {c}, CacheInv', CallInv(c)'
    PROVE  ServerInv'
<1>1. engine' = [engine EXCEPT ![c] = engine[c]] /\ engine[c] \in EngineCalls
  BY Parts
<1> QED
  BY <1>1, CallMoves

LEMMA InitFits == Init => ServerInv
<1> SUFFICES ASSUME Init PROVE ServerInv
  OBVIOUS
<1>1. CacheInv
  BY DEF Init, EmptyCache, CacheInv, CacheKeys, CachedFits
<1>2. secret \in [{"file"} \cup Processes -> Secrets]
  BY DEF Init, Processes, Secrets
<1>3. ServerTypeOK
  BY <1>1, <1>2, RecordsAre, TypeMeans DEF Init, CacheInv
<1>4. ASSUME NEW c \in Calls PROVE CallInv(c)
  BY RecordsAre DEF Init, CallInv, Paired, Delivered, Punctual, Named, Working, Computing
<1> QED
  BY <1>1, <1>3, <1>4 DEF ServerInv
----------------------------------------------------------------------------
(***************************************************************************)
(* The engine's steps.                                                     *)
(***************************************************************************)
\* The request of a leg, as it is sent.
Sent(n, call) == [NoRequest EXCEPT !.pc = "transit", !.query = call.query, !.key = call.key,
                                  !.exp = call.exp, !.leg = n]

LEMMA LegSent ==
    ASSUME NEW n \in {1, 2}, NEW call \in EngineCalls, call.query \in Query
    PROVE  /\ Sent(n, call) \in Requests /\ Sent(n, call).pc = "transit"
           /\ Sent(n, call).query = call.query /\ Sent(n, call).leg = n
           /\ Sent(n, call).key = call.key /\ Sent(n, call).exp = call.exp
           /\ Sent(n, call).product = Nothing /\ Sent(n, call).code = "none"
           /\ Sent(n, call).blame = "none"
<1>1. call.key \in Secrets /\ call.exp \in Nat
  BY DEF EngineCalls
<1>2. NoRequest \in Requests
  BY RecordsAre
<1>3. Sent(n, call) \in Requests
  <2>1. "transit" \in RequestPcs /\ call.query \in MaybeQuery /\ n \in Legs
    BY DEF RequestPcs, MaybeQuery, Legs
  <2> QED
    BY <1>1, <1>2, <2>1 DEF Sent, Requests
<1>4. /\ Sent(n, call).pc = "transit" /\ Sent(n, call).query = call.query
      /\ Sent(n, call).leg = n /\ Sent(n, call).key = call.key
      /\ Sent(n, call).exp = call.exp
  BY <1>2 DEF Sent, Requests
<1>5. /\ Sent(n, call).product = NoRequest.product /\ Sent(n, call).code = NoRequest.code
      /\ Sent(n, call).blame = NoRequest.blame
  BY <1>2 DEF Sent, Requests
<1> QED
  BY <1>3, <1>4, <1>5, RecordsAre

\* The call of a thread that sends its first request, and its token.
Asking(query) == [IdleCall EXCEPT !.pc = "asking", !.query = query, !.since = clock,
                                  !.key = secret.engine, !.exp = clock + TokenTtl]

LEMMA AskingIs ==
    ASSUME ServerInv, NEW query \in Query
    PROVE  /\ Asking(query) \in EngineCalls /\ Asking(query).pc = "asking"
           /\ Asking(query).query = query /\ Asking(query).code = "none"
           /\ Asking(query).since = clock /\ Asking(query).key = secret["engine"]
           /\ Asking(query).exp = clock + TokenTtl
<1>1. clock \in Nat /\ secret.engine \in Secrets
  BY TypeMeans DEF ServerInv, Processes
<1>2. IdleCall \in EngineCalls /\ IdleCall.code = "none"
  BY RecordsAre
<1>3. clock + TokenTtl \in Nat
  BY <1>1, Delays
<1>4. Asking(query) \in EngineCalls
  BY <1>1, <1>2, <1>3 DEF Asking, EngineCalls
<1>5. /\ Asking(query).pc = "asking" /\ Asking(query).query = query
      /\ Asking(query).code = IdleCall.code
      /\ Asking(query).since = clock /\ Asking(query).key = secret["engine"]
      /\ Asking(query).exp = clock + TokenTtl
  BY <1>2 DEF Asking, EngineCalls
<1> QED
  BY <1>2, <1>4, <1>5

LEMMA RequestIs ==
    ASSUME NEW c \in Calls, NEW query, Request(c, query)
    PROVE  /\ engine' = [engine EXCEPT ![c] = Asking(query)]
           /\ server' = [server EXCEPT ![c] = Sent(1, Asking(query))]
           /\ boot["engine"] = "running" /\ engine[c].pc = "idle"
           /\ UNCHANGED <<clock, cache, settled, secret, boot, crashes, raced, late, unheard>>
  BY DEF Request, EngineTo, Leg, ServerTo, Sent, Asking, history

LEMMA RequestFits ==
    ASSUME ServerInv, NEW c \in Calls, NEW query \in Queries, Request(c, query)
    PROVE  ServerInv'
<1>1. query \in Query
  BY ServerAssumption
<1>0. PICK e, s : e = Asking(query) /\ s = Sent(1, e)
  OBVIOUS
<1>2. e \in EngineCalls /\ e.pc = "asking" /\ e.query = query /\ e.code = "none"
  BY <1>0, <1>1, AskingIs
<1>3. /\ s \in Requests /\ s.pc = "transit" /\ s.query = query /\ s.leg = 1
      /\ s.product = Nothing /\ s.code = "none" /\ s.blame = "none"
  BY <1>0, <1>1, <1>2, LegSent
<1>4. engine' = [engine EXCEPT ![c] = e] /\ server' = [server EXCEPT ![c] = s]
      /\ UNCHANGED <<clock, cache, settled, secret, boot, crashes, raced, late, unheard>>
      /\ engine[c].pc = "idle"
  BY <1>0, RequestIs
<1>5. engine'[c] = e /\ server'[c] = s
  BY <1>4, Parts
<1>6. c \notin settled /\ c \notin unheard
  BY <1>4, Parts DEF CallInv, Delivered, Named
<1>7. CallInv(c)'
  BY <1>1, <1>2, <1>3, <1>4, <1>5, <1>6
  DEF CallInv, Paired, Delivered, Punctual, Named, AnswerCodes, Working, Computing
<1> QED
  BY <1>2, <1>3, <1>4, <1>7, CacheStays, CallMoves

\* The thread, with the price in hand.
Pricing(c) == [engine[c] EXCEPT !.pc = "signing", !.since = 0, !.priced = clock]

LEMMA PricedIs ==
    ASSUME ServerInv, NEW c \in Calls, GetPaymentRequired(c)
    PROVE  /\ Pricing(c) \in EngineCalls /\ Pricing(c).pc = "signing"
           /\ Pricing(c).query = engine[c].query /\ Pricing(c).code = engine[c].code
           /\ Pricing(c).key = engine[c].key /\ Pricing(c).exp = engine[c].exp
           /\ Pricing(c).priced = clock
           /\ engine' = [engine EXCEPT ![c] = Pricing(c)]
           /\ engine[c].pc = "asking" /\ server[c].pc = "answered" /\ server[c].status = 402
           /\ UNCHANGED <<clock, server, cache, settled, secret, boot, crashes, history>>
<1>1. engine[c] \in EngineCalls /\ clock \in Nat
  BY Parts
<1> QED
  BY <1>1 DEF Pricing, GetPaymentRequired, EngineTo, EngineCalls

LEMMA PricedFits ==
    ASSUME ServerInv, NEW c \in Calls, GetPaymentRequired(c)
    PROVE  ServerInv'
<1>0. PICK e : e = Pricing(c)
  OBVIOUS
<1>1. /\ e \in EngineCalls /\ e.pc = "signing" /\ e.query = engine[c].query
      /\ e.code = engine[c].code
  BY <1>0, PricedIs
<1>2. engine' = [engine EXCEPT ![c] = e] /\ engine[c].pc = "asking"
      /\ server[c].pc = "answered" /\ server[c].status = 402
      /\ UNCHANGED <<clock, server, cache, settled, secret, boot, crashes, history>>
  BY <1>0, PricedIs
<1>3. engine'[c] = e /\ server'[c] = server[c] /\ CallInv(c)
  BY <1>2, Parts
<1>4. CallInv(c)'
  <2>1. Paired(c)' /\ Delivered(c)'
    BY <1>1, <1>2, <1>3 DEF CallInv, Paired, Delivered, Ttl, Key
  <2>2. Punctual(c)'
    BY <1>2, <1>3 DEF CallInv, Punctual, InBounds
  <2>3. Named(c)'
    BY <1>1, <1>2, <1>3 DEF CallInv, Named, Priced, Classify, Layers, history
  <2> QED
    BY <2>1, <2>2, <2>3 DEF CallInv
<1> QED
  BY <1>1, <1>2, <1>4, EngineMoves

\* The thread, with the payment sent.
Paying(c) == [engine[c] EXCEPT !.pc = "paying", !.since = clock]

LEMMA PayIs ==
    ASSUME ServerInv, NEW c \in Calls, Pay(c)
    PROVE  /\ Paying(c) \in EngineCalls /\ Paying(c).pc = "paying"
           /\ Paying(c).query = engine[c].query /\ Paying(c).code = engine[c].code
           /\ Paying(c).key = engine[c].key /\ Paying(c).exp = engine[c].exp
           /\ Paying(c).priced = engine[c].priced
           /\ engine' = [engine EXCEPT ![c] = Paying(c)]
           /\ server' = [server EXCEPT ![c] = Sent(2, engine[c])]
           /\ engine[c].pc = "signing"
           /\ UNCHANGED <<clock, cache, settled, secret, boot, crashes, raced, late, unheard>>
<1>1. engine[c] \in EngineCalls /\ clock \in Nat
  BY Parts
<1> QED
  BY <1>1 DEF Paying, Pay, EngineTo, Leg, ServerTo, Sent, history, EngineCalls

LEMMA PayFits ==
    ASSUME ServerInv, NEW c \in Calls, Pay(c)
    PROVE  ServerInv'
<1>0. PICK e, s : e = Paying(c) /\ s = Sent(2, engine[c])
  OBVIOUS
<1>1. /\ engine' = [engine EXCEPT ![c] = e] /\ server' = [server EXCEPT ![c] = s]
      /\ UNCHANGED <<clock, cache, settled, secret, boot, crashes, raced, late, unheard>>
      /\ engine[c].pc = "signing"
  BY <1>0, PayIs
<1>2. /\ engine[c].query \in Query /\ c \notin settled /\ c \notin unheard
      /\ engine[c].code = "none" /\ engine[c] \in EngineCalls
  BY <1>1, Parts DEF CallInv, Paired, Delivered, Named
<1>3. /\ e \in EngineCalls /\ e.pc = "paying" /\ e.query = engine[c].query /\ e.code = "none"
  BY <1>0, <1>2, PayIs
<1>4. /\ s \in Requests /\ s.pc = "transit" /\ s.query = engine[c].query /\ s.leg = 2
      /\ s.product = Nothing /\ s.code = "none" /\ s.blame = "none"
  BY <1>0, <1>2, LegSent
<1>6. engine'[c] = e /\ server'[c] = s
  BY <1>1, Parts
<1>7. CallInv(c)'
  BY <1>1, <1>2, <1>3, <1>4, <1>6
  DEF CallInv, Paired, Delivered, Punctual, Named, AnswerCodes, Working, Computing
<1> QED
  BY <1>1, <1>3, <1>4, <1>7, CacheStays, CallMoves

\* The record of a thread that is through.
Through(c, code) == [IdleCall EXCEPT !.pc = "done", !.query = engine[c].query, !.code = code]

LEMMA ThroughIs ==
    ASSUME ServerInv, NEW c \in Calls, NEW code \in Codes
    PROVE  /\ Through(c, code) \in EngineCalls /\ Through(c, code).pc = "done"
           /\ Through(c, code).query = engine[c].query /\ Through(c, code).code = code
<1>1. engine[c].query \in Query \cup {Nothing} /\ IdleCall \in EngineCalls
  BY Parts, RecordsAre DEF EngineCalls
<1> QED
  BY <1>1 DEF Through, EngineCalls

\* The thread ends with a code: that of the answer, or none got through.
LEMMA DoneFits ==
    ASSUME ServerInv, NEW c \in Calls, NEW code \in Codes \ {"none"}, Done(c, code),
           engine[c].pc \in {"asking", "signing", "paying"},
           UNCHANGED <<clock, server, cache, settled, secret, boot, crashes, history>>,
           \/ code = "payment_failed"
           \/ /\ server[c].pc = "answered" /\ ~Priced(c)
              /\ code = Classify(server[c].status, server[c].code)
    PROVE  ServerInv'
<1>0. PICK e : e = Through(c, code)
  OBVIOUS
<1>1. e \in EngineCalls /\ e.pc = "done" /\ e.query = engine[c].query /\ e.code = code
  BY <1>0, ThroughIs
<1>2. engine' = [engine EXCEPT ![c] = e]
  BY <1>0 DEF Done, EngineTo, Through
<1>3. engine'[c] = e /\ server'[c] = server[c] /\ CallInv(c)
  BY <1>2, Parts
<1>4. CallInv(c)'
  <2>1. Paired(c)'
    BY <1>1, <1>3 DEF CallInv, Paired
  <2>2. Delivered(c)'
    BY <1>1, <1>3 DEF CallInv, Delivered, Ttl, Key
  <2>3. Punctual(c)'
    BY <1>3 DEF CallInv, Punctual, InBounds
  <2>4. Named(c)'
    BY <1>1, <1>3 DEF CallInv, Named, Priced, Classify, Layers, history
  <2> QED
    BY <2>1, <2>2, <2>3, <2>4 DEF CallInv
<1> QED
  BY <1>1, <1>2, <1>4, EngineMoves

LEMMA EndFits ==
    ASSUME ServerInv, NEW c \in Calls, GetAnswer(c) \/ GiveUp(c)
    PROVE  ServerInv'
<1>1. CASE GetAnswer(c)
  <2>1. server[c].status \in Statuses /\ server[c].code \in AnswerCodes
    BY Parts DEF Requests, Statuses, CallInv, Named, AnswerCodes
  <2>2. ~Priced(c)
    BY <1>1, Parts DEF GetAnswer, Priced, CallInv, Paired
  <2>3. Classify(server[c].status, server[c].code) \in Codes \ {"none"}
    BY <2>1, ClassifyIs
  <2> QED
    BY <1>1, <2>2, <2>3, DoneFits DEF GetAnswer
<1>2. CASE GiveUp(c)
  <2>1. "payment_failed" \in Codes \ {"none"}
    BY DEF Codes
  <2> QED
    BY <1>2, <2>1, DoneFits DEF GiveUp
<1> QED
  BY <1>1, <1>2
----------------------------------------------------------------------------
(***************************************************************************)
(* The server's steps.                                                     *)
(***************************************************************************)
\* A request that is under way: nothing is settled, served or blamed yet.
UnderWay == {"transit"} \cup (Working \ {"settle"})

LEMMA NothingYet ==
    ASSUME ServerInv, NEW c \in Calls, server[c].pc \in UnderWay
    PROVE  /\ c \notin settled /\ c \notin unheard
           /\ server[c].product = Nothing /\ server[c].blame = "none"
           /\ server[c].code \in AnswerCodes /\ server[c].query \in Query
           /\ server[c].query = engine[c].query /\ engine[c].pc \notin {"idle", "signing"}
           /\ engine[c].code \in {"none", "payment_failed"}
  BY Parts DEF CallInv, Paired, Delivered, Named, UnderWay, Working, Computing, AnswerCodes

\* The server goes on with a request.
LEMMA WorkFits ==
    ASSUME ServerInv, NEW c \in Calls, server[c].pc \in UnderWay, server[c].leg = 2,
           NEW s \in Requests, Moves(c, s), CacheInv', late' \subseteq late \cup {c},
           s.pc \in Working \ {"settle"}, s.query = server[c].query, s.leg = server[c].leg,
           s.code = server[c].code, s.blame = server[c].blame, s.product = server[c].product,
           s.pc = "resolve" => InBounds(s.since, clock, UpstreamTimeout),
           s.pc = "fetch" =>
              /\ InBounds(s.since, clock, UpstreamTimeout)
              /\ InBounds(s.listed, s.since, IndexTtl + UpstreamTimeout)
    PROVE  ServerInv'
<1>1. /\ server' = [server EXCEPT ![c] = s]
      /\ UNCHANGED <<clock, engine, settled, secret, boot, crashes, raced, unheard>>
  BY DEF Moves, ServerTo
<1>2. server'[c] = s /\ engine'[c] = engine[c] /\ CallInv(c)
  BY <1>1, Parts
<1>3. s.pc \notin {"none", "settle", "answered", "dead", "transit"}
  BY DEF Working, Computing
<1>4. CallInv(c)'
  <2>1. Paired(c)'
    BY <1>1, <1>2, <1>3, NothingYet DEF CallInv, Paired, UnderWay, Working, Computing
  <2>2. Delivered(c)'
    BY <1>1, <1>2, <1>3, NothingYet DEF Delivered
  <2>3. Punctual(c)'
    BY <1>1, <1>2 DEF Punctual, InBounds
  <2>4. Named(c)'
    BY <1>1, <1>2, <1>3, NothingYet DEF Named, AnswerCodes
  <2> QED
    BY <2>1, <2>2, <2>3, <2>4 DEF CallInv
<1> QED
  BY <1>1, <1>4, RequestMoves

\* An answer that is not the product.
LEMMA AnswerFits ==
    ASSUME ServerInv, NEW c \in Calls, server[c].pc \in UnderWay,
           NEW status \in Statuses \ {0, 200}, NEW code \in AnswerCodes, NEW blame \in Blames,
           Answer(c, status, code, blame), CacheInv', late' \subseteq late \cup {c},
           \/ blame \in Layers(Classify(status, code))
           \/ status = 402 /\ server[c].leg = 1
    PROVE  ServerInv'
<1> DEFINE s == [server[c] EXCEPT !.pc = "answered", !.key = "none", !.exp = 0, !.since = 0,
                                  !.listed = 0, !.status = status, !.code = code,
                                  !.blame = blame]
<1>1. /\ server' = [server EXCEPT ![c] = s]
      /\ UNCHANGED <<clock, engine, settled, secret, boot, crashes, raced, unheard>>
  BY DEF Answer, Moves, ServerTo
<1>2. /\ s \in Requests /\ s.pc = "answered" /\ s.status = status /\ s.code = code
      /\ s.blame = blame /\ s.product = server[c].product /\ s.query = server[c].query
      /\ s.leg = server[c].leg
  <2>1. server[c] \in Requests
    BY Parts
  <2>2. code \in Codes /\ "answered" \in RequestPcs
    BY DEF AnswerCodes, Codes, RequestPcs
  <2>3. "none" \in Secrets
    BY DEF Secrets
  <2> QED
    BY <2>1, <2>2, <2>3 DEF Requests
<1> HIDE DEF s
<1>3. server'[c] = s /\ engine'[c] = engine[c] /\ CallInv(c)
  BY <1>1, Parts
<1>4. CallInv(c)'
  <2>1. Paired(c)'
    BY <1>1, <1>2, <1>3, NothingYet DEF CallInv, Paired, UnderWay, Working, Computing
  <2>2. Delivered(c)'
    BY <1>1, <1>2, <1>3, NothingYet DEF Delivered
  <2>3. Punctual(c)'
    BY <1>2, <1>3 DEF Punctual
  <2>4. Named(c)'
    BY <1>1, <1>2, <1>3, NothingYet DEF Named, Priced, AnswerCodes, Classify, Layers
  <2> QED
    BY <2>1, <2>2, <2>3, <2>4 DEF CallInv
<1> QED
  BY <1>1, <1>2, <1>4, RequestMoves

\* UpstreamError.
LEMMA FailFits ==
    ASSUME ServerInv, NEW c \in Calls, server[c].pc \in UnderWay, NEW code \in DOMAIN Status,
           Fail(c, code), CacheInv', late' \subseteq late \cup {c}
    PROVE  ServerInv'
<1> DEFINE blame == CASE Status[code] = 400 -> "arguments"
                      [] Status[code] = 404 -> "record"
                      [] OTHER              -> "vendor"
<1>1. blame \in Blames /\ Answer(c, Status[code], code, blame)
  BY DEF Fail, Blames
<1>2. Status[code] \in Statuses \ {0, 200} /\ blame \in Layers(Classify(Status[code], code))
  BY FailNames
<1>3. code \in AnswerCodes
  BY DEF AnswerCodes
<1> HIDE DEF blame
<1> QED
  BY <1>1, <1>2, <1>3, AnswerFits

LEMMA CacheUnchanged ==
    ASSUME ServerInv, NEW c \in Calls, NEW s, Moves(c, s), UNCHANGED cache
    PROVE  CacheInv'
  BY CacheStays DEF Moves

LEMMA PcSet ==
    ASSUME NEW r \in Requests, NEW pc \in RequestPcs, NEW next, next = [r EXCEPT !.pc = pc]
    PROVE  /\ next \in Requests /\ next.pc = pc /\ next.query = r.query /\ next.leg = r.leg
           /\ next.since = r.since /\ next.listed = r.listed /\ next.product = r.product
           /\ next.status = r.status /\ next.code = r.code /\ next.blame = r.blame
  BY DEF Requests

LEMMA CheckTokenFits ==
    ASSUME ServerInv, NEW c \in Calls, CheckToken(c)
    PROVE  ServerInv'
<1>1. server[c].pc = "transit" /\ server[c].pc \in UnderWay /\ server[c] \in Requests
      /\ server[c].leg \in {1, 2} /\ UNCHANGED cache /\ late' \subseteq late \cup {c}
  BY Parts DEF CheckToken, Serving, UnderWay, Requests, Legs
<1>2. CASE ~TokenHolds(c)
  <2>1. Answer(c, 403, "none", "auth")
    BY <1>2 DEF CheckToken
  <2>2. 403 \in Statuses \ {0, 200} /\ "none" \in AnswerCodes /\ "auth" \in Blames
        /\ "auth" \in Layers(Classify(403, "none"))
    BY DEF Statuses, AnswerCodes, Blames, Layers, Classify
  <2>3. CacheInv'
    BY <1>1, <2>1, CacheUnchanged DEF Answer
  <2> QED
    BY <1>1, <2>1, <2>2, <2>3, AnswerFits
<1>3. CASE TokenHolds(c) /\ server[c].leg = 1
  <2>1. Answer(c, 402, "none", "none")
    BY <1>3 DEF CheckToken
  <2>2. 402 \in Statuses \ {0, 200} /\ "none" \in AnswerCodes /\ "none" \in Blames
    BY DEF Statuses, AnswerCodes, Blames
  <2>3. CacheInv'
    BY <1>1, <2>1, CacheUnchanged DEF Answer
  <2> QED
    BY <1>1, <1>3, <2>1, <2>2, <2>3, AnswerFits
<1>4. CASE TokenHolds(c) /\ server[c].leg = 2
  <2> DEFINE s == [server[c] EXCEPT !.pc = "verify", !.key = "none", !.exp = 0]
  <2>1. Moves(c, s)
    BY <1>4 DEF CheckToken
  <2>2. CacheInv'
    BY <1>1, <2>1, CacheUnchanged
  <2>3. "verify" \in RequestPcs /\ "verify" \in Working \ {"settle"} /\ "none" \in Secrets
    BY DEF RequestPcs, Working, Secrets
  <2>4. /\ s \in Requests /\ s.pc = "verify" /\ s.query = server[c].query
        /\ s.leg = server[c].leg /\ s.code = server[c].code /\ s.blame = server[c].blame
        /\ s.product = server[c].product
    BY <1>1, <2>3 DEF Requests
  <2> HIDE DEF s
  <2> QED
    BY <1>1, <1>4, <2>1, <2>2, <2>3, <2>4, WorkFits
<1> QED
  BY <1>1, <1>2, <1>3, <1>4

LEMMA VerifyFits ==
    ASSUME ServerInv, NEW c \in Calls, VerifyPayment(c)
    PROVE  ServerInv'
<1>1. /\ server[c].pc = "verify" /\ server[c].pc \in UnderWay /\ server[c] \in Requests
      /\ server[c].leg = 2 /\ UNCHANGED <<cache, late>>
  BY Parts DEF VerifyPayment, Serving, UnderWay, Working, CallInv, Paired
<1>2. ASSUME NEW status \in {402, 500}, Answer(c, status, "none", "payment")
      PROVE  ServerInv'
  <2>1. status \in Statuses \ {0, 200} /\ "none" \in AnswerCodes /\ "payment" \in Blames
    BY DEF Statuses, AnswerCodes, Blames
  <2>2. "payment" \in Layers(Classify(status, "none"))
    <3>1. CASE status = 402
      BY <3>1 DEF Layers, Classify
    <3>2. CASE status = 500
      BY <3>2 DEF Layers, Classify
    <3> QED
      BY <3>1, <3>2
  <2>3. CacheInv'
    BY <1>1, <1>2, CacheUnchanged DEF Answer
  <2> QED
    BY <1>1, <1>2, <2>1, <2>2, <2>3, AnswerFits
<1>3. CASE Moves(c, [server[c] EXCEPT !.pc = "lookup"])
  <2> DEFINE s == [server[c] EXCEPT !.pc = "lookup"]
  <2>1. CacheInv'
    BY <1>1, <1>3, CacheUnchanged
  <2>2. "lookup" \in RequestPcs /\ "lookup" \in Working \ {"settle"}
    BY DEF RequestPcs, Working, Computing
  <2>3. /\ s \in Requests /\ s.pc = "lookup" /\ s.query = server[c].query
        /\ s.leg = server[c].leg /\ s.code = server[c].code /\ s.blame = server[c].blame
        /\ s.product = server[c].product
    BY <1>1, <2>2, PcSet
  <2>4. Moves(c, s)
    BY <1>3
  <2> HIDE DEF s
  <2> QED
    BY <1>1, <2>1, <2>2, <2>3, <2>4, WorkFits
<1> QED
  BY <1>2, <1>3 DEF VerifyPayment
\* What is read from the cache, or not found there.
LEMMA GetFits ==
    ASSUME ServerInv, NEW k \in CacheKeys, Get(k), clock' = clock
    PROVE  CacheInv'
<1>1. CacheInv
  BY DEF ServerInv
<1>2. CASE cache' = cache
  BY <1>2, CacheStays
<1>3. CASE cache' = [cache EXCEPT ![k] = Nothing]
  <2>1. cache' \in [CacheKeys -> Entries \cup {Nothing}]
    BY <1>1, <1>3 DEF CacheInv
  <2>2. ASSUME NEW j \in CacheKeys PROVE CachedFits(j)'
    <3>1. CASE j = k
      BY <1>1, <1>3, <3>1 DEF CacheInv, CachedFits
    <3>2. CASE j # k
      <4>1. cache'[j] = cache[j] /\ CachedFits(j)
        BY <1>1, <1>3, <3>2 DEF CacheInv
      <4> QED
        BY <4>1 DEF CachedFits, InBounds, Ttl
    <3> QED
      BY <3>1, <3>2
  <2> QED
    BY <2>1, <2>2 DEF CacheInv, CacheKeys, Entries
<1> QED
  BY <1>2, <1>3 DEF Get

\* An entry in time, and what it holds.
LEMMA FreshIs ==
    ASSUME ServerInv, NEW k \in CacheKeys, Fresh(k)
    PROVE  /\ cache[k] \in Entries /\ cache[k].product \in Products /\ cache[k].expires \in Nat
           /\ cache[k].product.for = k /\ cache[k].product.asOf <= clock
           /\ InBounds(cache[k].product.listed, cache[k].product.asOf, IndexTtl + UpstreamTimeout)
           /\ clock <= cache[k].product.asOf + UpstreamTimeout
                       + (IF k = Tickers THEN IndexTtl ELSE Ttl(k.route))
<1> DEFINE entry == cache[k]
           ttl == IF k = Tickers THEN IndexTtl ELSE Ttl(k.route)
<1>1. entry \in Entries /\ entry.product \in Products /\ entry.expires \in Nat
  BY DEF ServerInv, CacheInv, Fresh, Entries
<1>2. /\ entry.product.for = k /\ entry.product.asOf <= clock
      /\ InBounds(entry.product.listed, entry.product.asOf, IndexTtl + UpstreamTimeout)
      /\ entry.expires <= entry.product.asOf + UpstreamTimeout + ttl
  BY DEF ServerInv, CacheInv, Fresh, CachedFits
<1>3. clock <= entry.expires
  BY DEF Fresh
<1>4. entry.product.asOf \in Nat /\ ttl \in Nat /\ UpstreamTimeout \in Nat /\ clock \in Nat
  BY <1>1, Delays, TypeMeans DEF Products, ServerInv
<1> HIDE DEF entry, ttl
<1>5. clock <= entry.product.asOf + UpstreamTimeout + ttl
  BY <1>1, <1>2, <1>3, <1>4
<1> QED
  BY <1>1, <1>2, <1>5 DEF entry, ttl

LEMMA PutFits ==
    ASSUME ServerInv, NEW k \in CacheKeys, NEW product \in Products, NEW ttl \in Nat,
           Put(k, product, ttl), clock' = clock,
           ttl = IF k = Tickers THEN IndexTtl ELSE Ttl(k.route),
           product.for = k, InBounds(product.asOf, clock, UpstreamTimeout),
           InBounds(product.listed, product.asOf, IndexTtl + UpstreamTimeout)
    PROVE  CacheInv'
<1> DEFINE entry == [product |-> product, expires |-> clock + ttl]
<1>1. CacheInv /\ clock \in Nat
  BY TypeMeans DEF ServerInv
<1>2. entry \in Entries /\ entry.product = product /\ entry.expires = clock + ttl
  BY <1>1 DEF Entries
<1>3. cache' = [cache EXCEPT ![k] = entry]
  BY DEF Put
<1> HIDE DEF entry
<1>4. cache' \in [CacheKeys -> Entries \cup {Nothing}] /\ cache'[k] = entry
  BY <1>1, <1>2, <1>3 DEF CacheInv
<1>5. clock + ttl <= product.asOf + UpstreamTimeout + ttl /\ product.asOf <= clock
  BY <1>1, Delays DEF Products, InBounds
<1>6. ASSUME NEW j \in CacheKeys PROVE CachedFits(j)'
  <2>1. CASE j = k
    <3>1. (IF k = Tickers THEN IndexTtl ELSE Ttl(k.route)) = ttl
      OBVIOUS
    <3> QED
      BY <1>2, <1>4, <1>5, <2>1, <3>1 DEF CachedFits, InBounds, Ttl
  <2>2. CASE j # k
    <3>1. cache'[j] = cache[j] /\ CachedFits(j)
      BY <1>1, <1>3, <2>2 DEF CacheInv
    <3> QED
      BY <3>1 DEF CachedFits, InBounds, Ttl
  <2> QED
    BY <2>1, <2>2
<1> QED
  BY <1>4, <1>6 DEF CacheInv, CacheKeys, Entries

LEMMA KeysAre ==
    /\ Tickers \notin Query /\ Tickers \in CacheKeys
    /\ \A query \in Query : query \in CacheKeys /\ query # Tickers
    /\ \A query \in Query : Key(query) \in Query /\ Key(query).route = query.route
    /\ Nothing \notin Query /\ Nothing \notin ServedProducts
<1>2. ASSUME NEW query \in Query
      PROVE  Key(query) \in Query /\ Key(query).route = query.route
  BY ServerAssumption DEF Key, Query
<1>1. Tickers.route = "tickers" /\ \A query \in Query : query.route # "tickers"
  BY DEF Tickers, Query
<1> QED
  BY <1>1, <1>2, ServerAssumption DEF CacheKeys, ServedProducts

\* The route has its answer: a recent one, to what was asked.
LEMMA ServeFits ==
    ASSUME ServerInv, NEW c \in Calls, server[c].pc \in {"lookup", "fetch"},
           NEW product \in Products, Serve(c, product), CacheInv', UNCHANGED late,
           product.for = Key(server[c].query), product.asOf <= clock,
           clock <= product.asOf + UpstreamTimeout + Ttl(server[c].query.route),
           InBounds(product.listed, product.asOf, IndexTtl + UpstreamTimeout)
    PROVE  ServerInv'
<1> DEFINE what == [for |-> product.for, age |-> clock - product.asOf,
                    lag |-> product.asOf - product.listed]
           s == [server[c] EXCEPT !.pc = "settle", !.since = 0, !.listed = 0, !.product = what]
<1>1. /\ server[c].pc \in UnderWay /\ server[c].leg = 2 /\ CallInv(c) /\ clock \in Nat
      /\ server[c] \in Requests /\ server[c].query \in Query
  BY Parts, NothingYet DEF UnderWay, Working, Computing, CallInv, Paired
<1>2. /\ product.asOf \in Nat /\ product.listed \in Nat /\ UpstreamTimeout \in Nat
      /\ IndexTtl \in Nat /\ Ttl(server[c].query.route) \in Nat
  BY Delays DEF Products
<1>3. /\ clock - product.asOf \in Nat /\ product.asOf - product.listed \in Nat
      /\ clock - product.asOf <= Ttl(server[c].query.route) + UpstreamTimeout
      /\ product.asOf - product.listed <= IndexTtl + UpstreamTimeout
  BY <1>1, <1>2 DEF InBounds
<1>4. /\ what \in ServedProducts /\ what.for = Key(server[c].query)
      /\ what.for.route = server[c].query.route
      /\ what.age <= Ttl(server[c].query.route) + UpstreamTimeout
      /\ what.lag <= IndexTtl + UpstreamTimeout
  <2>1. Key(server[c].query) \in Query
        /\ Key(server[c].query).route = server[c].query.route
    BY <1>1, KeysAre
  <2> QED
    BY <1>1, <1>3, <2>1 DEF ServedProducts
<1>5. what # Nothing
  BY <1>4, KeysAre
<1>6. /\ server' = [server EXCEPT ![c] = s]
      /\ UNCHANGED <<clock, engine, settled, secret, boot, crashes, raced, unheard>>
  BY DEF Serve, Moves, ServerTo
<1> HIDE DEF what
<1>7. /\ s \in Requests /\ s.pc = "settle" /\ s.product = what /\ s.query = server[c].query
      /\ s.leg = 2 /\ s.code = server[c].code /\ s.blame = server[c].blame
  <2>1. what \in MaybeProduct /\ "settle" \in RequestPcs
    BY <1>4 DEF MaybeProduct, RequestPcs
  <2> QED
    BY <1>1, <2>1 DEF Requests
<1> HIDE DEF s
<1>8. server'[c] = s /\ engine'[c] = engine[c]
  BY <1>6, Parts
<1>9. CallInv(c)'
  <2>1. Paired(c)'
    BY <1>1, <1>6, <1>7, <1>8, NothingYet DEF CallInv, Paired, Working, Computing
  <2>2. Delivered(c)'
    <3>1. c \notin settled' /\ server'[c].pc = "settle"
      BY <1>1, <1>6, <1>7, <1>8, NothingYet
    <3>2. /\ server'[c].product # Nothing
          /\ server'[c].product.for = Key(server'[c].query)
          /\ server'[c].product.age <= Ttl(server'[c].product.for.route) + UpstreamTimeout
          /\ server'[c].product.lag <= IndexTtl + UpstreamTimeout
      BY <1>4, <1>5, <1>7, <1>8
    <3> QED
      BY <3>1, <3>2 DEF Delivered, Ttl, Key
  <2>3. Punctual(c)'
    BY <1>7, <1>8 DEF Punctual
  <2>4. Named(c)'
    BY <1>1, <1>6, <1>7, <1>8, NothingYet DEF Named, AnswerCodes
  <2> QED
    BY <2>1, <2>2, <2>3, <2>4 DEF CallInv
<1> QED
  BY <1>6, <1>7, <1>9, RequestMoves

\* A request in one of the routes.
LEMMA RouteParts ==
    ASSUME ServerInv, NEW c \in Calls, server[c].pc \in Working \ {"settle"}
    PROVE  /\ server[c] \in Requests /\ server[c].pc \in UnderWay /\ server[c].leg = 2
           /\ server[c].query \in Query /\ server[c].query \in CacheKeys
           /\ server[c].since \in Nat /\ server[c].listed \in Nat
           /\ Punctual(c) /\ clock \in Nat
<1>1. server[c] \in Requests /\ server[c].pc \in UnderWay /\ CallInv(c) /\ clock \in Nat
  BY Parts DEF UnderWay
<1>2. server[c].query \in Query
  BY <1>1, NothingYet
<1>3. server[c].query \in CacheKeys
  BY <1>2, KeysAre
<1> QED
  BY <1>1, <1>2, <1>3 DEF CallInv, Paired, Requests

\* A GET begins.
LEMMA AskFits ==
    ASSUME ServerInv, NEW c \in Calls, server[c].pc \in {"lookup", "index"}, CacheInv',
           UNCHANGED late, Moves(c, [server[c] EXCEPT !.pc = "resolve", !.since = clock])
    PROVE  ServerInv'
<1> DEFINE s == [server[c] EXCEPT !.pc = "resolve", !.since = clock]
<1>1. server[c] \in Requests /\ server[c].pc \in UnderWay /\ server[c].leg = 2 /\ clock \in Nat
  BY RouteParts DEF Working, Computing
<1>2. "resolve" \in RequestPcs /\ "resolve" \in Working \ {"settle"}
  BY DEF RequestPcs, Working
<1>3. /\ s \in Requests /\ s.pc = "resolve" /\ s.query = server[c].query
      /\ s.leg = server[c].leg /\ s.code = server[c].code /\ s.blame = server[c].blame
      /\ s.product = server[c].product /\ s.since = clock
  BY <1>1, <1>2 DEF Requests
<1>4. InBounds(clock, clock, UpstreamTimeout) /\ Moves(c, s)
  BY <1>1, Delays DEF InBounds
<1> HIDE DEF s
<1> QED
  BY <1>1, <1>2, <1>3, <1>4, WorkFits

LEMMA LookupFits ==
    ASSUME ServerInv, NEW c \in Calls, Lookup(c)
    PROVE  ServerInv'
<1> DEFINE query == server[c].query
<1>1. /\ server[c] \in Requests /\ server[c].pc \in UnderWay /\ server[c].leg = 2
      /\ query \in Query /\ clock \in Nat /\ server[c].pc = "lookup" /\ UNCHANGED late
  BY RouteParts DEF Lookup, Serving, Working, Computing
<1>2. Key(query) \in CacheKeys /\ Key(query) # Tickers /\ Key(query).route = query.route
  BY <1>1, KeysAre
<1>3. CacheInv'
  <2>1. Get(Key(query)) /\ clock' = clock
    BY DEF Lookup, Serve, Moves
  <2> QED
    BY <1>2, <2>1, GetFits
<1>4. CASE Fresh(Key(query)) /\ Serve(c, cache[Key(query)].product)
  <2> DEFINE product == cache[Key(query)].product
  <2>1. /\ product \in Products /\ product.for = Key(query)
        /\ product.asOf <= clock
        /\ InBounds(product.listed, product.asOf, IndexTtl + UpstreamTimeout)
        /\ clock <= product.asOf + UpstreamTimeout + Ttl(query.route)
    BY <1>2, <1>4, FreshIs
  <2> QED
    BY <1>1, <1>3, <1>4, <2>1, ServeFits
<1>5. CASE Moves(c, [server[c] EXCEPT !.pc = "resolve", !.since = clock])
  BY <1>1, <1>3, <1>5, AskFits
<1>6. CASE Moves(c, [server[c] EXCEPT !.pc = "index"])
  <2> DEFINE s == [server[c] EXCEPT !.pc = "index"]
  <2>1. "index" \in RequestPcs /\ "index" \in Working \ {"settle"}
    BY DEF RequestPcs, Working, Computing
  <2>2. /\ s \in Requests /\ s.pc = "index" /\ s.query = query /\ s.leg = server[c].leg
        /\ s.code = server[c].code /\ s.blame = server[c].blame /\ s.product = server[c].product
    BY <1>1, <2>1, PcSet
  <2>3. Moves(c, s)
    BY <1>6
  <2> HIDE DEF s
  <2> QED
    BY <1>1, <1>3, <2>1, <2>2, <2>3, WorkFits
<1> QED
  BY <1>4, <1>5, <1>6 DEF Lookup

\* What is asked for is in the list, or not.
LEMMA MatchFits ==
    ASSUME ServerInv, NEW c \in Calls, server[c].pc \in {"index", "resolve"},
           NEW listed \in Nat, Match(c, listed), CacheInv', UNCHANGED late,
           InBounds(listed, clock, IndexTtl + UpstreamTimeout)
    PROVE  ServerInv'
<1>1. server[c] \in Requests /\ server[c].pc \in UnderWay /\ server[c].leg = 2 /\ clock \in Nat
  BY RouteParts DEF Working, Computing
<1>2. CASE \E code \in DOMAIN Status : Fail(c, code)
  BY <1>1, <1>2, FailFits
<1>3. CASE Moves(c, [server[c] EXCEPT !.pc = "fetch", !.listed = listed, !.since = clock])
  <2> DEFINE s == [server[c] EXCEPT !.pc = "fetch", !.listed = listed, !.since = clock]
  <2>1. "fetch" \in RequestPcs /\ "fetch" \in Working \ {"settle"}
    BY DEF RequestPcs, Working
  <2>2. /\ s \in Requests /\ s.pc = "fetch" /\ s.query = server[c].query
        /\ s.leg = server[c].leg /\ s.code = server[c].code /\ s.blame = server[c].blame
        /\ s.product = server[c].product /\ s.since = clock /\ s.listed = listed
    BY <1>1, <2>1 DEF Requests
  <2>3. InBounds(clock, clock, UpstreamTimeout) /\ Moves(c, s)
    BY <1>1, <1>3, Delays DEF InBounds
  <2> HIDE DEF s
  <2> QED
    BY <1>1, <2>1, <2>2, <2>3, WorkFits
<1>4. {"place_not_found", "company_not_found"} \subseteq DOMAIN Status
  BY StatusIs
<1> QED
  BY <1>2, <1>3, <1>4 DEF Match

LEMMA IndexFits ==
    ASSUME ServerInv, NEW c \in Calls, TickerIndex(c)
    PROVE  ServerInv'
<1>1. /\ server[c].pc = "index" /\ clock \in Nat /\ Tickers \in CacheKeys /\ UNCHANGED late
  BY RouteParts, KeysAre DEF TickerIndex, Serving, Working, Computing
<1>2. CacheInv'
  <2>1. clock' = clock /\ Get(Tickers)
    BY DEF TickerIndex, Match, Fail, Answer, Moves
  <2> QED
    BY <1>1, <2>1, GetFits
<1>3. CASE Fresh(Tickers) /\ Match(c, cache[Tickers].product.asOf)
  <2> DEFINE listed == cache[Tickers].product.asOf
  <2>1. /\ cache[Tickers].product \in Products /\ listed <= clock
        /\ clock <= listed + UpstreamTimeout + IndexTtl
    BY <1>1, <1>3, FreshIs
  <2>2. listed \in Nat
    BY <2>1 DEF Products
  <2>3. Match(c, listed)
    BY <1>3
  <2> HIDE DEF listed
  <2>4. InBounds(listed, clock, IndexTtl + UpstreamTimeout)
    BY <1>1, <2>1, <2>2, Delays DEF InBounds
  <2> QED
    BY <1>1, <1>2, <2>2, <2>3, <2>4, MatchFits
<1>4. CASE Moves(c, [server[c] EXCEPT !.pc = "resolve", !.since = clock])
  BY <1>1, <1>2, <1>4, AskFits
<1> QED
  BY <1>3, <1>4 DEF TickerIndex

\* The first GET is answered, in time.
LEMMA Resolved ==
    ASSUME ServerInv, NEW c \in Calls, server[c].pc = "resolve"
    PROVE  /\ server[c].since \in Nat /\ clock \in Nat
           /\ InBounds(server[c].since, clock, UpstreamTimeout)
           /\ InBounds(server[c].since, clock, IndexTtl + UpstreamTimeout)
           /\ InBounds(server[c].since, server[c].since, IndexTtl + UpstreamTimeout)
<1>1. Punctual(c) /\ server[c].since \in Nat /\ clock \in Nat
  BY RouteParts DEF Working
<1> QED
  BY <1>1, Delays DEF Punctual, InBounds

LEMMA GeocodeFits ==
    ASSUME ServerInv, NEW c \in Calls, Geocode(c)
    PROVE  ServerInv'
<1>1. /\ server[c].pc = "resolve" /\ Match(c, server[c].since) /\ UNCHANGED <<cache, late>>
      /\ clock' = clock
  BY DEF Geocode, Serving, Match, Fail, Answer, Moves
<1>2. CacheInv'
  BY <1>1, CacheStays
<1> QED
  BY <1>1, <1>2, Resolved, MatchFits

LEMMA KeepIndexFits ==
    ASSUME ServerInv, NEW c \in Calls, KeepIndex(c)
    PROVE  ServerInv'
<1>0. PICK asked, product : asked = server[c].since /\ product = Product(Tickers, asked, asked)
  OBVIOUS
<1>1. /\ server[c].pc = "resolve" /\ Match(c, asked) /\ UNCHANGED late
      /\ Put(Tickers, product, IndexTtl) /\ clock' = clock
  BY <1>0 DEF KeepIndex, Serving, Match, Fail, Answer, Moves
<1>2. /\ asked \in Nat /\ InBounds(asked, clock, UpstreamTimeout)
      /\ InBounds(asked, clock, IndexTtl + UpstreamTimeout)
      /\ InBounds(asked, asked, IndexTtl + UpstreamTimeout)
  BY <1>0, <1>1, Resolved
<1>3. /\ product \in Products /\ product.for = Tickers /\ product.asOf = asked
      /\ product.listed = asked
  BY <1>0, <1>2 DEF Product, Products
<1>4. CacheInv'
  BY <1>1, <1>2, <1>3, KeysAre, Delays, PutFits
<1> QED
  BY <1>1, <1>2, <1>4, MatchFits

LEMMA KeepFits ==
    ASSUME ServerInv, NEW c \in Calls, Keep(c)
    PROVE  ServerInv'
<1>0. PICK k, product : /\ k = Key(server[c].query)
                        /\ product = Product(k, server[c].since, server[c].listed)
  OBVIOUS
<1>1. /\ server[c].query \in Query /\ clock \in Nat
      /\ server[c].since \in Nat /\ server[c].listed \in Nat
      /\ Punctual(c) /\ server[c].pc = "fetch"
  BY RouteParts DEF Keep, Serving, Working
<1>2. k \in Query /\ k \in CacheKeys /\ k # Tickers /\ k.route = server[c].query.route
  BY <1>0, <1>1, KeysAre
<1>3. Put(k, product, Ttl(k.route)) /\ Serve(c, product) /\ clock' = clock /\ UNCHANGED late
  BY <1>0, <1>2 DEF Keep, Serve, Moves
<1>4. /\ InBounds(server[c].since, clock, UpstreamTimeout)
      /\ InBounds(server[c].listed, server[c].since, IndexTtl + UpstreamTimeout)
  BY <1>1 DEF Punctual
<1>5. /\ product \in Products /\ product.for = k /\ product.asOf = server[c].since
      /\ product.listed = server[c].listed
  BY <1>0, <1>1, <1>2 DEF Product, Products
<1>6. Ttl(k.route) \in Nat /\ Ttl(k.route) = IF k = Tickers THEN IndexTtl ELSE Ttl(k.route)
  BY <1>2, Delays
<1>7. CacheInv'
  BY <1>2, <1>3, <1>4, <1>5, <1>6, PutFits
<1>8. product.asOf <= clock /\ clock <= product.asOf + UpstreamTimeout + Ttl(k.route)
  BY <1>1, <1>4, <1>5, <1>6, Delays DEF InBounds
<1> QED
  BY <1>0, <1>1, <1>2, <1>3, <1>4, <1>5, <1>7, <1>8, ServeFits

LEMMA ErrorFits ==
    ASSUME ServerInv, NEW c \in Calls, MissingName(c) \/ GetFails(c) \/ Unusable(c)
    PROVE  ServerInv'
<1>1. server[c].pc \in {"lookup", "resolve", "fetch"} /\ UNCHANGED <<cache, late>>
  BY DEF MissingName, GetFails, Unusable, Serving
<1>2. server[c].pc \in UnderWay
  BY <1>1 DEF UnderWay, Working, Computing
<1>3. CASE \E code \in DOMAIN Status : Fail(c, code)
  <2>1. CacheInv'
    BY <1>1, <1>3, CacheUnchanged DEF Fail, Answer
  <2> QED
    BY <1>1, <1>2, <1>3, <2>1, FailFits
<1>4. CASE Answer(c, 500, "none", "vendor")
  <2>1. 500 \in Statuses \ {0, 200} /\ "none" \in AnswerCodes /\ "vendor" \in Blames
        /\ "vendor" \in Layers(Classify(500, "none"))
    BY DEF Statuses, AnswerCodes, Blames, Layers, Classify
  <2>2. CacheInv'
    BY <1>1, <1>4, CacheUnchanged DEF Answer
  <2> QED
    BY <1>1, <1>2, <1>4, <2>1, <2>2, AnswerFits
<1>5. (\E code \in DOMAIN Status : Fail(c, code)) \/ Answer(c, 500, "none", "vendor")
  <2>1. {"missing_param", "upstream_malformed"} \subseteq DOMAIN Status
    BY StatusIs
  <2>2. Faults \subseteq DOMAIN Status
    BY ServerAssumption
  <2>3. CASE MissingName(c)
    BY <2>1, <2>3 DEF MissingName
  <2>4. CASE GetFails(c)
    BY <2>2, <2>4 DEF GetFails
  <2>5. CASE Unusable(c)
    BY <2>1, <2>5 DEF Unusable
  <2> QED
    BY <2>3, <2>4, <2>5
<1> QED
  BY <1>3, <1>4, <1>5

LEMMA BlameTyped ==
    ASSUME NEW r \in Requests, NEW pc \in RequestPcs, NEW status \in Statuses,
           NEW blame \in Blames
    PROVE  [r EXCEPT !.pc = pc, !.status = status, !.blame = blame] \in Requests
  BY DEF Requests

\* The settlement, or its refusal, is the last that the server does for a call.
LEMMA SettlementFits ==
    ASSUME ServerInv, NEW c \in Calls, Settle(c) \/ SettleFails(c)
    PROVE  ServerInv'
<1>1. /\ server[c].pc = "settle" /\ server[c] \in Requests /\ CallInv(c)
      /\ server[c].leg = 2 /\ c \notin settled /\ c \notin unheard
      /\ UNCHANGED <<clock, cache, raced, late>>
  BY Parts DEF Settle, SettleFails, Serving, CallInv, Paired, Delivered, Named, Working, history
<1>2. CacheInv'
  BY <1>1, CacheStays
<1>3. engine[c].pc \in {"paying", "done"} /\ engine[c].code \in {"none", "payment_failed"}
      /\ server[c].blame = "none" /\ server[c].code \in AnswerCodes
      /\ server[c].query = engine[c].query /\ engine[c].query \in Query
  BY <1>1, Parts DEF CallInv, Paired, Named, Delivered, AnswerCodes, EngineCalls
<1>4. ASSUME NEW s \in Requests, server' = [server EXCEPT ![c] = s],
             UNCHANGED <<engine, secret, boot, crashes>>,
             s.pc = "answered", s.query = server[c].query, s.leg = server[c].leg,
             s.code = server[c].code, s.product = server[c].product,
             settled' \in {settled, settled \cup {c}}, unheard' \in {unheard, unheard \cup {c}},
             \/ s.status = 200 /\ s.blame = "none" /\ c \in settled' \ unheard'
             \/ s.status = 402 /\ s.blame = "payment" /\ (c \in settled' <=> c \in unheard')
      PROVE  ServerInv'
  <2>1. server'[c] = s /\ engine'[c] = engine[c]
    BY <1>4, Parts
  <2>2. Paired(c)'
    BY <1>1, <1>3, <1>4, <2>1 DEF CallInv, Paired, Working, Computing
  <2>3. Delivered(c)'
    BY <1>1, <1>3, <1>4, <2>1 DEF CallInv, Delivered, Ttl, Key
  <2>4. Punctual(c)'
    BY <1>4, <2>1 DEF Punctual
  <2>5. Named(c)'
    BY <1>1, <1>3, <1>4, <2>1 DEF Named, Priced, AnswerCodes, Classify, Layers
  <2>6. CallInv(c)'
    BY <2>2, <2>3, <2>4, <2>5 DEF CallInv
  <2>7. /\ settled' \subseteq settled \cup {c} /\ settled \subseteq settled'
        /\ unheard' \subseteq unheard \cup {c} /\ unheard \subseteq unheard'
        /\ late' \subseteq late \cup {c}
    BY <1>1, <1>4
  <2> QED
    BY <1>1, <1>2, <1>4, <2>6, <2>7, RequestMoves
<1>5. CASE Settle(c)
  <2> DEFINE s == [server[c] EXCEPT !.pc = "answered", !.status = 200]
  <2>1. 200 \in Statuses /\ "answered" \in RequestPcs
    BY DEF Statuses, RequestPcs
  <2>2. /\ s \in Requests /\ s.pc = "answered" /\ s.query = server[c].query
        /\ s.leg = server[c].leg /\ s.code = server[c].code /\ s.product = server[c].product
        /\ s.status = 200 /\ s.blame = server[c].blame
    BY <1>1, <2>1 DEF Requests
  <2>3. /\ server' = [server EXCEPT ![c] = s] /\ settled' = settled \cup {c}
        /\ UNCHANGED <<engine, secret, boot, crashes, unheard>>
    BY <1>5 DEF Settle, ServerTo, history
  <2> HIDE DEF s
  <2> QED
    <3>1. s.blame = "none" /\ c \in settled' \ unheard' /\ settled' \in {settled, settled \cup {c}}
      BY <1>1, <1>3, <2>2, <2>3
    <3> QED
      BY <1>4, <2>2, <2>3, <3>1
<1>6. CASE SettleFails(c)
  <2> DEFINE s == [server[c] EXCEPT !.pc = "answered", !.status = 402, !.blame = "payment"]
  <2>1. 402 \in Statuses /\ "answered" \in RequestPcs /\ "payment" \in Blames
    BY DEF Statuses, RequestPcs, Blames
  <2>2. /\ s \in Requests /\ s.pc = "answered" /\ s.query = server[c].query
        /\ s.leg = server[c].leg /\ s.code = server[c].code /\ s.product = server[c].product
        /\ s.status = 402 /\ s.blame = "payment"
    <3>1. s \in Requests
      <4>1. server[c] \in Requests
        BY <1>1
      <4> DEFINE status == 402
      <4>2. status \in Statuses
        BY <2>1
      <4> HIDE DEF status
      <4>3. [server[c] EXCEPT !.pc = "answered", !.status = status, !.blame = "payment"] \in Requests
        BY <2>1, <4>1, <4>2, BlameTyped
      <4> QED
        BY <4>3 DEF status
    <3>2. s.pc = "answered" /\ s.status = 402 /\ s.blame = "payment"
      BY <1>1 DEF Requests
    <3>3. /\ s.query = server[c].query /\ s.leg = server[c].leg /\ s.code = server[c].code
          /\ s.product = server[c].product
      BY <1>1 DEF Requests
    <3> QED
      BY <3>1, <3>2, <3>3
  <2>3. /\ server' = [server EXCEPT ![c] = s] /\ settled' \in {settled, settled \cup {c}}
        /\ UNCHANGED <<engine, secret, boot, crashes>> /\ unheard' \in {unheard, unheard \cup {c}}
        /\ c \in settled' <=> c \in unheard'
    BY <1>1, <1>6 DEF SettleFails, ServerTo
  <2> HIDE DEF s
  <2> QED
    BY <1>4, <2>2, <2>3
<1> QED
  BY <1>5, <1>6

\* A request that the server is no longer at work on.
Dead(query, product) ==
    [NoRequest EXCEPT !.pc = "dead", !.query = query, !.product = product]

LEMMA DeadIs ==
    ASSUME NEW query \in MaybeQuery, NEW product \in MaybeProduct
    PROVE  /\ Dead(query, product) \in Requests /\ Dead(query, product).pc = "dead"
           /\ Dead(query, product).query = query /\ Dead(query, product).product = product
           /\ Dead(query, product).blame = "none" /\ Dead(query, product).code = "none"
           /\ Dead(query, product).leg = 1
<1>1. NoRequest \in Requests /\ "dead" \in RequestPcs
  BY RecordsAre DEF RequestPcs
<1>2. Dead(query, product) \in Requests
  BY <1>1 DEF Dead, Requests
<1>3. /\ Dead(query, product).pc = "dead" /\ Dead(query, product).query = query
      /\ Dead(query, product).product = product
  BY <1>1 DEF Dead, Requests
<1>4. /\ Dead(query, product).blame = NoRequest.blame /\ Dead(query, product).leg = NoRequest.leg
      /\ Dead(query, product).code = NoRequest.code
  BY <1>1 DEF Dead, Requests
<1> QED
  BY <1>2, <1>3, <1>4, RecordsAre

LEMMA DeadBeforeServing ==
    ASSUME NEW query \in MaybeQuery
    PROVE  /\ [NoRequest EXCEPT !.pc = "dead", !.query = query] \in Requests
           /\ [NoRequest EXCEPT !.pc = "dead", !.query = query].pc = "dead"
           /\ [NoRequest EXCEPT !.pc = "dead", !.query = query].query = query
           /\ [NoRequest EXCEPT !.pc = "dead", !.query = query].product = Nothing
           /\ [NoRequest EXCEPT !.pc = "dead", !.query = query].blame = "none"
           /\ [NoRequest EXCEPT !.pc = "dead", !.query = query].code = "none"
           /\ [NoRequest EXCEPT !.pc = "dead", !.query = query].leg = 1
<1> DEFINE s == [NoRequest EXCEPT !.pc = "dead", !.query = query]
<1>1. NoRequest \in Requests /\ "dead" \in RequestPcs
  BY RecordsAre DEF RequestPcs
<1>2. s \in Requests /\ s.pc = "dead" /\ s.query = query
  BY <1>1 DEF Requests
<1>3. /\ s.product = NoRequest.product /\ s.blame = NoRequest.blame
      /\ s.code = NoRequest.code /\ s.leg = NoRequest.leg
  BY <1>1 DEF Requests
<1> QED
  BY <1>2, <1>3, RecordsAre

\* A call whose request has died.
LEMMA DeadFits ==
    ASSUME ServerInv, NEW c \in Calls, server[c].pc \notin {"none", "answered"},
           NEW s \in Requests, server'[c] = s, engine'[c] = engine[c],
           s.pc = "dead", s.query = server[c].query, s.product = server[c].product,
           s.blame = "none", s.code = "none", s.leg = 1,
           c \in settled' => c \in settled \/ server[c].pc = "settle", unheard' = unheard
    PROVE  CallInv(c)'
<1>1. CallInv(c)
  BY Parts
<1>2. engine[c].pc \notin {"idle", "signing"} /\ engine[c].code \in {"none", "payment_failed"}
      /\ c \notin unheard
      /\ server[c].query = engine[c].query /\ engine[c].query \in Query
  BY <1>1 DEF CallInv, Paired, Named
<1>3. Paired(c)'
  BY <1>1, <1>2, Parts DEF CallInv, Paired, Working, Computing, EngineCalls
<1>4. Delivered(c)'
  <2>1. c \in settled' => engine[c].pc \in {"paying", "done"} /\ server[c].product # Nothing
    BY <1>1, Parts DEF CallInv, Paired, Delivered, Working, EngineCalls
  <2> QED
    BY <1>1, <2>1 DEF CallInv, Delivered, Ttl, Key
<1>5. Punctual(c)' /\ Named(c)'
  BY <1>2 DEF Punctual, Named, AnswerCodes
<1> QED
  BY <1>3, <1>4, <1>5 DEF CallInv

LEMMA UnreachableFits ==
    ASSUME ServerInv, NEW c \in Calls, Unreachable(c)
    PROVE  ServerInv'
<1> DEFINE s == [NoRequest EXCEPT !.pc = "dead", !.query = server[c].query]
<1>1. server[c].pc = "transit" /\ server[c] \in Requests /\ server[c].query \in MaybeQuery
  BY Parts DEF Unreachable, Requests
<1>2. server[c].product = Nothing
  BY <1>1, NothingYet DEF UnderWay
<1>4. /\ s \in Requests /\ s.pc = "dead" /\ s.query = server[c].query
      /\ s.product = server[c].product /\ s.blame = "none" /\ s.code = "none" /\ s.leg = 1
  BY <1>1, <1>2, DeadBeforeServing
<1>5. /\ server' = [server EXCEPT ![c] = s]
      /\ UNCHANGED <<clock, engine, cache, settled, secret, boot, crashes, raced, late, unheard>>
  BY DEF Unreachable, ServerTo, history
<1> HIDE DEF s
<1>6. server'[c] = s /\ CacheInv'
  BY <1>5, Parts, CacheStays
<1>7. CallInv(c)'
  BY <1>1, <1>4, <1>5, <1>6, DeadFits
<1> QED
  BY <1>4, <1>5, <1>6, <1>7, RequestMoves
----------------------------------------------------------------------------
(***************************************************************************)
(* The rest of the world.                                                  *)
(***************************************************************************)
\* The processes start: no call notices.
LEMMA BootFits ==
    ASSUME ServerInv, NEW p \in Processes,
           Start(p) \/ OpenSecret(p) \/ WriteSecret(p) \/ StartFails(p)
    PROVE  ServerInv'
<1>1. UNCHANGED <<clock, engine, server, cache, settled, late, unheard>>
  BY DEF Start, OpenSecret, WriteSecret, StartFails, history
<1>2. secret \in [{"file"} \cup Processes -> Secrets]
      /\ boot \in [Processes -> {"down", "creating", "writing", "running"}]
  BY TypeMeans DEF ServerInv
<1>3. secret' \in [{"file"} \cup Processes -> Secrets]
  BY <1>2 DEF Start, OpenSecret, WriteSecret, StartFails, Secrets
<1>4. boot' \in [Processes -> {"down", "creating", "writing", "running"}]
  BY <1>2 DEF Start, OpenSecret, WriteSecret, StartFails
<1>8. crashes' \in Nat
  <2>1. crashes \in Nat /\ crashes' \in {crashes, crashes + 1}
    BY TypeMeans DEF ServerInv, Start, OpenSecret, WriteSecret, StartFails
  <2> QED
    BY <2>1
<1>9. raced' \in BOOLEAN
  <2>1. raced \in BOOLEAN
    BY TypeMeans DEF ServerInv
  <2> QED
    BY <2>1 DEF Start, OpenSecret, WriteSecret, StartFails, history
<1>5. ServerTypeOK'
  BY <1>1, <1>3, <1>4, <1>8, <1>9 DEF ServerInv, ServerTypeOK
<1>6. ASSUME NEW c \in Calls PROVE CallInv(c)'
  BY <1>1, Parts, OthersFit
<1>7. CacheInv'
  BY <1>1, CacheStays
<1> QED
  BY <1>5, <1>6, <1>7 DEF ServerInv

LEMMA TickFits ==
    ASSUME ServerInv, Tick
    PROVE  ServerInv'
<1>1. /\ clock' = clock + 1 /\ \A c \in Calls : InTime(c)
      /\ UNCHANGED <<engine, server, cache, settled, secret, boot, crashes, raced, late, unheard>>
  BY DEF Tick, history
<1>2. ServerTypeOK /\ clock \in Nat /\ clock' \in Nat
  BY <1>1, TypeMeans DEF ServerInv
<1>3. ServerTypeOK'
  BY <1>1, <1>2 DEF ServerTypeOK
<1>4. ASSUME NEW c \in Calls PROVE CallInv(c)'
  <2>1. Paired(c)' /\ Delivered(c)' /\ Named(c)'
    BY <1>1, Parts
    DEF CallInv, Paired, Delivered, Named, Priced, Classify, Layers, Ttl, Key
  <2>2. Punctual(c)'
    <3>1. Punctual(c) /\ InTime(c) /\ server[c] \in Requests
      BY <1>1, Parts DEF CallInv
    <3>2. server[c].since \in Nat /\ server[c].listed \in Nat
      BY <3>1 DEF Requests
    <3>3. server'[c] = server[c] /\ server[c].pc \notin Computing
      BY <1>1, <3>1 DEF InTime
    <3>4. server[c].pc \in {"resolve", "fetch"} => InBounds(server[c].since, clock', UpstreamTimeout)
      BY <1>1, <1>2, <3>1, <3>2, Delays DEF Punctual, InTime, InBounds
    <3> QED
      BY <3>1, <3>3, <3>4 DEF Punctual, Computing, InBounds
  <2> QED
    BY <2>1, <2>2 DEF CallInv
<1>5. CacheInv'
  <2>1. ASSUME NEW k \in CacheKeys, cache[k] # Nothing
        PROVE  cache[k].product.asOf <= clock'
    <3>1. cache[k] \in Entries /\ cache[k].product.asOf <= clock
      BY <2>1 DEF ServerInv, CacheInv, CachedFits
    <3>2. cache[k].product.asOf \in Nat
      BY <3>1 DEF Entries, Products
    <3> QED
      BY <1>1, <1>2, <3>1, <3>2
  <2>2. ASSUME NEW k \in CacheKeys PROVE CachedFits(k)'
    BY <1>1, <2>1 DEF ServerInv, CacheInv, CachedFits, InBounds, Ttl
  <2> QED
    BY <1>1, <2>2 DEF ServerInv, CacheInv, CacheKeys, Entries
<1> QED
  BY <1>3, <1>4, <1>5 DEF ServerInv

LEMMA DiesFits ==
    ASSUME ServerInv, ServerDies
    PROVE  ServerInv'
<1>1. PICK through \in SUBSET {c \in Calls : server[c].pc = "settle"} :
         settled' = settled \cup through
  BY DEF ServerDies
<1>2. /\ clock \in Nat /\ settled \subseteq Calls /\ crashes \in Nat
      /\ secret \in [{"file"} \cup Processes -> Secrets]
      /\ boot \in [Processes -> {"down", "creating", "writing", "running"}]
      /\ engine \in [Calls -> EngineCalls] /\ raced \in BOOLEAN
      /\ late \subseteq Calls /\ unheard \subseteq Calls
  BY TypeMeans DEF ServerInv
<1>3. secret' \in [{"file"} \cup Processes -> Secrets]
  BY <1>2 DEF ServerDies, Secrets
<1>4. boot' \in [Processes -> {"down", "creating", "writing", "running"}]
  BY <1>2 DEF ServerDies
<1>5. UNCHANGED <<clock, engine, raced, late, unheard>> /\ crashes' \in Nat
      /\ cache' = EmptyCache
  <2>1. UNCHANGED <<clock, engine, raced, late, unheard>> /\ crashes' = crashes + 1
        /\ cache' = EmptyCache
    BY DEF ServerDies, history
  <2> QED
    BY <1>2, <2>1
<1>6. CacheInv'
  BY <1>5 DEF CacheInv, EmptyCache, CacheKeys, CachedFits, Entries
<1>7. ASSUME NEW c \in Calls PROVE server'[c] \in Requests /\ CallInv(c)'
  <2>1. server[c] \in Requests /\ CallInv(c) /\ engine'[c] = engine[c]
    BY <1>5, Parts
  <2>2. CASE server[c].pc \in {"none", "answered"}
    <3>1. server'[c] = server[c]
      BY <2>2 DEF ServerDies
    <3>2. c \in settled' <=> c \in settled
      BY <1>1, <2>2
    <3> QED
      BY <1>5, <2>1, <3>1, <3>2, OthersFit
  <2>3. CASE server[c].pc \notin {"none", "answered"}
    <3>1. server'[c] = Dead(server[c].query, server[c].product)
      BY <2>3 DEF ServerDies, Dead
    <3>2. server[c].query \in MaybeQuery /\ server[c].product \in MaybeProduct
      BY <2>1 DEF Requests
    <3>3. c \in settled' => c \in settled \/ server[c].pc = "settle"
      BY <1>1
    <3> DEFINE s == Dead(server[c].query, server[c].product)
    <3>4. /\ s \in Requests /\ s.pc = "dead" /\ s.query = server[c].query
          /\ s.product = server[c].product /\ s.blame = "none" /\ s.code = "none" /\ s.leg = 1
      BY <3>2, DeadIs
    <3>5. server'[c] = s
      BY <3>1
    <3> HIDE DEF s
    <3> QED
      BY <1>5, <2>1, <2>3, <3>3, <3>4, <3>5, DeadFits
  <2> QED
    BY <2>2, <2>3
<1>8. server' \in [Calls -> Requests]
  BY <1>7 DEF ServerDies
<1>9. settled' \subseteq Calls
  BY <1>1, <1>2
<1>10. ServerTypeOK'
  BY <1>2, <1>3, <1>4, <1>5, <1>6, <1>8, <1>9
  DEF ServerTypeOK, CacheInv, EngineCalls, Requests, ServedProducts, CacheKeys, Entries,
      RequestPcs, MaybeQuery, Legs, MaybeProduct, Statuses, Blames
<1> QED
  BY <1>6, <1>7, <1>10 DEF ServerInv

LEMMA StutterFits == ServerInv /\ UNCHANGED vars => ServerInv'
<1> SUFFICES ASSUME ServerInv, UNCHANGED vars PROVE ServerInv'
  OBVIOUS
<1>1. UNCHANGED <<clock, engine, server, cache, settled, secret, boot, crashes, raced, late, unheard>>
  BY DEF vars, history
<1>2. ServerTypeOK'
  BY <1>1 DEF ServerInv, ServerTypeOK
<1>3. ASSUME NEW c \in Calls PROVE CallInv(c)'
  BY <1>1, Parts, OthersFit
<1>4. CacheInv'
  BY <1>1, CacheStays
<1> QED
  BY <1>2, <1>3, <1>4 DEF ServerInv

LEMMA ServerInvStep == ServerInv /\ [Next]_vars => ServerInv'
<1> SUFFICES ASSUME ServerInv, [Next]_vars PROVE ServerInv'
  OBVIOUS
<1>1. ASSUME NEW p \in Processes, Start(p) \/ OpenSecret(p) \/ WriteSecret(p) \/ StartFails(p)
      PROVE  ServerInv'
  BY <1>1, BootFits
<1>2. ASSUME NEW c \in Calls, EngineStep(c) PROVE ServerInv'
  BY <1>2, RequestFits, PricedFits, PayFits, EndFits DEF EngineStep
<1>3. ASSUME NEW c \in Calls, ServerStep(c) PROVE ServerInv'
  <2>1. CASE CheckToken(c) \/ VerifyPayment(c) \/ Lookup(c) \/ TickerIndex(c)
    BY <2>1, CheckTokenFits, VerifyFits, LookupFits, IndexFits
  <2>2. CASE Geocode(c) \/ KeepIndex(c) \/ Keep(c)
    BY <2>2, GeocodeFits, KeepIndexFits, KeepFits
  <2>3. CASE MissingName(c) \/ GetFails(c) \/ Unusable(c)
    BY <2>3, ErrorFits
  <2>4. CASE Settle(c) \/ SettleFails(c)
    BY <2>4, SettlementFits
  <2>5. CASE Unreachable(c)
    BY <2>5, UnreachableFits
  <2> QED
    BY <1>3, <2>1, <2>2, <2>3, <2>4, <2>5 DEF ServerStep
<1>4. CASE ServerDies
  BY <1>4, DiesFits
<1>5. CASE Tick
  BY <1>5, TickFits
<1>6. CASE Rest \/ UNCHANGED vars
  BY <1>6, StutterFits DEF Rest
<1> QED
  BY <1>1, <1>2, <1>3, <1>4, <1>5, <1>6 DEF Next

\* The inductive invariant is one.
THEOREM ServerInvariant == Spec => []ServerInv
<1> QED
  BY InitFits, ServerInvStep, PTL DEF Spec

\* Every variable of the resource server's model keeps its type.
THEOREM ServerTypeCorrect == Spec => []ServerTypeOK
<1>1. ServerInv => ServerTypeOK
  BY DEF ServerInv
<1> QED
  BY <1>1, ServerInvariant, PTL

\* No agent pays for what the route did not have in hand, or for what the engine did not
\* approve, however the engine gives up and the server dies.
THEOREM SettledIsDelivered == Spec => []SettledDelivered
<1>1. ServerInv => SettledDelivered
  <2> SUFFICES ASSUME ServerInv, NEW c \in settled
               PROVE  server[c].product # Nothing /\ server[c].product.for = Key(engine[c].query)
    BY DEF SettledDelivered
  <2>1. c \in Calls
    BY TypeMeans DEF ServerInv
  <2> QED
    BY <2>1, Parts DEF CallInv, Delivered, Paired
<1> QED
  BY <1>1, ServerInvariant, PTL

\* What is served is no older than its cache allows, whatever waits and times out.
THEOREM ServedIsRecent == Spec => []DataIsRecent
<1>1. ServerInv => DataIsRecent
  BY Parts DEF DataIsRecent, CallInv, Delivered
<1> QED
  BY <1>1, ServerInvariant, PTL

\* The code that the engine records names a layer that turned the call away, and is
\* "approved" when and only when the payment was settled, but for the settlements that
\* the server did not hear of.
THEOREM AnswersAreTrue == Spec => []AnswerIsTrue
<1>1. ServerInv => AnswerIsTrue
  <2> SUFFICES ASSUME ServerInv, NEW c \in Calls, engine[c].code \notin {"none", "payment_failed"}
               PROVE  /\ server[c].blame \in Layers(engine[c].code)
                      /\ engine[c].code = "approved" <=> c \in settled \ unheard
    BY DEF AnswerIsTrue
  <2>1. CallInv(c) /\ server[c].status \in Statuses /\ server[c].code \in AnswerCodes
    BY Parts DEF Requests, CallInv, Named, AnswerCodes
  <2>2. /\ server[c].pc = "answered" /\ ~Priced(c)
        /\ engine[c].code = Classify(server[c].status, server[c].code)
        /\ server[c].blame \in Layers(Classify(server[c].status, server[c].code))
        /\ server[c].status = 200 <=> c \in settled \ unheard
    BY <2>1 DEF CallInv, Named
  <2> QED
    BY <2>1, <2>2, ClassifyIs
<1> QED
  BY <1>1, ServerInvariant, PTL
----------------------------------------------------------------------------
(***************************************************************************)
(* The token.                                                              *)
(***************************************************************************)
TokenInv ==
    /\ ServerInv
    /\ SecretFits
    /\ \A c \in Calls : TokenFits(c)

LEMMA OtherIs == Other("engine") = "server" /\ Other("server") = "engine"
<1>1. \E q \in Processes : q # "engine"
  BY DEF Processes
<1>2. \E q \in Processes : q # "server"
  BY DEF Processes
<1> QED
  BY <1>1, <1>2 DEF Other, Processes

LEMMA TokenParts ==
    ASSUME TokenInv, NEW c \in Calls
    PROVE  /\ ServerInv /\ SecretFits /\ TokenFits(c) /\ CallInv(c)
           /\ engine[c] \in EngineCalls /\ server[c] \in Requests
           /\ engine \in [Calls -> EngineCalls] /\ server \in [Calls -> Requests]
           /\ engine[c].since \in Nat /\ engine[c].exp \in Nat /\ engine[c].priced \in Nat
           /\ clock \in Nat
<1>1. ServerInv /\ SecretFits /\ TokenFits(c)
  BY DEF TokenInv
<1>2. /\ engine[c] \in EngineCalls /\ server[c] \in Requests /\ clock \in Nat /\ CallInv(c)
      /\ engine \in [Calls -> EngineCalls] /\ server \in [Calls -> Requests]
  BY <1>1, Parts
<1> QED
  BY <1>1, <1>2 DEF EngineCalls, Requests

\* What was excused stays so.
LEMMA TokenStays ==
    ASSUME NEW d \in Calls, TokenFits(d), clock' = clock, secret'["engine"] = secret["engine"],
           boot'["engine"] = boot["engine"], raced => raced', late \subseteq late',
           engine'[d] = engine[d], server'[d] = server[d]
    PROVE  TokenFits(d)'
  BY DEF TokenFits, Excused, InBounds, TokenTtl

LEMMA SecretStays ==
    ASSUME SecretFits, UNCHANGED <<secret, boot, raced>>
    PROVE  SecretFits'
  BY DEF SecretFits

LEMMA TokenInit == Init => TokenInv
<1> SUFFICES ASSUME Init PROVE TokenInv
  OBVIOUS
<1>1. SecretFits
  BY DEF Init, SecretFits
<1>2. \A c \in Calls : TokenFits(c)
  BY RecordsAre DEF Init, TokenFits
<1> QED
  BY <1>1, <1>2, InitFits DEF TokenInv

\* A step of one call: only what it knows is in question.
LEMMA TokenMoves ==
    ASSUME TokenInv, ServerInv', NEW c \in Calls, UNCHANGED <<clock, secret, boot, raced>>,
           late \subseteq late',
           \A d \in Calls \ {c} : engine'[d] = engine[d] /\ server'[d] = server[d],
           TokenFits(c)'
    PROVE  TokenInv'
<1>1. ASSUME NEW d \in Calls, d # c PROVE TokenFits(d)'
  BY <1>1, TokenStays DEF TokenInv
<1>2. SecretFits'
  BY SecretStays DEF TokenInv
<1> QED
  BY <1>1, <1>2 DEF TokenInv

LEMMA RequestRests ==
    ASSUME TokenInv, ServerInv', NEW c \in Calls, NEW query \in Queries, Request(c, query)
    PROVE  TokenInv'
<1>1. /\ engine \in [Calls -> EngineCalls] /\ server \in [Calls -> Requests]
      /\ clock \in Nat /\ ServerInv /\ query \in Query
  BY TokenParts, ServerAssumption
<1>0. PICK e, s : e = Asking(query) /\ s = Sent(1, e)
  OBVIOUS
<1>2. /\ e \in EngineCalls /\ e.pc = "asking" /\ e.since = clock /\ e.query = query
      /\ e.key = secret["engine"] /\ e.exp = clock + TokenTtl /\ e.code = "none"
  BY <1>0, <1>1, AskingIs
<1>3. s.pc = "transit" /\ s.key = e.key /\ s.exp = e.exp
  BY <1>0, <1>1, <1>2, LegSent
<1>4. /\ engine' = [engine EXCEPT ![c] = e] /\ server' = [server EXCEPT ![c] = s]
      /\ UNCHANGED <<clock, secret, boot, raced, late>> /\ boot["engine"] = "running"
  BY <1>0, RequestIs
<1>5. engine'[c] = e /\ server'[c] = s
      /\ \A d \in Calls \ {c} : engine'[d] = engine[d] /\ server'[d] = server[d]
  BY <1>1, <1>4
<1>6. InBounds(clock, clock, OutboundTimeout)
  BY <1>1, Delays DEF InBounds
<1>7. TokenFits(c)'
  BY <1>2, <1>3, <1>4, <1>5, <1>6 DEF TokenFits, InBounds, TokenTtl
<1> QED
  BY <1>4, <1>5, <1>7, TokenMoves

\* The first leg has taken no longer than its timeout, and leaves the margin.
LEMMA PricedRests ==
    ASSUME TokenInv, ServerInv', NEW c \in Calls, GetPaymentRequired(c)
    PROVE  TokenInv'
<1>1. /\ engine \in [Calls -> EngineCalls] /\ TokenFits(c) /\ ServerInv
      /\ clock \in Nat /\ engine[c].since \in Nat /\ engine[c].exp \in Nat
  BY TokenParts
<1>0. PICK e : e = Pricing(c)
  OBVIOUS
<1>2. /\ e.pc = "signing" /\ e.key = engine[c].key /\ e.priced = clock
      /\ e.exp = engine[c].exp /\ e.code = engine[c].code
      /\ engine' = [engine EXCEPT ![c] = e] /\ engine[c].pc = "asking"
      /\ server[c].pc = "answered" /\ server[c].status = 402
      /\ UNCHANGED <<clock, server, secret, boot, history>>
  BY <1>0, <1>1, PricedIs
<1>3. engine'[c] = e /\ \A d \in Calls \ {c} : engine'[d] = engine[d]
  BY <1>1, <1>2
<1>4. clock + TokenMargin <= engine[c].exp
  BY <1>1, <1>2, Delays DEF TokenFits, InBounds, TokenTtl
<1>5. UNCHANGED <<raced, late>>
  BY <1>2 DEF history
<1>6. TokenFits(c)'
  BY <1>1, <1>2, <1>3, <1>4, <1>5 DEF TokenFits, Excused
<1> QED
  BY <1>2, <1>3, <1>5, <1>6, TokenMoves

LEMMA PayRests ==
    ASSUME TokenInv, ServerInv', NEW c \in Calls, Pay(c)
    PROVE  TokenInv'
<1>1. /\ engine \in [Calls -> EngineCalls] /\ engine[c] \in EngineCalls /\ TokenFits(c)
      /\ server \in [Calls -> Requests] /\ ServerInv /\ CallInv(c)
  BY TokenParts
<1>0. PICK e, s : e = Paying(c) /\ s = Sent(2, engine[c])
  OBVIOUS
<1>2. /\ e.pc = "paying" /\ e.key = engine[c].key /\ e.exp = engine[c].exp
      /\ e.priced = engine[c].priced /\ e.code = engine[c].code
      /\ engine' = [engine EXCEPT ![c] = e] /\ server' = [server EXCEPT ![c] = s]
      /\ engine[c].pc = "signing" /\ UNCHANGED <<clock, secret, boot, raced, late>>
  BY <1>0, <1>1, PayIs
<1>3. engine[c].query \in Query
  BY <1>1, <1>2 DEF CallInv, Paired
<1>4. s.pc = "transit" /\ s.key = engine[c].key /\ s.exp = engine[c].exp
  BY <1>0, <1>1, <1>3, LegSent
<1>5. engine'[c] = e /\ server'[c] = s
      /\ \A d \in Calls \ {c} : engine'[d] = engine[d] /\ server'[d] = server[d]
  BY <1>1, <1>2
<1>6. TokenFits(c)'
  BY <1>1, <1>2, <1>4, <1>5 DEF TokenFits, Excused
<1> QED
  BY <1>2, <1>5, <1>6, TokenMoves

LEMMA EndRests ==
    ASSUME TokenInv, ServerInv', NEW c \in Calls, GetAnswer(c) \/ GiveUp(c)
    PROVE  TokenInv'
<1>1. /\ engine \in [Calls -> EngineCalls] /\ engine[c] \in EngineCalls /\ TokenFits(c)
      /\ server[c] \in Requests /\ CallInv(c) /\ ServerInv
  BY TokenParts
<1>2. PICK code \in Codes :
         /\ Done(c, code) /\ UNCHANGED <<clock, server, secret, boot, history>>
         /\ engine[c].pc \in {"asking", "signing", "paying"}
         /\ code = "policy_auth_failed" => server[c].pc = "answered" /\ server[c].status = 403
  <2>1. CASE GetAnswer(c)
    <3>1. /\ server[c].status \in Statuses /\ server[c].code \in AnswerCodes
      BY <1>1 DEF Requests, Statuses, CallInv, Named, AnswerCodes
    <3>2. /\ Classify(server[c].status, server[c].code) \in Codes
          /\ Classify(server[c].status, server[c].code) = "policy_auth_failed"
                <=> server[c].status = 403
      BY <3>1, ClassifyIs
    <3> QED
      BY <2>1, <3>2 DEF GetAnswer
  <2>2. CASE GiveUp(c)
    <3>1. "payment_failed" \in Codes
      BY DEF Codes
    <3> QED
      BY <2>2, <3>1 DEF GiveUp
  <2> QED
    BY <2>1, <2>2
<1>0. PICK e : e = Through(c, code)
  OBVIOUS
<1>3. e.pc = "done" /\ e.code = code
  BY <1>0, <1>1, ThroughIs
<1>4. engine' = [engine EXCEPT ![c] = e]
  BY <1>0, <1>2 DEF Done, EngineTo, Through
<1>5. engine'[c] = e /\ \A d \in Calls \ {c} : engine'[d] = engine[d]
  BY <1>1, <1>4
<1>6. UNCHANGED <<raced, late>>
  BY <1>2 DEF history
<1>7. TokenFits(c)'
  BY <1>1, <1>2, <1>3, <1>5, <1>6 DEF TokenFits, Excused
<1> QED
  BY <1>2, <1>5, <1>6, <1>7, TokenMoves

\* The server goes on with a request, and does not turn it away for its token without
\* an excuse.
LEMMA ServerRests ==
    ASSUME TokenInv, ServerInv', NEW c \in Calls, NEW s,
           server' = [server EXCEPT ![c] = s],
           UNCHANGED <<clock, engine, secret, boot, raced>>, late \subseteq late',
           s.pc # "transit",
           s.pc = "answered" /\ s.status = 403 /\ engine[c].pc # "done" => Excused(c)'
    PROVE  TokenInv'
<1>1. TokenFits(c) /\ server \in [Calls -> Requests]
  BY TokenParts
<1>2. server'[c] = s /\ \A d \in Calls \ {c} : server'[d] = server[d]
  BY <1>1
<1>3. TokenFits(c)'
  BY <1>1, <1>2 DEF TokenFits, Excused, InBounds, TokenTtl
<1> QED
  BY <1>2, <1>3, TokenMoves

LEMMA AnswerRests ==
    ASSUME TokenInv, ServerInv', NEW c \in Calls, NEW status, NEW code, NEW blame,
           Answer(c, status, code, blame), late \subseteq late',
           status = 403 /\ engine[c].pc # "done" => Excused(c)'
    PROVE  TokenInv'
<1> DEFINE s == [server[c] EXCEPT !.pc = "answered", !.key = "none", !.exp = 0, !.since = 0,
                                  !.listed = 0, !.status = status, !.code = code,
                                  !.blame = blame]
<1>1. server[c] \in Requests
  BY TokenParts
<1>2. s.pc = "answered" /\ s.status = status
  BY <1>1 DEF Requests
<1>3. server' = [server EXCEPT ![c] = s] /\ UNCHANGED <<clock, engine, secret, boot, raced>>
  BY DEF Answer, Moves, ServerTo
<1> HIDE DEF s
<1> QED
  BY <1>2, <1>3, ServerRests

LEMMA FailRests ==
    ASSUME TokenInv, ServerInv', NEW c \in Calls, NEW code \in DOMAIN Status, Fail(c, code),
           UNCHANGED late
    PROVE  TokenInv'
<1>1. Status[code] # 403
  BY FailNames
<1> QED
  BY <1>1, AnswerRests DEF Fail

\* A request that goes on, and has no status yet.
LEMMA MovesRest ==
    ASSUME TokenInv, ServerInv', NEW c \in Calls, NEW s, Moves(c, s), late \subseteq late',
           s.pc \notin {"transit", "answered"}
    PROVE  TokenInv'
  BY ServerRests DEF Moves, ServerTo

LEMMA CheckMoves ==
    ASSUME TokenInv, NEW c \in Calls, CheckToken(c)
    PROVE  \E s : Moves(c, s)
<1>1. server[c].leg \in {1, 2}
  BY TokenParts DEF Requests, Legs
<1>2. CASE ~TokenHolds(c)
  BY <1>2 DEF CheckToken, Answer
<1>3. CASE TokenHolds(c) /\ server[c].leg = 1
  <2>1. Answer(c, 402, "none", "none")
    BY <1>3 DEF CheckToken
  <2> QED
    BY <2>1 DEF Answer
<1>4. CASE TokenHolds(c) /\ server[c].leg = 2
  <2>1. Moves(c, [server[c] EXCEPT !.pc = "verify", !.key = "none", !.exp = 0])
    BY <1>4 DEF CheckToken
  <2> QED
    BY <2>1
<1> QED
  BY <1>1, <1>2, <1>3, <1>4

\* verify_token finds nothing wrong, unless there is an excuse.
LEMMA TokenIsGood ==
    ASSUME TokenInv, NEW c \in Calls, CheckToken(c), engine[c].pc # "done", ~Excused(c)'
    PROVE  TokenHolds(c)
<1>1. /\ TokenFits(c) /\ SecretFits /\ CallInv(c) /\ engine[c] \in EngineCalls
      /\ engine[c].exp \in Nat /\ engine[c].since \in Nat /\ engine[c].priced \in Nat
      /\ clock \in Nat /\ server[c].pc = "transit" /\ boot["server"] = "running"
  BY TokenParts DEF CheckToken, Serving
<1>2. engine[c].pc \in {"asking", "paying"} /\ server[c].query = engine[c].query
  BY <1>1 DEF CallInv, Paired, EngineCalls
<1>3. /\ boot["engine"] = "running" /\ engine[c].key = secret["engine"]
      /\ server[c].key = engine[c].key /\ server[c].exp = engine[c].exp
  BY <1>1, <1>2 DEF TokenFits
<1>4. ~raced /\ c \notin late'
  <2>1. raced' = raced
    BY CheckMoves DEF Moves
  <2> QED
    BY <2>1 DEF Excused
<1>5. server[c].key = secret["server"]
  <2>1. "engine" \in Processes /\ "server" \in Processes
    BY DEF Processes
  <2> QED
    BY <1>1, <1>3, <1>4, <2>1 DEF SecretFits
<1>6. clock <= server[c].exp
  <2>1. CASE engine[c].pc = "asking"
    BY <1>1, <1>3, <2>1, Delays DEF TokenFits, InBounds, TokenTtl
  <2>2. CASE engine[c].pc = "paying"
    <3>1. ~(clock > engine[c].priced + TokenMargin)
      BY <1>4, <2>2 DEF CheckToken
    <3> QED
      BY <1>1, <1>3, <2>2, <3>1, Delays DEF TokenFits
  <2> QED
    BY <1>2, <2>1, <2>2
<1> QED
  BY <1>2, <1>5, <1>6 DEF TokenHolds

LEMMA CheckTokenRests ==
    ASSUME TokenInv, ServerInv', NEW c \in Calls, CheckToken(c)
    PROVE  TokenInv'
<1>1. server[c].leg \in {1, 2} /\ server[c] \in Requests /\ late \subseteq late'
  BY TokenParts DEF CheckToken, Requests, Legs
<1>2. CASE ~TokenHolds(c)
  <2>1. Answer(c, 403, "none", "auth")
    BY <1>2 DEF CheckToken
  <2>2. engine[c].pc # "done" => Excused(c)'
    BY <1>2, TokenIsGood
  <2> QED
    BY <1>1, <2>1, <2>2, AnswerRests
<1>3. CASE TokenHolds(c) /\ server[c].leg = 1
  <2>1. Answer(c, 402, "none", "none")
    BY <1>3 DEF CheckToken
  <2> QED
    BY <1>1, <2>1, AnswerRests
<1>4. CASE TokenHolds(c) /\ server[c].leg = 2
  <2> DEFINE s == [server[c] EXCEPT !.pc = "verify", !.key = "none", !.exp = 0]
  <2>1. Moves(c, s)
    BY <1>4 DEF CheckToken
  <2>2. s.pc = "verify"
    BY <1>1 DEF Requests
  <2> HIDE DEF s
  <2> QED
    BY <1>1, <2>1, <2>2, MovesRest
<1> QED
  BY <1>1, <1>2, <1>3, <1>4

LEMMA ServeRests ==
    ASSUME TokenInv, ServerInv', NEW c \in Calls, NEW product, Serve(c, product), UNCHANGED late
    PROVE  TokenInv'
<1> DEFINE s == [server[c] EXCEPT
                   !.pc = "settle", !.since = 0, !.listed = 0,
                   !.product = [for |-> product.for, age |-> clock - product.asOf,
                                lag |-> product.asOf - product.listed]]
<1>1. server[c] \in Requests
  BY TokenParts
<1>2. s.pc = "settle" /\ Moves(c, s)
  BY <1>1 DEF Serve, Requests
<1> HIDE DEF s
<1> QED
  BY <1>2, MovesRest

LEMMA AskRests ==
    ASSUME TokenInv, ServerInv', NEW c \in Calls, UNCHANGED late,
           Moves(c, [server[c] EXCEPT !.pc = "resolve", !.since = clock])
    PROVE  TokenInv'
<1> DEFINE s == [server[c] EXCEPT !.pc = "resolve", !.since = clock]
<1>1. server[c] \in Requests
  BY TokenParts
<1>2. s.pc = "resolve" /\ Moves(c, s)
  BY <1>1 DEF Requests
<1> HIDE DEF s
<1> QED
  BY <1>2, MovesRest

LEMMA MatchRests ==
    ASSUME TokenInv, ServerInv', NEW c \in Calls, NEW listed, Match(c, listed), UNCHANGED late
    PROVE  TokenInv'
<1>1. CASE Moves(c, [server[c] EXCEPT !.pc = "fetch", !.listed = listed, !.since = clock])
  <2> DEFINE s == [server[c] EXCEPT !.pc = "fetch", !.listed = listed, !.since = clock]
  <2>1. server[c] \in Requests
    BY TokenParts
  <2>2. s.pc = "fetch" /\ Moves(c, s)
    BY <1>1, <2>1 DEF Requests
  <2> HIDE DEF s
  <2> QED
    BY <2>2, MovesRest
<1>2. CASE \E code \in DOMAIN Status : Fail(c, code)
  BY <1>2, FailRests
<1>3. {"place_not_found", "company_not_found"} \subseteq DOMAIN Status
  BY StatusIs
<1> QED
  BY <1>1, <1>2, <1>3 DEF Match

\* A request that is worked on goes on, or has its product.
LEMMA WorkRests ==
    ASSUME TokenInv, ServerInv', NEW c \in Calls,
           \/ Lookup(c) \/ TickerIndex(c) \/ Geocode(c) \/ KeepIndex(c) \/ Keep(c)
    PROVE  TokenInv'
<1>1. server[c] \in Requests /\ UNCHANGED late
  BY TokenParts DEF Lookup, TickerIndex, Geocode, KeepIndex, Keep
<1>2. CASE Lookup(c)
  <2>1. \/ Serve(c, cache[Key(server[c].query)].product)
        \/ Moves(c, [server[c] EXCEPT !.pc = "resolve", !.since = clock])
        \/ Moves(c, [server[c] EXCEPT !.pc = "index"])
    BY <1>2 DEF Lookup
  <2>2. CASE Moves(c, [server[c] EXCEPT !.pc = "index"])
    <3> DEFINE s == [server[c] EXCEPT !.pc = "index"]
    <3>1. s.pc = "index" /\ Moves(c, s)
      BY <1>1, <2>2 DEF Requests
    <3> HIDE DEF s
    <3> QED
      BY <1>1, <3>1, MovesRest
  <2> QED
    BY <1>1, <2>1, <2>2, ServeRests, AskRests
<1>3. CASE TickerIndex(c)
  <2>1. \/ Match(c, cache[Tickers].product.asOf)
        \/ Moves(c, [server[c] EXCEPT !.pc = "resolve", !.since = clock])
    BY <1>3 DEF TickerIndex
  <2> QED
    BY <1>1, <2>1, MatchRests, AskRests
<1>4. CASE Geocode(c) \/ KeepIndex(c)
  <2>1. Match(c, server[c].since)
    BY <1>4 DEF Geocode, KeepIndex
  <2> QED
    BY <1>1, <2>1, MatchRests
<1>5. CASE Keep(c)
  BY <1>1, <1>5, ServeRests DEF Keep
<1> QED
  BY <1>2, <1>3, <1>4, <1>5

LEMMA ErrorRests ==
    ASSUME TokenInv, ServerInv', NEW c \in Calls,
           MissingName(c) \/ GetFails(c) \/ Unusable(c)
    PROVE  TokenInv'
<1>1. {"missing_param", "upstream_malformed"} \subseteq DOMAIN Status
      /\ Faults \subseteq DOMAIN Status
  BY StatusIs, ServerAssumption
<1>2. UNCHANGED late
  BY DEF MissingName, GetFails, Unusable
<1>3. CASE MissingName(c)
  BY <1>1, <1>2, <1>3, FailRests DEF MissingName
<1>4. CASE GetFails(c)
  BY <1>1, <1>2, <1>4, FailRests DEF GetFails
<1>5. CASE Unusable(c)
  <2>1. Fail(c, "upstream_malformed") \/ Answer(c, 500, "none", "vendor")
    BY <1>5 DEF Unusable
  <2>2. CASE Answer(c, 500, "none", "vendor")
    <3>1. 500 # 403
      OBVIOUS
    <3> QED
      BY <1>2, <2>2, <3>1, AnswerRests
  <2> QED
    BY <1>1, <1>2, <2>1, <2>2, FailRests
<1> QED
  BY <1>3, <1>4, <1>5

LEMMA VerifyRests ==
    ASSUME TokenInv, ServerInv', NEW c \in Calls, VerifyPayment(c)
    PROVE  TokenInv'
<1>1. server[c] \in Requests /\ UNCHANGED late
  BY TokenParts DEF VerifyPayment
<1>2. ASSUME NEW status \in {402, 500}, Answer(c, status, "none", "payment")
      PROVE  TokenInv'
  <2>1. status # 403
    OBVIOUS
  <2> QED
    BY <1>1, <1>2, <2>1, AnswerRests
<1>3. CASE Moves(c, [server[c] EXCEPT !.pc = "lookup"])
  <2> DEFINE s == [server[c] EXCEPT !.pc = "lookup"]
  <2>1. s.pc = "lookup" /\ Moves(c, s)
    BY <1>1, <1>3 DEF Requests
  <2> HIDE DEF s
  <2> QED
    BY <1>1, <2>1, MovesRest
<1> QED
  BY <1>2, <1>3 DEF VerifyPayment

LEMMA LastRests ==
    ASSUME TokenInv, ServerInv', NEW c \in Calls,
           Settle(c) \/ SettleFails(c) \/ Unreachable(c)
    PROVE  TokenInv'
<1>1. server[c] \in Requests /\ server[c].query \in MaybeQuery
  BY TokenParts DEF Requests
<1>2. CASE Settle(c)
  <2> DEFINE s == [server[c] EXCEPT !.pc = "answered", !.status = 200]
  <2>1. s.pc # "transit" /\ s.status # 403
    BY <1>1 DEF Requests
  <2>2. server' = [server EXCEPT ![c] = s]
        /\ UNCHANGED <<clock, engine, secret, boot, raced, late>>
    BY <1>2 DEF Settle, ServerTo, history
  <2> HIDE DEF s
  <2> QED
    BY <2>1, <2>2, ServerRests
<1>3. CASE SettleFails(c)
  <2> DEFINE s == [server[c] EXCEPT !.pc = "answered", !.status = 402, !.blame = "payment"]
  <2>1. s.pc # "transit" /\ s.status # 403
    BY <1>1 DEF Requests
  <2>2. server' = [server EXCEPT ![c] = s]
        /\ UNCHANGED <<clock, engine, secret, boot, raced, late>>
    BY <1>3 DEF SettleFails, ServerTo
  <2> HIDE DEF s
  <2> QED
    BY <2>1, <2>2, ServerRests
<1>4. CASE Unreachable(c)
  <2> DEFINE s == [NoRequest EXCEPT !.pc = "dead", !.query = server[c].query]
  <2>1. s.pc = "dead"
    BY <1>1, DeadBeforeServing
  <2>2. server' = [server EXCEPT ![c] = s]
        /\ UNCHANGED <<clock, engine, secret, boot, raced, late>>
    BY <1>4 DEF Unreachable, ServerTo, history
  <2> HIDE DEF s
  <2> QED
    BY <2>1, <2>2, ServerRests
<1> QED
  BY <1>2, <1>3, <1>4

LEMMA ServerStepRests ==
    ASSUME TokenInv, ServerInv', NEW c \in Calls, ServerStep(c)
    PROVE  TokenInv'
<1>1. CASE CheckToken(c) \/ VerifyPayment(c)
  BY <1>1, CheckTokenRests, VerifyRests
<1>2. CASE MissingName(c) \/ GetFails(c) \/ Unusable(c)
  BY <1>2, ErrorRests
<1>3. CASE Lookup(c) \/ TickerIndex(c) \/ Geocode(c) \/ KeepIndex(c) \/ Keep(c)
  BY <1>3, WorkRests
<1>4. CASE Settle(c) \/ SettleFails(c) \/ Unreachable(c)
  BY <1>4, LastRests
<1> QED
  BY <1>1, <1>2, <1>3, <1>4 DEF ServerStep

\* Who has read the secret, or written it, has what is in the file; who empties a file
\* or writes over another's has raced.
LEMMA BootRests ==
    ASSUME TokenInv, ServerInv', NEW p \in Processes,
           Start(p) \/ OpenSecret(p) \/ WriteSecret(p) \/ StartFails(p)
    PROVE  TokenInv'
<1>1. clock' = clock /\ engine' = engine /\ server' = server /\ late' = late
  BY DEF Start, OpenSecret, WriteSecret, StartFails, history
<1>7. raced => raced'
  BY DEF Start, OpenSecret, WriteSecret, StartFails, history
<1>8. boot[p] \in {"down", "creating", "writing"}
  BY DEF Start, OpenSecret, WriteSecret, StartFails
<1>9. SecretFits /\ \A c \in Calls : TokenFits(c)
  BY DEF TokenInv
<1>2. /\ secret \in [{"file"} \cup Processes -> Secrets]
      /\ boot \in [Processes -> {"down", "creating", "writing", "running"}]
  BY TypeMeans DEF TokenInv, ServerInv
<1>3. "file" \notin Processes /\ "engine" \in Processes
  BY DEF Processes
<1>4. ASSUME NEW q \in Processes, q # p PROVE boot'[q] = boot[q] /\ secret'[q] = secret[q]
  BY <1>2, <1>3, <1>4 DEF Start, OpenSecret, WriteSecret, StartFails
<1>5. ASSUME NEW c \in Calls PROVE TokenFits(c)'
  <2>1. CASE boot["engine"] = "running"
    <3>1. boot'["engine"] = boot["engine"] /\ secret'["engine"] = secret["engine"]
      BY <1>3, <1>4, <1>8, <2>1
    <3>2. late \subseteq late' /\ TokenFits(c)
      BY <1>1, <1>9
    <3> QED
      BY <1>1, <1>7, <3>1, <3>2, TokenStays
  <2>2. CASE boot["engine"] # "running"
    <3>1. engine[c].pc \notin {"asking", "signing", "paying"}
      BY <1>9, <2>2 DEF TokenFits
    <3>2. Excused(c) => Excused(c)'
      BY <1>1, <1>7 DEF Excused
    <3>3. TokenFits(c) /\ engine'[c] = engine[c] /\ server'[c] = server[c]
      BY <1>1, <1>9
    <3> QED
      BY <3>1, <3>2, <3>3 DEF TokenFits
  <2> QED
    BY <2>1, <2>2
<1>6. SecretFits'
  <2>1. CASE Start(p)
    <3>1. CASE secret.file = "none"
      <4>1. secret' = secret /\ boot'[p] = "creating"
        BY <1>2, <2>1, <3>1 DEF Start
      <4> QED
        BY <1>9, <1>4, <1>7, <4>1 DEF SecretFits
    <3>2. CASE secret.file # "none"
      <4>1. /\ secret'["file"] = secret["file"] /\ secret'[p] = secret["file"]
            /\ ~raced' => ~raced /\ secret["file"] \in {"first", "second"}
        BY <1>2, <1>3, <2>1, <3>2 DEF Start, Secrets
      <4> QED
        BY <1>9, <1>4, <4>1 DEF SecretFits
    <3> QED
      BY <3>1, <3>2
  <2>2. CASE OpenSecret(p)
    <3>1. boot'[p] = "writing" /\ (~raced' => ~raced /\ secret["file"] \notin {"first", "second"})
      BY <1>2, <2>2 DEF OpenSecret
    <3> QED
      BY <1>9, <1>4, <3>1 DEF SecretFits
  <2>3. CASE WriteSecret(p)
    <3>1. /\ secret'["file"] = secret'[p] /\ secret'[p] \in {"first", "second"}
          /\ ~raced' => ~raced /\ secret["file"] = "empty"
      BY <1>2, <1>3, <2>3 DEF WriteSecret
    <3> QED
      BY <1>9, <1>4, <3>1 DEF SecretFits
  <2>4. CASE StartFails(p)
    <3>1. boot'[p] = "down" /\ secret' = secret /\ raced' = raced
      BY <1>2, <2>4 DEF StartFails, history
    <3> QED
      BY <1>9, <1>4, <3>1 DEF SecretFits
  <2> QED
    BY <2>1, <2>2, <2>3, <2>4
<1> QED
  BY <1>5, <1>6 DEF TokenInv

LEMMA TickRests ==
    ASSUME TokenInv, ServerInv', Tick
    PROVE  TokenInv'
<1>1. /\ clock' = clock + 1 /\ \A c \in Calls : InTime(c)
      /\ UNCHANGED <<engine, server, secret, boot, raced, late>>
  BY DEF Tick, history
<1>2. ASSUME NEW c \in Calls PROVE TokenFits(c)'
  <2>1. TokenFits(c) /\ InTime(c) /\ clock \in Nat /\ engine[c].since \in Nat
    BY <1>1, TokenParts
  <2>2. engine[c].pc = "asking" => InBounds(engine[c].since, clock', OutboundTimeout)
    BY <1>1, <2>1, Delays DEF TokenFits, InTime, InBounds
  <2> QED
    BY <1>1, <2>1, <2>2 DEF TokenFits, Excused, InBounds, TokenTtl
<1>3. SecretFits'
  BY <1>1, SecretStays DEF TokenInv
<1> QED
  BY <1>2, <1>3 DEF TokenInv

\* A server that dies forgets the secret; the file keeps it.
LEMMA DiesRests ==
    ASSUME TokenInv, ServerInv', ServerDies
    PROVE  TokenInv'
<1>1. /\ UNCHANGED <<clock, engine, raced, late>>
      /\ boot' = [boot EXCEPT !["server"] = "down"]
      /\ secret' = [secret EXCEPT !.server = "none"] /\ SecretFits
  BY DEF ServerDies, TokenInv, history
<1>2. /\ secret \in [{"file"} \cup Processes -> Secrets]
      /\ boot \in [Processes -> {"down", "creating", "writing", "running"}]
  BY TypeMeans DEF TokenInv, ServerInv
<1>3. /\ secret'["file"] = secret["file"] /\ secret'["engine"] = secret["engine"]
      /\ boot'["server"] = "down" /\ boot'["engine"] = boot["engine"]
      /\ Processes = {"engine", "server"}
  BY <1>1, <1>2 DEF Processes
<1>4. SecretFits'
  BY <1>1, <1>3 DEF SecretFits
<1>5. ASSUME NEW c \in Calls PROVE TokenFits(c)'
  <2>1. TokenFits(c) /\ server[c] \in Requests /\ server[c].query \in MaybeQuery
        /\ server[c].product \in MaybeProduct
    BY TokenParts DEF Requests
  <2>2. server'[c] = server[c] \/ server'[c] = Dead(server[c].query, server[c].product)
    BY DEF ServerDies, Dead
  <2>3. server'[c] = server[c] \/ server'[c].pc = "dead"
    BY <2>1, <2>2, DeadIs
  <2> QED
    BY <1>1, <1>3, <2>1, <2>3 DEF TokenFits, Excused, InBounds, TokenTtl
<1> QED
  BY <1>4, <1>5 DEF TokenInv

LEMMA TokenInvStep == TokenInv /\ [Next]_vars => TokenInv'
<1> SUFFICES ASSUME TokenInv, [Next]_vars PROVE TokenInv'
  OBVIOUS
<1>1. ServerInv'
  BY ServerInvStep DEF TokenInv
<1>2. ASSUME NEW p \in Processes, Start(p) \/ OpenSecret(p) \/ WriteSecret(p) \/ StartFails(p)
      PROVE  TokenInv'
  BY <1>1, <1>2, BootRests
<1>3. ASSUME NEW c \in Calls, EngineStep(c) PROVE TokenInv'
  BY <1>1, <1>3, RequestRests, PricedRests, PayRests, EndRests DEF EngineStep
<1>4. ASSUME NEW c \in Calls, ServerStep(c) PROVE TokenInv'
  BY <1>1, <1>4, ServerStepRests
<1>5. CASE ServerDies \/ Tick
  BY <1>1, <1>5, DiesRests, TickRests
<1>6. CASE Rest \/ UNCHANGED vars
  <2>1. UNCHANGED <<clock, engine, server, secret, boot, raced, late>>
    BY <1>6 DEF Rest, vars, history
  <2>2. \A c \in Calls : TokenFits(c)'
    BY <2>1, TokenStays DEF TokenInv
  <2> QED
    BY <1>1, <2>1, <2>2, SecretStays DEF TokenInv
<1> QED
  BY <1>2, <1>3, <1>4, <1>5, <1>6 DEF Next

\* No call that cleared policy is turned away for its token, however slow its first leg
\* and whichever process restarts, but for two processes that got in each other's way at
\* the secret's file, or a second leg that came later than the margin.
THEOREM TokensLast == Spec => []TokenOutlivesExchange
<1>1. TokenInv => TokenOutlivesExchange
  BY DEF TokenInv, TokenFits, Excused, TokenOutlivesExchange
<1> QED
  BY <1>1, TokenInit, TokenInvStep, PTL DEF Spec
----------------------------------------------------------------------------
(***************************************************************************)
(* ResourceServer implements Exchange.  A step of the engine's thread      *)
(* sends a call, learns what became of it or gives it up; a step of the    *)
(* server's, taken while the call is open, ends it or leaves it open.      *)
(***************************************************************************)
\* What the engine knows of a call.
Heard(c) == IF c \in unheard /\ engine[c].code # "none" THEN "lost" ELSE Known(engine[c].code)

Busy == {"transit"} \cup Working

LEMMA ExchangesAre ==
    /\ DOMAIN Exchanges = {c \in Calls : engine[c].pc # "idle"}
    /\ \A c \in DOMAIN Exchanges :
          Exchanges[c] =
             [state |-> IF c \in settled THEN "settled"
                        ELSE IF Ended(c) THEN "refused" ELSE "open",
              known |-> Heard(c)]
  BY DEF Exchanges, Heard

\* The same, in the next state.
LEMMA ExchangesBecome ==
    /\ DOMAIN Exchanges' = {c \in Calls : engine'[c].pc # "idle"}
    /\ \A c \in DOMAIN Exchanges' :
          Exchanges'[c] =
             [state |-> IF c \in settled' THEN "settled"
                        ELSE IF Ended(c)' THEN "refused" ELSE "open",
              known |-> Heard(c)']
  BY DEF Exchanges, Heard

\* Two tables with the same calls and the same records are one.
LEMMA SameExchanges ==
    ASSUME DOMAIN Exchanges' = DOMAIN Exchanges,
           \A c \in DOMAIN Exchanges : Exchanges'[c] = Exchanges[c]
    PROVE  Exchanges' = Exchanges
<1>1. /\ Exchanges = [c \in DOMAIN Exchanges |-> Exchanges[c]]
      /\ Exchanges' = [c \in DOMAIN Exchanges' |-> Exchanges'[c]]
  BY DEF Exchanges
<1> QED
  BY <1>1

\* A call that is worked on, or on its way, is open.
LEMMA BusyIsOpen ==
    ASSUME ServerInv, NEW c \in Calls, server[c].pc \in Busy
    PROVE  /\ engine[c].pc # "idle" /\ c \notin settled /\ ~Ended(c) /\ c \notin unheard
           /\ engine[c].code \in {"none", "payment_failed"}
<1>1. CallInv(c)
  BY Parts
<1>2. server[c].pc \notin {"none", "answered", "dead"}
  BY DEF Busy, Working, Computing
<1> QED
  BY <1>1, <1>2 DEF CallInv, Paired, Delivered, Named, Ended

\* What a call is to the engine does not change with what others do.
LEMMA OthersRest ==
    ASSUME NEW d, engine'[d] = engine[d], server'[d] = server[d],
           d \in settled' <=> d \in settled, d \in unheard' <=> d \in unheard
    PROVE  /\ engine'[d].pc # "idle" <=> engine[d].pc # "idle"
           /\ (d \in DOMAIN Exchanges /\ d \in DOMAIN Exchanges') =>
                 Exchanges'[d] = Exchanges[d]
<1>1. Ended(d)' <=> Ended(d)
  BY DEF Ended, Priced
<1>2. Heard(d)' = Heard(d)
  BY DEF Heard, Known
<1> QED
  BY <1>1, <1>2, ExchangesAre, ExchangesBecome

\* The steps of the server, for one request, and of the network.
LEMMA ServerStepIs ==
    ASSUME ServerInv, NEW c \in Calls, ServerStep(c)
    PROVE  /\ server[c].pc \in Busy
           /\ engine' = engine
           /\ \A d \in Calls \ {c} : server'[d] = server[d]
           /\ settled' \in {settled, settled \cup {c}}
           /\ unheard' \in {unheard, unheard \cup {c}}
<1>1. server \in [Calls -> Requests]
  BY Parts
<1>2. ASSUME NEW rec, Moves(c, rec)
      PROVE  /\ engine' = engine /\ settled' = settled /\ unheard' = unheard
             /\ \A d \in Calls \ {c} : server'[d] = server[d]
  BY <1>1, <1>2 DEF Moves, ServerTo
<1>3. CASE Settle(c) \/ SettleFails(c)
  <2>1. PICK rec : server' = [server EXCEPT ![c] = rec]
    BY <1>3 DEF Settle, SettleFails, ServerTo
  <2>2. server[c].pc \in Busy /\ engine' = engine
    BY <1>3 DEF Settle, SettleFails, Serving, Busy, Working
  <2>3. settled' \in {settled, settled \cup {c}} /\ unheard' \in {unheard, unheard \cup {c}}
    BY <1>3 DEF Settle, SettleFails, history
  <2> QED
    BY <1>1, <2>1, <2>2, <2>3
<1>4. CASE Unreachable(c)
  <2>1. PICK rec : server' = [server EXCEPT ![c] = rec]
    BY <1>4 DEF Unreachable, ServerTo
  <2>2. /\ server[c].pc \in Busy /\ engine' = engine /\ settled' = settled
        /\ unheard' = unheard
    BY <1>4 DEF Unreachable, Busy, history
  <2> QED
    BY <1>1, <2>1, <2>2
<1>5. CASE CheckToken(c)
  <2>1. server[c].leg \in {1, 2} /\ server[c].pc \in Busy
    BY <1>1, <1>5 DEF Requests, Legs, CheckToken, Serving, Busy
  <2>2. \E rec : Moves(c, rec)
    <3>1. CASE ~TokenHolds(c)
      <4>1. Answer(c, 403, "none", "auth")
        BY <1>5, <3>1 DEF CheckToken
      <4> QED
        BY <4>1 DEF Answer
    <3>2. CASE TokenHolds(c) /\ server[c].leg = 1
      <4>1. Answer(c, 402, "none", "none")
        BY <1>5, <3>2 DEF CheckToken
      <4> QED
        BY <4>1 DEF Answer
    <3>3. CASE TokenHolds(c) /\ server[c].leg = 2
      <4>1. Moves(c, [server[c] EXCEPT !.pc = "verify", !.key = "none", !.exp = 0])
        BY <1>5, <3>3 DEF CheckToken
      <4> QED
        BY <4>1
    <3> QED
      BY <2>1, <3>1, <3>2, <3>3
  <2> QED
    BY <1>2, <2>1, <2>2
<1>6. CASE \/ VerifyPayment(c) \/ MissingName(c) \/ Lookup(c) \/ GetFails(c) \/ Unusable(c)
           \/ Keep(c)
  <2>1. server[c].pc \in Busy
    BY <1>6
    DEF VerifyPayment, MissingName, Lookup, GetFails, Unusable, Keep, Serving, Busy, Working,
        Computing
  <2>2. \E rec : Moves(c, rec)
    BY <1>6
    DEF VerifyPayment, MissingName, Lookup, GetFails, Unusable, Keep, Serve, Fail, Answer
  <2> QED
    BY <1>2, <2>1, <2>2
<1>7. CASE TickerIndex(c) \/ Geocode(c) \/ KeepIndex(c)
  <2>1. server[c].pc \in Busy
    BY <1>7 DEF TickerIndex, Geocode, KeepIndex, Serving, Busy, Working, Computing
  <2>2. \E rec : Moves(c, rec)
    BY <1>7 DEF TickerIndex, Geocode, KeepIndex, Match, Fail, Answer
  <2> QED
    BY <1>2, <2>1, <2>2
<1> QED
  BY <1>3, <1>4, <1>5, <1>6, <1>7 DEF ServerStep

\* Calls that were open end, and what is known of them stays as it was.
LEMMA CallsEnd ==
    ASSUME engine' = engine, NEW busy \in SUBSET Calls,
           \A c \in busy : engine[c].pc # "idle" /\ c \notin settled /\ ~Ended(c),
           \A d \in Calls \ busy : /\ d \in settled' <=> d \in settled
                                   /\ engine[d].pc # "idle" => (Ended(d)' <=> Ended(d)),
           \A d \in Calls : Heard(d)' = Heard(d)
    PROVE  Seen!Next
<1> DEFINE paid == {c \in busy : c \in settled'}
           refused == {c \in busy : c \notin settled' /\ Ended(c)'}
<1>1. DOMAIN Exchanges' = DOMAIN Exchanges /\ busy \subseteq DOMAIN Exchanges
  BY ExchangesAre, ExchangesBecome
<1>2. busy \subseteq Seen!Open
  <2>1. ASSUME NEW c \in busy PROVE Exchanges[c].state = "open"
    <3>1. Exchanges[c] = [state |-> "open", known |-> Heard(c)]
      <4>1. c \in DOMAIN Exchanges /\ c \notin settled /\ ~Ended(c)
        BY <1>1
      <4> QED
        BY <4>1, ExchangesAre
    <3> QED
      BY <3>1
  <2> QED
    BY <1>1, <2>1 DEF Seen!Open
<1>3. ASSUME NEW c \in DOMAIN Exchanges
      PROVE  Exchanges'[c] =
                CASE c \in paid    -> [Exchanges[c] EXCEPT !.state = "settled"]
                  [] c \in refused -> [Exchanges[c] EXCEPT !.state = "refused"]
                  [] OTHER         -> Exchanges[c]
  <2>1. c \in Calls /\ engine[c].pc # "idle"
    BY ExchangesAre
  <2>2. /\ Exchanges[c] = [state |-> IF c \in settled THEN "settled"
                                     ELSE IF Ended(c) THEN "refused" ELSE "open",
                           known |-> Heard(c)]
        /\ Exchanges'[c] = [state |-> IF c \in settled' THEN "settled"
                                      ELSE IF Ended(c)' THEN "refused" ELSE "open",
                            known |-> Heard(c)]
    <3>1. Heard(c)' = Heard(c)
      BY <2>1
    <3> QED
      BY <1>1, <3>1, ExchangesAre, ExchangesBecome
  <2>3. CASE c \in busy
    <3>1. Exchanges[c] = [state |-> "open", known |-> Heard(c)]
      BY <2>2, <2>3
    <3>2. CASE c \in paid
      BY <2>2, <3>1, <3>2
    <3>3. CASE c \in refused
      BY <2>2, <3>1, <3>3
    <3>4. CASE c \notin paid /\ c \notin refused
      BY <2>2, <2>3, <3>1, <3>4
    <3> QED
      BY <3>2, <3>3, <3>4
  <2>4. CASE c \notin busy
    BY <2>1, <2>2, <2>4
  <2> QED
    BY <2>3, <2>4
<1>4. paid \cap refused = {} /\ paid \cup refused \subseteq busy
  OBVIOUS
<1> HIDE DEF paid, refused
<1>5. Exchanges' = [c \in DOMAIN Exchanges |->
                      CASE c \in paid    -> [Exchanges[c] EXCEPT !.state = "settled"]
                        [] c \in refused -> [Exchanges[c] EXCEPT !.state = "refused"]
                        [] OTHER         -> Exchanges[c]]
  <2>1. Exchanges' = [c \in DOMAIN Exchanges' |-> Exchanges'[c]]
    BY DEF Exchanges
  <2> QED
    BY <1>1, <1>3, <2>1
<1>6. Seen!End(paid, refused)
  BY <1>2, <1>4, <1>5 DEF Seen!End
<1>7. paid \in SUBSET DOMAIN Exchanges /\ refused \in SUBSET DOMAIN Exchanges
  BY <1>1, <1>4
<1> QED
  BY <1>6, <1>7 DEF Seen!Next

LEMMA ServerStepEnds ==
    ASSUME ServerInv, NEW c \in Calls, ServerStep(c)
    PROVE  Seen!Next
<1>1. /\ server[c].pc \in Busy /\ engine' = engine
      /\ \A d \in Calls \ {c} : server'[d] = server[d]
      /\ settled' \in {settled, settled \cup {c}}
      /\ unheard' \in {unheard, unheard \cup {c}}
  BY ServerStepIs
<1>2. engine[c].pc # "idle" /\ c \notin settled /\ ~Ended(c)
      /\ engine[c].code \in {"none", "payment_failed"}
  BY <1>1, BusyIsOpen
<1>5. ASSUME NEW d \in Calls PROVE Heard(d)' = Heard(d)
  <2>1. CASE d = c
    BY <1>1, <1>2, <2>1 DEF Heard, Known
  <2>2. CASE d # c
    <3>1. d \in unheard' <=> d \in unheard
      BY <1>1, <2>2
    <3> QED
      BY <1>1, <3>1 DEF Heard, Known
  <2> QED
    BY <2>1, <2>2
<1>3. \A d \in Calls \ {c} : (d \in settled' <=> d \in settled) /\ (Ended(d)' <=> Ended(d))
  BY <1>1 DEF Ended, Priced
<1>4. {c} \in SUBSET Calls
  OBVIOUS
<1> QED
  BY <1>1, <1>2, <1>3, <1>4, <1>5, CallsEnd

\* The server's death ends what it was at, and some of what it had asked to be
\* settled is settled.
LEMMA DeathEnds ==
    ASSUME ServerInv, ServerDies
    PROVE  Seen!Next
<1> DEFINE busy == {c \in Calls : server[c].pc \in Busy}
<1>1. server \in [Calls -> Requests]
  BY TypeMeans DEF ServerInv
<1>2. \A c \in busy : engine[c].pc # "idle" /\ c \notin settled /\ ~Ended(c)
  BY BusyIsOpen
<1>3. ASSUME NEW d \in Calls \ busy
      PROVE  /\ d \in settled' <=> d \in settled
             /\ engine[d].pc # "idle" => (Ended(d)' <=> Ended(d))
  <2>1. server[d].pc \in {"none", "answered", "dead"}
    BY <1>1 DEF Requests, RequestPcs, Busy, Working
  <2>2. d \in settled' <=> d \in settled
    BY <2>1 DEF ServerDies
  <2>3. server'[d] = IF server[d].pc \in {"none", "answered"} THEN server[d]
                     ELSE [NoRequest EXCEPT !.pc = "dead", !.query = server[d].query,
                                            !.product = server[d].product]
    BY DEF ServerDies
  <2>4. CASE server[d].pc \in {"none", "answered"}
    BY <2>2, <2>3, <2>4 DEF Ended, Priced
  <2>5. CASE server[d].pc = "dead"
    <3>1. server'[d].pc = "dead"
      BY <2>3, <2>5 DEF NoRequest
    <3> QED
      BY <2>2, <2>5, <3>1 DEF Ended
  <2> QED
    BY <2>1, <2>4, <2>5
<1>4. busy \in SUBSET Calls /\ engine' = engine
  BY DEF ServerDies
<1>5. \A d \in Calls : Heard(d)' = Heard(d)
  BY DEF ServerDies, Heard, Known, history
<1> HIDE DEF busy
<1> QED
  BY <1>2, <1>3, <1>4, <1>5, CallsEnd

----------------------------------------------------------------------------
LEMMA RequestSends ==
    ASSUME ServerInv, NEW c \in Calls, NEW query \in Queries, Request(c, query)
    PROVE  Seen!Next
<1>1. engine \in [Calls -> EngineCalls] /\ server \in [Calls -> Requests] /\ CallInv(c)
      /\ query \in Query
  BY Parts, ServerAssumption
<1>0. PICK asking, leg : asking = Asking(query) /\ leg = Sent(1, asking)
  OBVIOUS
<1>2. /\ engine[c].pc = "idle" /\ engine' = [engine EXCEPT ![c] = asking]
      /\ server' = [server EXCEPT ![c] = leg] /\ settled' = settled /\ unheard' = unheard
  BY <1>0, RequestIs
<1>3. asking.pc = "asking" /\ asking.code = "none" /\ leg.pc = "transit"
  <2>1. asking \in EngineCalls /\ asking.query = query /\ asking.pc = "asking"
        /\ asking.code = "none"
    BY <1>0, <1>1, AskingIs
  <2> QED
    BY <1>0, <1>1, <2>1, LegSent
<1>4. /\ engine'[c] = asking /\ server'[c] = leg
      /\ \A d \in Calls \ {c} : engine'[d] = engine[d] /\ server'[d] = server[d]
  BY <1>1, <1>2
<1>5. c \notin DOMAIN Exchanges /\ DOMAIN Exchanges' = DOMAIN Exchanges \cup {c}
  BY <1>2, <1>3, <1>4, ExchangesAre, ExchangesBecome
<1>6. Exchanges'[c] = Seen!Sent
  <2>1. c \notin settled' /\ ~Ended(c)'
    BY <1>1, <1>2, <1>3, <1>4 DEF CallInv, Delivered, Ended
  <2>2. Heard(c)' = "nothing"
    BY <1>3, <1>4 DEF Heard, Known
  <2> QED
    BY <1>5, <2>1, <2>2, ExchangesBecome DEF Seen!Sent
<1>7. \A d \in DOMAIN Exchanges : Exchanges'[d] = Exchanges[d]
  BY <1>2, <1>4, <1>5, ExchangesAre, OthersRest
<1>8. Exchanges' = [d \in DOMAIN Exchanges \cup {c} |-> IF d = c THEN Seen!Sent
                                                                 ELSE Exchanges[d]]
  <2>1. Exchanges' = [d \in DOMAIN Exchanges' |-> Exchanges'[d]]
    BY DEF Exchanges
  <2> QED
    BY <1>5, <1>6, <1>7, <2>1
<1>9. Seen!Send(c)
  BY <1>5, <1>8 DEF Seen!Send
<1> QED
  BY <1>5, <1>9 DEF Seen!Next

\* Between the legs nothing has happened to the call.
LEMMA BetweenLegs ==
    ASSUME ServerInv, NEW c \in Calls, GetPaymentRequired(c) \/ Pay(c)
    PROVE  Exchanges' = Exchanges
<1>1. engine \in [Calls -> EngineCalls] /\ server \in [Calls -> Requests] /\ CallInv(c)
  BY Parts
<1>3. PICK rec, req : /\ engine' = [engine EXCEPT ![c] = rec]
                      /\ server' = [server EXCEPT ![c] = req]
                      /\ settled' = settled /\ unheard' = unheard
                      /\ rec.pc # "idle" /\ rec.code = engine[c].code
                      /\ engine[c].pc # "idle"
                      /\ req.pc = "transit" \/ req = server[c]
                      /\ req.pc = "transit" => engine[c].pc = "signing"
  <2>1. CASE GetPaymentRequired(c)
    <3>0. PICK rec : rec = Pricing(c)
      OBVIOUS
    <3>1. /\ engine' = [engine EXCEPT ![c] = rec] /\ rec.pc = "signing"
          /\ rec.code = engine[c].code /\ engine[c].pc = "asking"
          /\ server[c].pc = "answered" /\ UNCHANGED <<server, settled, history>>
      BY <2>1, <3>0, PricedIs
    <3>2. server' = [server EXCEPT ![c] = server[c]] /\ unheard' = unheard
      BY <1>1, <3>1 DEF history
    <3> QED
      BY <3>1, <3>2
  <2>2. CASE Pay(c)
    <3>0. PICK rec, req : rec = Paying(c) /\ req = Sent(2, engine[c])
      OBVIOUS
    <3>1. /\ engine' = [engine EXCEPT ![c] = rec] /\ server' = [server EXCEPT ![c] = req]
          /\ rec.pc = "paying" /\ rec.code = engine[c].code /\ engine[c].pc = "signing"
          /\ UNCHANGED <<settled, unheard>>
      BY <2>2, <3>0, PayIs
    <3>2. engine[c] \in EngineCalls /\ engine[c].query \in Query
      BY <1>1, <3>1 DEF CallInv, Paired
    <3>3. req.pc = "transit"
      BY <3>0, <3>2, LegSent
    <3> QED
      BY <3>1, <3>3
  <2> QED
    BY <2>1, <2>2
<1>4. /\ engine'[c] = rec /\ server'[c] = req
      /\ \A d \in Calls \ {c} : engine'[d] = engine[d] /\ server'[d] = server[d]
  BY <1>1, <1>3
<1>5. DOMAIN Exchanges' = DOMAIN Exchanges
  BY <1>3, <1>4, ExchangesAre, ExchangesBecome
<1>6. c \in settled' <=> c \in settled
  BY <1>3
<1>7. Ended(c)' <=> Ended(c)
  <2>1. CASE req = server[c]
    BY <1>4, <2>1 DEF Ended, Priced
  <2>2. CASE req.pc = "transit"
    <3>1. ~Ended(c)
      BY <1>1, <1>3, <2>2 DEF CallInv, Paired, Ended, Priced
    <3>2. ~Ended(c)'
      BY <1>4, <2>2 DEF Ended
    <3> QED
      BY <3>1, <3>2
  <2> QED
    BY <1>3, <2>1, <2>2
<1>8. \A d \in DOMAIN Exchanges : Exchanges'[d] = Exchanges[d]
  <2> SUFFICES ASSUME NEW d \in DOMAIN Exchanges PROVE Exchanges'[d] = Exchanges[d]
    OBVIOUS
  <2>1. CASE d = c
    <3>1. Heard(d)' = Heard(d)
      BY <1>3, <1>4, <2>1 DEF Heard, Known
    <3>2. d \in settled' <=> d \in settled
      BY <1>6, <2>1
    <3>3. Ended(d)' <=> Ended(d)
      BY <1>7, <2>1 DEF Ended, Priced
    <3>4. /\ Exchanges[d] = [state |-> IF d \in settled THEN "settled"
                                       ELSE IF Ended(d) THEN "refused" ELSE "open",
                             known |-> Heard(d)]
          /\ Exchanges'[d] = [state |-> IF d \in settled' THEN "settled"
                                        ELSE IF Ended(d)' THEN "refused" ELSE "open",
                              known |-> Heard(d)']
      BY <1>5, ExchangesAre, ExchangesBecome
    <3> QED
      BY <3>1, <3>2, <3>3, <3>4
  <2>2. CASE d # c
    <3>1. d \in Calls
      BY ExchangesAre
    <3> QED
      BY <1>3, <1>4, <1>5, <2>2, <3>1, OthersRest
  <2> QED
    BY <2>1, <2>2
<1> QED
  BY <1>5, <1>8, SameExchanges

\* The thread is through with the call: it read the answer, which is true unless the
\* server did not hear of the settlement, or it gave up.
LEMMA EndIsKnown ==
    ASSUME ServerInv, NEW c \in Calls, GetAnswer(c) \/ GiveUp(c)
    PROVE  Seen!Next
<1>1. engine \in [Calls -> EngineCalls] /\ server \in [Calls -> Requests] /\ CallInv(c)
  BY Parts
<1>2. engine[c] \in EngineCalls /\ server[c] \in Requests
  BY <1>1
<1>3. PICK code \in Codes \ {"none"} :
         /\ Done(c, code) /\ server' = server /\ settled' = settled /\ unheard' = unheard
         /\ engine[c].pc \in {"asking", "signing", "paying"}
         /\ \/ code = "payment_failed"
            \/ /\ server[c].pc = "answered" /\ ~Priced(c)
               /\ code = Classify(server[c].status, server[c].code)
  <2>1. CASE GetAnswer(c)
    <3>1. /\ Done(c, Classify(server[c].status, server[c].code))
          /\ server' = server /\ settled' = settled /\ server[c].pc = "answered"
          /\ unheard' = unheard
          /\ \/ engine[c].pc = "paying"
             \/ engine[c].pc = "asking" /\ server[c].status # 402
      BY <2>1 DEF GetAnswer, history
    <3>2. ~Priced(c)
      BY <1>1, <3>1 DEF CallInv, Paired, Priced
    <3>3. Classify(server[c].status, server[c].code) \in Codes \ {"none"}
      <4>1. server[c].status \in Statuses /\ server[c].code \in AnswerCodes
        BY <1>1, <1>2 DEF CallInv, Named, Requests, AnswerCodes
      <4> QED
        BY <4>1, ClassifyIs
    <3> QED
      BY <3>1, <3>2, <3>3
  <2>2. CASE GiveUp(c)
    <3>1. "payment_failed" \in Codes \ {"none"}
      BY DEF Codes
    <3> QED
      BY <2>2, <3>1 DEF GiveUp, history
  <2> QED
    BY <2>1, <2>2
<1>0. PICK done : done = Through(c, code)
  OBVIOUS
<1>4. engine' = [engine EXCEPT ![c] = done]
  BY <1>0, <1>3 DEF Done, EngineTo, Through
<1>5. done.pc = "done" /\ done.code = code
  BY <1>0, ThroughIs
<1>6. engine'[c] = done /\ \A d \in Calls \ {c} : engine'[d] = engine[d]
  BY <1>1, <1>4
<1>7. c \in DOMAIN Exchanges /\ DOMAIN Exchanges' = DOMAIN Exchanges
  BY <1>3, <1>5, <1>6, ExchangesAre, ExchangesBecome
<1>8. engine[c].code = "none" /\ Heard(c) = "nothing"
  BY <1>1, <1>3 DEF CallInv, Paired, Heard, Known
<1>9. Ended(c)' <=> Ended(c)
  BY <1>3 DEF Ended, Priced
<1>20. PICK state, known :
          /\ state = IF c \in settled THEN "settled" ELSE IF Ended(c) THEN "refused" ELSE "open"
          /\ known = IF c \in unheard THEN "lost" ELSE Known(code)
  OBVIOUS
<1>21. Heard(c)' = known
  BY <1>3, <1>5, <1>6, <1>20 DEF Heard, Known
<1>10. /\ Exchanges[c] = [state |-> state, known |-> "nothing"]
       /\ Exchanges'[c] = [state |-> state, known |-> known]
  <2>1. c \in settled' <=> c \in settled
    BY <1>3
  <2> QED
    BY <1>7, <1>8, <1>9, <1>20, <1>21, <2>1, ExchangesAre, ExchangesBecome
<1>11. known = "lost" \/ (state # "open" /\ known = state)
  <2>1. CASE code = "payment_failed" \/ c \in unheard
    BY <1>20, <2>1 DEF Known
  <2>2. CASE server[c].pc = "answered" /\ ~Priced(c) /\ c \notin unheard
             /\ code = Classify(server[c].status, server[c].code)
    <3>1. /\ code \in Codes \ {"none", "payment_failed"}
          /\ code = "approved" <=> server[c].status = 200
      <4>1. server[c].status \in Statuses /\ server[c].code \in AnswerCodes
        BY <1>1, <1>2 DEF CallInv, Named, Requests, AnswerCodes
      <4> QED
        BY <2>2, <4>1, ClassifyIs
    <3>2. server[c].status = 200 <=> c \in settled
      BY <1>1, <2>2 DEF CallInv, Named
    <3>3. Ended(c)
      BY <2>2 DEF Ended
    <3> QED
      BY <1>20, <2>2, <3>1, <3>2, <3>3 DEF Known
  <2> QED
    BY <1>3, <2>1, <2>2
<1>12. \A d \in DOMAIN Exchanges \ {c} : Exchanges'[d] = Exchanges[d]
  BY <1>3, <1>6, <1>7, ExchangesAre, OthersRest
<1>13. Exchanges' = [Exchanges EXCEPT ![c].known = known]
  <2>1. /\ Exchanges = [d \in DOMAIN Exchanges |-> Exchanges[d]]
        /\ Exchanges' = [d \in DOMAIN Exchanges' |-> Exchanges'[d]]
    BY DEF Exchanges
  <2>2. [Exchanges[c] EXCEPT !.known = known] = Exchanges'[c]
    BY <1>10
  <2> QED
    BY <1>7, <1>12, <2>1, <2>2
<1>14. Exchanges[c].state = state /\ Exchanges[c].known = "nothing"
  BY <1>10
<1>15. CASE known = "lost"
  <2>1. \A d \in {c} : Exchanges[d].known = "nothing"
    BY <1>14
  <2>2. Exchanges' = [d \in DOMAIN Exchanges |->
                        IF d \in {c} THEN [Exchanges[d] EXCEPT !.known = "lost"]
                                     ELSE Exchanges[d]]
    BY <1>7, <1>13, <1>15
  <2>3. Seen!Lose({c})
    BY <2>1, <2>2 DEF Seen!Lose
  <2> QED
    BY <1>7, <2>3 DEF Seen!Next
<1>16. CASE state # "open" /\ known = state
  BY <1>7, <1>13, <1>14, <1>16 DEF Seen!Learn, Seen!Next
<1> QED
  BY <1>11, <1>15, <1>16

LEMMA StepExchanges == ServerInv /\ [Next]_vars => [Seen!Next]_Exchanges
<1> SUFFICES ASSUME ServerInv, [Next]_vars PROVE [Seen!Next]_Exchanges
  OBVIOUS
<1>1. CASE UNCHANGED <<engine, server, settled, unheard>>
  BY <1>1 DEF Exchanges, Ended, Priced
<1>2. CASE \/ \E p \in Processes : Start(p) \/ OpenSecret(p) \/ WriteSecret(p) \/ StartFails(p)
           \/ Tick \/ Rest \/ UNCHANGED vars
  BY <1>1, <1>2 DEF Start, OpenSecret, WriteSecret, StartFails, Tick, Rest, vars, history
<1>3. CASE \E c \in Calls : EngineStep(c)
  BY <1>3, RequestSends, BetweenLegs, EndIsKnown DEF EngineStep
<1>4. CASE \E c \in Calls : ServerStep(c)
  BY <1>4, ServerStepEnds
<1>5. CASE ServerDies
  BY <1>5, DeathEnds
<1> QED
  BY <1>2, <1>3, <1>4, <1>5 DEF Next

\* The two legs of a call, its token, the paywall, the upstreams and the server's death
\* are to the engine one exchange, of the kind that SpendEngine sends and receives
\* (_execute_payment, main.py); a settlement that the server did not hear of is one whose
\* answer is lost.
THEOREM ServerImplementsExchange == Spec => KeepsExchange
<1>1. Init => Seen!Init
  <2>1. Init => \A c \in Calls : engine[c].pc = "idle"
    BY RecordsAre DEF Init
  <2> QED
    BY <2>1 DEF Exchanges, Seen!Init
<1> QED
  BY <1>1, StepExchanges, ServerInvariant, PTL DEF Spec, KeepsExchange, Seen!Spec
=============================================================================
