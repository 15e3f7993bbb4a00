----------------------- MODULE RequestIdentityProofs -----------------------
(***************************************************************************)
(* Proofs about RequestIdentity, for any agents, nonces, threads and time  *)
(* to live.                                                                *)
(***************************************************************************)
EXTENDS RequestIdentity, TLAPS

\* What holds whatever the clocks do: a request that has got past its signature is
\* genuine, so only the request itself enters its nonce into the table.
GenuineInv ==
    /\ IdentityTypeOK
    /\ \A t \in Threads : threads[t].pc = "nonce" => threads[t].genuine = TRUE
    /\ \A k \in DOMAIN seen : accepted[k] > 0
    /\ RefusedOnlyIfAccepted

\* A request that is being verified was within its window when the clock was read.
UnderWay ==
    \A t \in Threads : threads[t].pc # "idle" =>
        /\ threads[t].request \in DOMAIN signed
        /\ Fresh(threads[t].now, signed[threads[t].request])

\* A request that was let in is in the table since that moment or later, or the table
\* has been pruned of it.
Remembered(r, moment) ==
    (r \in DOMAIN seen /\ seen[r] >= moment) \/ swept > moment + RequestTTL

\* It was let in once its time had come, or once before, within its window.
LetIn(r) ==
    accepted[r] > 0 /\ r \notin overtaken =>
        /\ r \in DOMAIN signed
        /\ \/ Remembered(r, signed[r])
           \/ /\ r \in early /\ accepted[r] = 1
              /\ Remembered(r, signed[r] - RequestTTL)

IdentityInv ==
    /\ GenuineInv
    /\ UnderWay
    /\ \A r \in Requests : accepted[r] > 0 => r \in DOMAIN signed
    /\ \A r \in Requests : LetIn(r)
    /\ AcceptedOnce
----------------------------------------------------------------------------
\* A thread at rest is a thread.
LEMMA IdleIsThread == Idle \in Thread
<1>1. \E r \in Requests : TRUE
  <2>1. PICK a \in Agents, n \in Nonces : TRUE
    BY IdentityAssumption
  <2> QED
    BY <2>1, <<a, n>> \in Requests DEF Requests
<1>2. (CHOOSE r \in Requests : TRUE) \in Requests
  BY <1>1
<1> QED
  BY <1>2 DEF Idle, Thread

\* A function is one from its domain to any set that holds its values.
LEMMA ExtendTyped ==
    ASSUME NEW f, NEW S, f \in [DOMAIN f -> S], NEW x, NEW y \in S
    PROVE  Extend(f, x, y) \in [DOMAIN Extend(f, x, y) -> S]
  BY DEF Extend
----------------------------------------------------------------------------
\* What is pruned is at least a window older than the thread's clock.
LEMMA PrunedIs ==
    ASSUME NEW now
    PROVE  /\ DOMAIN Pruned(now) = Kept(now) /\ Kept(now) \subseteq DOMAIN seen
           /\ \A k \in Kept(now) : Pruned(now)[k] = seen[k] /\ now - seen[k] <= RequestTTL
           /\ \A k \in DOMAIN seen : k \notin Kept(now) => ~(now - seen[k] <= RequestTTL)
  BY DEF Pruned, Kept
----------------------------------------------------------------------------
(***************************************************************************)
(* Whatever the clocks do.                                                 *)
(***************************************************************************)
LEMMA GenuineInit == Init => GenuineInv
<1> SUFFICES ASSUME Init PROVE GenuineInv
  OBVIOUS
<1>1. IdentityTypeOK
  BY IdleIsThread DEF Init, IdentityTypeOK
<1>2. \A t \in Threads : threads[t].pc = "idle"
  BY DEF Init, Idle
<1> QED
  BY <1>1, <1>2 DEF Init, GenuineInv, RefusedOnlyIfAccepted

LEMMA SignGenuine ==
    ASSUME GenuineInv, NEW request \in Requests, Sign(request)
    PROVE  GenuineInv'
<1> USE IdentityAssumption DEF GenuineInv, IdentityTypeOK
<1>1. PICK timestamp \in clock - Behind .. clock + Ahead :
          signed' = Extend(signed, request, timestamp)
  BY DEF Sign
<1>2. timestamp \in Int
  OBVIOUS
<1>3. UNCHANGED <<clock, seen, threads, accepted, replayed, swept, early, overtaken, restarts>>
  BY DEF Sign, history
<1>4. DOMAIN signed' = DOMAIN signed \cup {request}
  BY <1>1 DEF Extend
<1>5. signed' \in [DOMAIN signed' -> Int]
  BY <1>1, <1>2, ExtendTyped
<1> QED
  BY <1>3, <1>4, <1>5 DEF RefusedOnlyIfAccepted

LEMMA ReceiveGenuine ==
    ASSUME GenuineInv, NEW t \in Threads, NEW request \in Requests,
           NEW genuine \in BOOLEAN, Receive(t, request, genuine)
    PROVE  GenuineInv'
<1> USE DEF GenuineInv, IdentityTypeOK
<1> DEFINE entered == [pc |-> "signature", now |-> clock, request |-> request,
                       genuine |-> genuine]
<1>1. entered \in Thread /\ entered.pc = "signature"
  BY DEF Thread
<1>2. threads' = [threads EXCEPT ![t] = entered]
  BY DEF Receive
<1> HIDE DEF entered
<1>3. UNCHANGED <<clock, signed, seen, accepted, replayed, swept, early, overtaken, restarts>>
  BY DEF Receive, history
<1> QED
  BY <1>1, <1>2, <1>3 DEF RefusedOnlyIfAccepted

\* The only way to the table is past the signature.
LEMMA CheckSignatureGenuine ==
    ASSUME GenuineInv, NEW t \in Threads, CheckSignature(t)
    PROVE  GenuineInv'
<1> USE DEF GenuineInv, IdentityTypeOK
<1> DEFINE checked == [threads[t] EXCEPT !.pc = "nonce"]
<1>1. UNCHANGED <<clock, signed, seen, accepted, replayed, swept, early, overtaken, restarts>>
  BY DEF CheckSignature, history
<1>2. threads[t] \in Thread
  OBVIOUS
<1>3. CASE threads[t].genuine = TRUE
  <2>1. threads' = [threads EXCEPT ![t] = checked]
    BY <1>3 DEF CheckSignature
  <2>2. checked \in Thread /\ checked.genuine = TRUE
    BY <1>2, <1>3 DEF Thread
  <2> HIDE DEF checked
  <2> QED
    BY <1>1, <2>1, <2>2 DEF RefusedOnlyIfAccepted
<1>4. CASE threads[t].genuine # TRUE
  <2>1. threads' = [threads EXCEPT ![t] = Idle]
    BY <1>2, <1>4 DEF CheckSignature, Thread
  <2>2. Idle \in Thread /\ Idle.pc = "idle"
    BY IdleIsThread DEF Idle
  <2> HIDE DEF Idle
  <2> QED
    BY <1>1, <2>1, <2>2 DEF RefusedOnlyIfAccepted
<1> QED
  BY <1>3, <1>4

LEMMA AdmitGenuine ==
    ASSUME GenuineInv, NEW t \in Threads, Admit(t)
    PROVE  GenuineInv'
<1> USE DEF GenuineInv, IdentityTypeOK
<1> DEFINE r == threads[t].request
           now == threads[t].now
           kept == Pruned(now)
<1>1. threads[t] \in Thread /\ threads[t].pc = "nonce"
  BY DEF Admit
<1>2. r \in Requests /\ now \in Nat /\ threads[t].genuine = TRUE
  BY <1>1 DEF Thread
<1>3. /\ seen' = Extend(kept, r, now)
      /\ accepted' = [accepted EXCEPT ![r] = @ + 1]
      /\ threads' = [threads EXCEPT ![t] = Idle]
      /\ UNCHANGED <<clock, signed, replayed, restarts>>
      /\ swept' \in {swept, now} /\ early' \subseteq early \cup {r}
      /\ overtaken' \subseteq overtaken \cup {r}
  BY <1>2 DEF Admit, Key, Later
<1>4. DOMAIN kept \subseteq DOMAIN seen /\ kept \in [DOMAIN kept -> Nat]
  BY DEF Pruned, Kept
<1>5. Idle \in Thread /\ Idle.pc = "idle"
  BY IdleIsThread DEF Idle
<1> HIDE DEF r, now, kept
<1>6. DOMAIN seen' = DOMAIN kept \cup {r} /\ seen' \in [DOMAIN seen' -> Nat]
  <2>1. DOMAIN Extend(kept, r, now) = DOMAIN kept \cup {r}
    BY DEF Extend
  <2> QED
    BY <1>2, <1>3, <1>4, <2>1, ExtendTyped
<1>7. threads' \in [Threads -> Thread] /\ accepted' \in [Requests -> Nat]
  BY <1>2, <1>3, <1>5
<1>8. \A q \in Requests : accepted[q] > 0 \/ q = r => accepted'[q] > 0
  BY <1>2, <1>3
<1>9. RefusedOnlyIfAccepted'
  BY <1>3, <1>8 DEF RefusedOnlyIfAccepted
<1>10. \A k \in DOMAIN seen' : accepted'[k] > 0
  BY <1>2, <1>4, <1>6, <1>8
<1>11. \A u \in Threads : threads'[u].pc = "nonce" => threads'[u].genuine = TRUE
  BY <1>3, <1>5
<1> QED
  BY <1>2, <1>3, <1>4, <1>6, <1>7, <1>9, <1>10, <1>11

LEMMA RefuseGenuine ==
    ASSUME GenuineInv, NEW t \in Threads, Refuse(t)
    PROVE  GenuineInv'
<1> USE DEF GenuineInv, IdentityTypeOK
<1> DEFINE r == threads[t].request
           now == threads[t].now
<1>1. threads[t] \in Thread
  OBVIOUS
<1>2. r \in Requests /\ now \in Nat
  BY <1>1 DEF Thread
<1>3. /\ r \in Kept(now)
      /\ seen' = Pruned(now)
      /\ replayed' = replayed \cup {r}
      /\ threads' = [threads EXCEPT ![t] = Idle]
      /\ UNCHANGED <<clock, signed, accepted, early, overtaken, restarts>>
      /\ swept' \in {swept, now}
  BY DEF Refuse, Key, Later
<1>4. /\ DOMAIN seen' \subseteq DOMAIN seen /\ seen' \in [DOMAIN seen' -> Nat]
      /\ r \in DOMAIN seen
  BY <1>3 DEF Pruned, Kept
<1>5. Idle \in Thread /\ Idle.pc = "idle"
  BY IdleIsThread DEF Idle
<1> HIDE DEF r, now
<1>6. threads' \in [Threads -> Thread]
  BY <1>3, <1>5
<1>7. RefusedOnlyIfAccepted'
  BY <1>3, <1>4 DEF RefusedOnlyIfAccepted
<1>8. \A k \in DOMAIN seen' : accepted'[k] > 0
  BY <1>3, <1>4
<1>9. \A u \in Threads : threads'[u].pc = "nonce" => threads'[u].genuine = TRUE
  BY <1>3, <1>5
<1> QED
  BY <1>2, <1>3, <1>4, <1>6, <1>7, <1>8, <1>9

LEMMA RestartGenuine == GenuineInv /\ Restart => GenuineInv'
<1> SUFFICES ASSUME GenuineInv, Restart PROVE GenuineInv'
  OBVIOUS
<1>1. Idle \in Thread /\ Idle.pc = "idle"
  BY IdleIsThread DEF Idle
<1> QED
  BY <1>1 DEF Restart, GenuineInv, IdentityTypeOK, RefusedOnlyIfAccepted

LEMMA GenuineStep == GenuineInv /\ [Next]_vars => GenuineInv'
<1> SUFFICES ASSUME GenuineInv, [Next]_vars PROVE GenuineInv'
  OBVIOUS
<1>1. CASE \E r \in Requests : Sign(r)
  BY <1>1, SignGenuine
<1>2. CASE \E t \in Threads, r \in Requests, genuine \in BOOLEAN : Receive(t, r, genuine)
  BY <1>2, ReceiveGenuine
<1>3. CASE \E t \in Threads : Verify(t)
  BY <1>3, CheckSignatureGenuine, AdmitGenuine, RefuseGenuine DEF Verify
<1>4. CASE Restart
  BY <1>4, RestartGenuine
<1>5. CASE Tick
  BY <1>5 DEF Tick, history, GenuineInv, IdentityTypeOK, RefusedOnlyIfAccepted
<1>6. CASE Rest \/ UNCHANGED vars
  BY <1>6 DEF Rest, vars, history, GenuineInv, IdentityTypeOK, RefusedOnlyIfAccepted
<1> QED
  BY <1>1, <1>2, <1>3, <1>4, <1>5, <1>6 DEF Next

\* GenuineInv is inductive as it stands.
THEOREM GenuineInvariant == Spec => []GenuineInv
<1>1. GenuineInv /\ [Next]_vars => GenuineInv'
  BY GenuineStep
<1> QED
  BY <1>1, GenuineInit, PTL DEF Spec

\* Every variable of the identity check keeps its type.
THEOREM IdentityTypeCorrect == Spec => []IdentityTypeOK
<1>1. GenuineInv => IdentityTypeOK
  BY DEF GenuineInv
<1> QED
  BY <1>1, GenuineInvariant, PTL

\* What is refused as replayed is a request the process let in before, however far
\* the clocks are apart and however long a thread is held up.
THEOREM OnlyAcceptedRefused == Spec => []RefusedOnlyIfAccepted
<1>1. GenuineInv => RefusedOnlyIfAccepted
  BY DEF GenuineInv
<1> QED
  BY <1>1, GenuineInvariant, PTL
----------------------------------------------------------------------------
(***************************************************************************)
(* How often a request is let in.                                          *)
(***************************************************************************)
LEMMA IdentityInit == Init => IdentityInv
<1> SUFFICES ASSUME Init PROVE IdentityInv
  OBVIOUS
<1>1. UnderWay
  BY Idle.pc = "idle" DEF Init, UnderWay, Idle
<1>2. \A r \in Requests : accepted[r] = 0
  BY DEF Init
<1>3. AcceptedOnce
  BY <1>2 DEF AcceptedOnce
<1>4. \A r \in Requests : LetIn(r)
  BY <1>2 DEF LetIn
<1> QED
  BY <1>1, <1>2, <1>3, <1>4, GenuineInit DEF IdentityInv

\* A step that touches neither the table nor what is said of it has only to leave every
\* request under verification in its window.
LEMMA OthersKeep ==
    ASSUME IdentityInv, GenuineInv', UnderWay', UNCHANGED <<signed, seen, history>>
    PROVE  IdentityInv'
  BY DEF IdentityInv, LetIn, Remembered, AcceptedOnce, history

\* A request is signed once, before it is let in.
LEMMA SignKeeps ==
    ASSUME IdentityInv, GenuineInv', NEW request \in Requests, Sign(request)
    PROVE  IdentityInv'
<1>1. PICK timestamp \in clock - Behind .. clock + Ahead :
          signed' = Extend(signed, request, timestamp)
  BY DEF Sign
<1>2. request \notin DOMAIN signed
  BY DEF Sign
<1>3. UNCHANGED <<seen, threads, accepted, swept, early, overtaken>>
  BY DEF Sign, history
<1>4. /\ DOMAIN signed' = DOMAIN signed \cup {request}
      /\ \A r \in DOMAIN signed : signed'[r] = signed[r]
  <2>1. /\ DOMAIN Extend(signed, request, timestamp) = DOMAIN signed \cup {request}
        /\ \A z \in DOMAIN signed : z # request =>
              Extend(signed, request, timestamp)[z] = signed[z]
    BY DEF Extend
  <2> QED
    BY <1>1, <1>2, <2>1
<1>5. UnderWay'
  BY <1>3, <1>4 DEF IdentityInv, UnderWay, Fresh
<1>6. ASSUME NEW r \in Requests PROVE LetIn(r)'
  BY <1>3, <1>4 DEF IdentityInv, LetIn, Remembered
<1>7. AcceptedOnce' /\ \A r \in Requests : accepted'[r] > 0 => r \in DOMAIN signed'
  BY <1>3, <1>4 DEF IdentityInv, AcceptedOnce
<1> QED
  BY <1>5, <1>6, <1>7 DEF IdentityInv

LEMMA ReceiveKeeps ==
    ASSUME IdentityInv, GenuineInv', NEW t \in Threads, NEW request \in Requests,
           NEW genuine \in BOOLEAN, Receive(t, request, genuine)
    PROVE  IdentityInv'
<1> DEFINE entered == [pc |-> "signature", now |-> clock, request |-> request,
                       genuine |-> genuine]
<1>1. threads \in [Threads -> Thread]
  BY DEF IdentityInv, GenuineInv, IdentityTypeOK
<1>2. threads' = [threads EXCEPT ![t] = entered] /\ request \in DOMAIN signed
      /\ Fresh(clock, signed[request])
  BY DEF Receive
<1>3. UNCHANGED <<signed, seen, history>>
  BY DEF Receive
<1>4. UnderWay'
  BY <1>1, <1>2, <1>3 DEF IdentityInv, UnderWay, Fresh
<1> QED
  BY <1>3, <1>4, OthersKeep

LEMMA CheckSignatureKeeps ==
    ASSUME IdentityInv, GenuineInv', NEW t \in Threads, CheckSignature(t)
    PROVE  IdentityInv'
<1> DEFINE checked == [threads[t] EXCEPT !.pc = "nonce"]
<1>1. UNCHANGED <<signed, seen, history>> /\ threads[t].pc = "signature"
  BY DEF CheckSignature
<1>2. threads \in [Threads -> Thread]
  BY DEF IdentityInv, GenuineInv, IdentityTypeOK
<1>3. \/ threads' = [threads EXCEPT ![t] = checked]
      \/ threads' = [threads EXCEPT ![t] = Idle]
  BY DEF CheckSignature
<1>4. checked.now = threads[t].now /\ checked.request = threads[t].request
  BY <1>2 DEF Thread
<1>5. Idle.pc = "idle"
  BY DEF Idle
<1> HIDE DEF checked
<1>6. UnderWay'
  BY <1>1, <1>2, <1>3, <1>4, <1>5 DEF IdentityInv, UnderWay, Fresh
<1> QED
  BY <1>1, <1>6, OthersKeep

\* What leaves the table as it is pruned is remembered by the clock that pruned it.
LEMMA PruningRemembers ==
    ASSUME IdentityInv, NEW now \in Nat, NEW q \in Requests, NEW moment \in Int,
           Remembered(q, moment), swept' = Later(swept, now),
           \A k \in Kept(now) \cap {q} : k \in DOMAIN seen' /\ seen'[k] = seen[k]
    PROVE  Remembered(q, moment)'
<1>1. swept \in Nat /\ RequestTTL \in Nat /\ \A k \in DOMAIN seen : seen[k] \in Nat
  BY IdentityAssumption DEF IdentityInv, GenuineInv, IdentityTypeOK
<1>2. swept' >= swept /\ swept' >= now /\ swept' \in Nat
  BY <1>1 DEF Later
<1>3. \A k \in DOMAIN seen : k \notin Kept(now) => ~(now - seen[k] <= RequestTTL)
  BY DEF Kept
<1>4. CASE swept > moment + RequestTTL
  BY <1>1, <1>2, <1>4 DEF Remembered
<1>5. CASE q \in DOMAIN seen /\ seen[q] >= moment
  <2>1. CASE q \in Kept(now)
    BY <1>5, <2>1 DEF Remembered
  <2>2. CASE q \notin Kept(now)
    BY <1>1, <1>2, <1>3, <1>5, <2>2 DEF Remembered
  <2> QED
    BY <2>1, <2>2
<1> QED
  BY <1>4, <1>5 DEF Remembered

\* Another request is still remembered.
LEMMA OthersRemembered ==
    ASSUME IdentityInv, NEW now \in Nat, NEW q \in Requests, swept' = Later(swept, now),
           \A k \in Kept(now) \cap {q} : k \in DOMAIN seen' /\ seen'[k] = seen[k],
           accepted'[q] = accepted[q], signed' = signed,
           q \in early' <=> q \in early, q \in overtaken' <=> q \in overtaken
    PROVE  LetIn(q)'
<1> SUFFICES ASSUME accepted[q] > 0, q \notin overtaken
             PROVE  /\ q \in DOMAIN signed
                    /\ \/ Remembered(q, signed[q])'
                       \/ /\ q \in early /\ accepted[q] = 1
                          /\ Remembered(q, signed[q] - RequestTTL)'
  BY DEF LetIn
<1>1. q \in DOMAIN signed /\ signed[q] \in Int /\ signed[q] - RequestTTL \in Int
  BY IdentityAssumption DEF IdentityInv, GenuineInv, IdentityTypeOK
<1>0. PICK moment, before : moment = signed[q] /\ before = signed[q] - RequestTTL
  OBVIOUS
<1>2. moment = signed'[q] /\ before = signed'[q] - RequestTTL
  BY <1>0
<1>3. Remembered(q, moment) => Remembered(q, moment)'
  BY <1>0, <1>1, PruningRemembers
<1>4. Remembered(q, before) => Remembered(q, before)'
  BY <1>0, <1>1, PruningRemembers
<1>5. LetIn(q)
  BY DEF IdentityInv
<1> QED
  BY <1>0, <1>1, <1>2, <1>3, <1>4, <1>5 DEF LetIn, Remembered

\* The request admitted is in its window and not in the table: either it is new, or it
\* was let in before its time, or a thread with a later clock has pruned the table.
LEMMA AdmitKeeps ==
    ASSUME IdentityInv, GenuineInv', NEW t \in Threads, Admit(t)
    PROVE  IdentityInv'
<1>0. PICK r, now, kept : /\ r = threads[t].request /\ now = threads[t].now
                          /\ kept = Pruned(now)
  OBVIOUS
<1>1. /\ threads[t] \in Thread /\ threads \in [Threads -> Thread]
      /\ swept \in Nat /\ RequestTTL \in Nat /\ accepted \in [Requests -> Nat]
      /\ \A k \in DOMAIN seen : seen[k] \in Nat
      /\ \A k \in DOMAIN signed : signed[k] \in Int
  BY IdentityAssumption DEF IdentityInv, GenuineInv, IdentityTypeOK
<1>2. /\ now \in Nat /\ r \in Requests /\ threads[t].genuine = TRUE
      /\ r \in DOMAIN signed /\ signed[r] \in Int
      /\ signed[r] - RequestTTL <= now /\ now <= signed[r] + RequestTTL
  BY <1>0, <1>1 DEF IdentityInv, GenuineInv, UnderWay, Fresh, Admit, Thread
<1>3. /\ r \notin Kept(now)
      /\ seen' = Extend(kept, r, now)
      /\ accepted' = [accepted EXCEPT ![r] = @ + 1]
      /\ threads' = [threads EXCEPT ![t] = Idle]
      /\ swept' = Later(swept, now)
      /\ early' = IF now < signed[r] THEN early \cup {r} ELSE early
      /\ overtaken' = IF now < swept THEN overtaken \cup {r} ELSE overtaken
      /\ signed' = signed
  BY <1>0, <1>2 DEF Admit, Key
<1>4. /\ DOMAIN kept = Kept(now) /\ Kept(now) \subseteq DOMAIN seen
      /\ \A k \in Kept(now) : kept[k] = seen[k]
      /\ \A k \in DOMAIN seen : k \notin Kept(now) => ~(now - seen[k] <= RequestTTL)
  BY <1>0, PrunedIs
<1>5. /\ DOMAIN seen' = Kept(now) \cup {r} /\ seen'[r] = now
      /\ \A k \in Kept(now) : seen'[k] = seen[k]
  <2>1. /\ DOMAIN Extend(kept, r, now) = DOMAIN kept \cup {r}
        /\ Extend(kept, r, now)[r] = now
        /\ \A z \in DOMAIN kept : z # r => Extend(kept, r, now)[z] = kept[z]
    BY DEF Extend
  <2> QED
    BY <1>3, <1>4, <2>1
<1>6. Idle.pc = "idle"
  BY DEF Idle
<1>7. UnderWay'
  BY <1>1, <1>3, <1>6 DEF IdentityInv, UnderWay, Fresh
<1>8. accepted'[r] = accepted[r] + 1 /\ \A q \in Requests \ {r} : accepted'[q] = accepted[q]
  BY <1>1, <1>2, <1>3
<1>9. ASSUME NEW q \in Requests, q # r PROVE LetIn(q)'
  <2>1. (q \in early' <=> q \in early) /\ (q \in overtaken' <=> q \in overtaken)
    BY <1>3, <1>9
  <2>2. \A k \in Kept(now) \cap {q} : k \in DOMAIN seen' /\ seen'[k] = seen[k]
    BY <1>5
  <2> QED
    BY <1>2, <1>3, <1>8, <1>9, <2>1, <2>2, OthersRemembered
<1>10. CASE accepted[r] = 0
  <2>1. LetIn(r)'
    <3>1. CASE now < signed[r]
      BY <1>1, <1>2, <1>3, <1>5, <1>8, <1>10, <3>1 DEF LetIn, Remembered
    <3>2. CASE ~(now < signed[r])
      BY <1>1, <1>2, <1>3, <1>5, <1>8, <3>2 DEF LetIn, Remembered
    <3> QED
      BY <3>1, <3>2
  <2>2. accepted'[r] <= IF r \in early' THEN 2 ELSE 1
    BY <1>8, <1>10
  <2> QED
    BY <2>1, <2>2, <1>2, <1>3, <1>7, <1>8, <1>9 DEF IdentityInv, AcceptedOnce
<1>11. CASE accepted[r] # 0
  <2>1. CASE r \in overtaken'
    <3>1. LetIn(r)'
      BY <2>1 DEF LetIn
    <3> QED
      BY <2>1, <3>1, <1>2, <1>3, <1>7, <1>8, <1>9 DEF IdentityInv, AcceptedOnce
  <2>2. CASE r \notin overtaken'
    <3>1. r \notin overtaken /\ now >= swept /\ accepted[r] > 0
      BY <1>1, <1>2, <1>3, <1>11, <2>2
    <3>2. ~Remembered(r, signed[r])
      BY <1>1, <1>2, <1>3, <1>4, <3>1 DEF Remembered
    <3>3. r \in early /\ accepted[r] = 1 /\ Remembered(r, signed[r] - RequestTTL)
      BY <1>2, <3>1, <3>2 DEF IdentityInv, LetIn
    <3>4. now >= signed[r]
      BY <1>1, <1>2, <1>3, <1>4, <3>1, <3>3 DEF Remembered
    <3>5. LetIn(r)'
      BY <1>2, <1>3, <1>5, <3>4 DEF LetIn, Remembered
    <3>6. accepted'[r] <= IF r \in early' THEN 2 ELSE 1
      BY <1>3, <1>8, <3>3
    <3> QED
      BY <3>5, <3>6, <1>2, <1>3, <1>7, <1>8, <1>9 DEF IdentityInv, AcceptedOnce
  <2> QED
    BY <2>1, <2>2
<1> QED
  BY <1>10, <1>11

LEMMA RefuseKeeps ==
    ASSUME IdentityInv, GenuineInv', NEW t \in Threads, Refuse(t)
    PROVE  IdentityInv'
<1>0. PICK now : now = threads[t].now
  OBVIOUS
<1>1. /\ threads[t] \in Thread /\ threads \in [Threads -> Thread] /\ now \in Nat
  BY <1>0 DEF IdentityInv, GenuineInv, IdentityTypeOK, Thread
<1>2. /\ seen' = Pruned(now) /\ threads' = [threads EXCEPT ![t] = Idle]
      /\ swept' = Later(swept, now) /\ UNCHANGED <<signed, accepted, early, overtaken>>
  BY <1>0 DEF Refuse
<1>3. Idle.pc = "idle"
  BY DEF Idle
<1>4. UnderWay'
  BY <1>1, <1>2, <1>3 DEF IdentityInv, UnderWay, Fresh
<1>5. ASSUME NEW q \in Requests PROVE LetIn(q)'
  <2>1. \A k \in Kept(now) \cap {q} : k \in DOMAIN seen' /\ seen'[k] = seen[k]
    BY <1>2, PrunedIs
  <2> QED
    BY <1>1, <1>2, <2>1, OthersRemembered
<1>6. AcceptedOnce' /\ \A r \in Requests : accepted'[r] > 0 => r \in DOMAIN signed'
  BY <1>2 DEF IdentityInv, AcceptedOnce
<1> QED
  BY <1>4, <1>5, <1>6 DEF IdentityInv

LEMMA RestartKeeps ==
    ASSUME IdentityInv, GenuineInv', Restart
    PROVE  IdentityInv'
<1>1. Idle.pc = "idle"
  BY DEF Idle
<1>2. UnderWay'
  BY <1>1 DEF Restart, UnderWay
<1>3. \A r \in Requests : accepted'[r] = 0
  BY DEF Restart
<1>4. AcceptedOnce' /\ \A r \in Requests : LetIn(r)'
  BY <1>3 DEF AcceptedOnce, LetIn
<1> QED
  BY <1>2, <1>3, <1>4 DEF IdentityInv

LEMMA IdentityStep == IdentityInv /\ [Next]_vars => IdentityInv'
<1> SUFFICES ASSUME IdentityInv, [Next]_vars PROVE IdentityInv'
  OBVIOUS
<1>1. GenuineInv'
  BY GenuineStep DEF IdentityInv
<1>2. CASE \E r \in Requests : Sign(r)
  BY <1>1, <1>2, SignKeeps
<1>3. CASE \E t \in Threads, r \in Requests, genuine \in BOOLEAN : Receive(t, r, genuine)
  BY <1>1, <1>3, ReceiveKeeps
<1>4. CASE \E t \in Threads : Verify(t)
  BY <1>1, <1>4, CheckSignatureKeeps, AdmitKeeps, RefuseKeeps DEF Verify
<1>5. CASE Restart
  BY <1>1, <1>5, RestartKeeps
<1>6. CASE Tick \/ Rest \/ UNCHANGED vars
  <2>1. UNCHANGED <<signed, seen, threads, history>>
    BY <1>6 DEF Tick, Rest, vars
  <2>2. UnderWay'
    BY <2>1 DEF IdentityInv, UnderWay, Fresh
  <2> QED
    BY <1>1, <2>1, <2>2, OthersKeep
<1> QED
  BY <1>2, <1>3, <1>4, <1>5, <1>6 DEF Next

\* And so is IdentityInv.
THEOREM IdentityInvariant == Spec => []IdentityInv
<1> QED
  BY IdentityInit, IdentityStep, PTL DEF Spec

\* A process lets a request in once, however often, and to however many threads at
\* once, it is delivered, and wherever the signer's clock is; twice at most if its time
\* was still to come; but for one that a later clock has overtaken on its way to the lock.
THEOREM RequestAcceptedOnce == Spec => []AcceptedOnce
<1>1. IdentityInv => AcceptedOnce
  BY DEF IdentityInv
<1> QED
  BY <1>1, IdentityInvariant, PTL
=============================================================================
