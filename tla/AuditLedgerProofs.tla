------------------------- MODULE AuditLedgerProofs -------------------------
(***************************************************************************)
(* Proofs about the audit ledger: that its hashes commit to what was       *)
(* written, whatever appends, drills and restores interleave, that         *)
(* verify_chain therefore points at exactly the altered events, and that   *)
(* an alteration can be undone unless its drill overlapped a restore.      *)
(***************************************************************************)
EXTENDS AuditLedger, WellFoundedInduction, TLAPS

\* What a hash after n events commits to, when these are the bodies.
Chain(bodies, n) == [i \in 1 .. n |-> <<i, bodies[i]>>]

LEMMA ChainType ==
    ASSUME NEW bodies \in Seq(Body), NEW n \in 0 .. Len(bodies)
    PROVE  Chain(bodies, n) \in HashSet /\ Len(Chain(bodies, n)) = n
  BY DEF Chain, HashSet

\* Appending an event's own pair to the chain before it gives the chain to it.
LEMMA ChainStep ==
    ASSUME NEW bodies \in Seq(Body), NEW n \in 1 .. Len(bodies)
    PROVE  Hash(n, bodies[n], Chain(bodies, n - 1)) = Chain(bodies, n)
<1>1. Chain(bodies, n - 1) \in HashSet /\ Len(Chain(bodies, n - 1)) = n - 1
  BY ChainType
<1> QED
  BY <1>1 DEF Hash, Chain, HashSet

\* A body appended leaves the chains before it as they were.
LEMMA ChainGrows ==
    ASSUME NEW bodies \in Seq(Body), NEW b \in Body, NEW n \in 0 .. Len(bodies)
    PROVE  Chain(Append(bodies, b), n) = Chain(bodies, n)
  BY DEF Chain

\* No two bodies give one hash.
LEMMA HashTellsBodies ==
    ASSUME NEW s \in Nat, NEW p \in HashSet, NEW b1 \in Body, NEW b2 \in Body,
           Hash(s, b1, p) = Hash(s, b2, p)
    PROVE  b1 = b2
<1>1. Hash(s, b1, p)[Len(p) + 1] = <<s, b1>> /\ Hash(s, b2, p)[Len(p) + 1] = <<s, b2>>
  BY DEF Hash, HashSet
<1> QED
  BY <1>1

LEMMA HashType ==
    ASSUME NEW s \in Nat, NEW p \in HashSet, NEW b \in Body
    PROVE  Hash(s, b, p) \in HashSet
  BY DEF Hash, HashSet

----------------------------------------------------------------------------
(***************************************************************************)
(* Types.                                                                  *)
(***************************************************************************)
LEMMA BodyTypes ==
    /\ NoEvent \in Event /\ Genesis \in HashSet
    /\ \A n \in Nat : [type |-> "change", id |-> n, value |-> 0] \in Body
    /\ \A n \in Nat : [type |-> "anchored", id |-> n, value |-> 0] \in Body
    /\ [type |-> "request", id |-> 0, value |-> 0] \in Body
    /\ \A b \in Body : Doctored(b) \in Body
<1>1. Genesis \in HashSet
  BY DEF Genesis, HashSet
<1>2. \A b \in Body : Doctored(b) \in Body
  BY DEF Doctored, Other, Body
<1>3. [type |-> "request", id |-> 0, value |-> 0] \in Body
  BY DEF Body
<1> QED
  BY <1>1, <1>2, <1>3 DEF NoEvent, Event, Body

LEMMA IdleTypes ==
    /\ IdleWriter \in [pc : {"idle", "read", "insert"}, change : Nat, head : HeadRead]
    /\ IdleDriller \in [pc : {"idle", "tamper", "restore"}, seq : Nat, row : Event,
                        rows : Seq(Backup)]
<1>1. [seq |-> 0, hash |-> Genesis] \in HeadRead
  BY BodyTypes DEF HeadRead
<1>2. << >> \in Seq(Backup)
  OBVIOUS
<1> QED
  BY <1>1, <1>2, BodyTypes DEF IdleWriter, IdleDriller

LEMMA HeadType ==
    ASSUME events \in Seq(Event)
    PROVE  ChainHead \in HeadRead /\ ChainHead.seq = Len(events)
<1>1. CASE events = << >>
  BY <1>1, BodyTypes DEF ChainHead, HeadRead
<1>2. CASE events # << >>
  <2>1. events[Len(events)] \in Event
    BY <1>2
  <2> QED
    BY <1>2, <2>1 DEF ChainHead, HeadRead, Event
<1> QED
  BY <1>1, <1>2

LEMMA LinkType ==
    ASSUME NEW head \in HeadRead, NEW body \in Body
    PROVE  Link(head, body) \in Event
<1>1. head.seq + 1 \in Nat /\ head.hash \in HashSet
  BY DEF HeadRead
<1>2. Hash(head.seq + 1, body, head.hash) \in HashSet
  BY <1>1, HashType
<1> QED
  BY <1>1, <1>2 DEF Link, Event

LEMMA TamperedType ==
    ASSUME NEW seq \in Nat, NEW row \in Event
    PROVE  TamperedEvent(seq, row) \in Event
<1>1. Doctored(row.body) \in Body /\ row.prev \in HashSet /\ row.body \in Body
  BY BodyTypes DEF Event
<1>2. Hash(seq, Doctored(row.body), row.prev) \in HashSet
  BY <1>1, HashType
<1> QED
  BY <1>1, <1>2 DEF TamperedEvent, Event

LEMMA LeastOf ==
    ASSUME NEW S, S \subseteq Nat, S # {}
    PROVE  \E i \in S : \A j \in S : i <= j
<1> DEFINE R == {ss \in Nat \X Nat : ss[1] < ss[2]}
<1>1. IsWellFoundedOn(R, Nat)
  BY NatLessThanWellFounded, Zenon DEF OpToRel
<1>2. \A x, y \in Nat : x < y => <<x, y>> \in R
  OBVIOUS
<1> HIDE DEF R
<1>3. PICK i \in S : \A j \in S : ~(<<j, i>> \in R)
  BY <1>1, WFMin
<1>4. \A j \in S : ~(j < i)
  BY <1>2, <1>3
<1>5. \A j \in S : i <= j
  BY <1>4
<1> QED
  BY <1>5

\* The backup restore leaves an event with is its oldest.
LEMMA OldestBackup ==
    ASSUME NEW rows \in Seq(Backup), NEW seq, BackedUp(rows, seq) # {}
    PROVE  /\ LastApplied(rows, seq) \in BackedUp(rows, seq)
           /\ \A j \in BackedUp(rows, seq) : LastApplied(rows, seq) <= j
<1> DEFINE B == BackedUp(rows, seq)
<1>1. B \subseteq Nat /\ B # {}
  BY DEF BackedUp
<1>2. \E i \in B : \A j \in B : i <= j
  BY <1>1, LeastOf
<1> QED
  BY <1>2, Zenon DEF LastApplied

\* What restore puts back into an event was backed up for that event.
LEMMA LastAppliedIn ==
    ASSUME NEW rows \in Seq(Backup), NEW seq, BackedUp(rows, seq) # {}
    PROVE  LastApplied(rows, seq) \in DOMAIN rows /\ rows[LastApplied(rows, seq)].seq = seq
<1>1. LastApplied(rows, seq) \in BackedUp(rows, seq)
  BY OldestBackup
<1> QED
  BY <1>1 DEF BackedUp

LEMMA RestoredType ==
    ASSUME NEW rows \in Seq(Backup), NEW seq \in DOMAIN events, events \in Seq(Event)
    PROVE  RestoredEvent(rows, seq) \in Event
<1>1. events[seq] \in Event
  OBVIOUS
<1>2. CASE BackedUp(rows, seq) = {}
  BY <1>1, <1>2 DEF RestoredEvent
<1>3. CASE BackedUp(rows, seq) # {}
  <2> DEFINE b == rows[LastApplied(rows, seq)]
  <2>1. b \in Backup
    BY <1>3, LastAppliedIn
  <2>2. b.body \in Body /\ b.hash \in HashSet
    BY <2>1 DEF Backup
  <2>3. RestoredEvent(rows, seq) = [events[seq] EXCEPT !.body = b.body, !.hash = b.hash]
    BY <1>3 DEF RestoredEvent
  <2> HIDE DEF b
  <2> QED
    BY <1>1, <2>2, <2>3 DEF Event
<1> QED
  BY <1>2, <1>3

----------------------------------------------------------------------------
(***************************************************************************)
(* The invariant.  While no last event has been edited, an event's link is *)
(* the history before it as it was written, its hash fits its body, and    *)
(* what threads have read and what was backed up fits too.  The newest     *)
(* event is unaltered, so whatever is appended commits to the history.     *)
(***************************************************************************)
Fits(bodies, seq, e) ==
    /\ e.prev = Chain(bodies, seq - 1)
    /\ e.hash = Hash(seq, e.body, e.prev)

BackupFits(bodies, len, b) ==
    /\ b.seq \in 1 .. len - 1
    /\ b.hash = Hash(b.seq, b.body, Chain(bodies, b.seq - 1))

Shape ==
    /\ Len(events) = Len(written)
    /\ \A w \in Writers : writers[w].head.seq <= Len(events)
    /\ \A d \in Drillers : drillers[d].pc = "tamper" => drillers[d].seq \in DOMAIN events

EventsFit == \A s \in DOMAIN events : Fits(written, s, events[s])

NewestAsWritten == events # << >> => events[Len(events)].body = written[Len(events)]

ReadsFit ==
    /\ \A w \in Writers : writers[w].head.hash = Chain(written, writers[w].head.seq)
    /\ \A d \in Drillers :
          drillers[d].pc = "tamper" => Fits(written, drillers[d].seq, drillers[d].row)

BackupsFit ==
    /\ \A i \in DOMAIN backups : BackupFits(written, Len(events), backups[i])
    /\ \A d \in Drillers : \A i \in DOMAIN drillers[d].rows :
          BackupFits(written, Len(events), drillers[d].rows[i])

Sound == EventsFit /\ NewestAsWritten /\ ReadsFit /\ BackupsFit

LedgerInv == LedgerTypeOK /\ Shape /\ (~headEdited => Sound)

\* The head's hash commits to the history.
LEMMA HeadIsHistory ==
    ASSUME LedgerInv, ~headEdited
    PROVE  ChainHead.hash = Chain(written, Len(events))
<1>1. CASE events = << >>
  <2>1. Chain(written, 0) = << >>
    BY DEF Chain
  <2> QED
    BY <1>1, <2>1 DEF ChainHead, Genesis
<1>2. CASE events # << >>
  <2> DEFINE n == Len(events)
  <2>1. n \in 1 .. Len(written) /\ written \in Seq(Body) /\ n \in DOMAIN events
    BY <1>2 DEF LedgerInv, LedgerTypeOK, Shape
  <2>2. events[n].hash = Hash(n, written[n], Chain(written, n - 1))
    BY <1>2, <2>1 DEF LedgerInv, Sound, EventsFit, NewestAsWritten, Fits
  <2>3. Hash(n, written[n], Chain(written, n - 1)) = Chain(written, n)
    BY <2>1, ChainStep
  <2> QED
    BY <1>2, <2>2, <2>3 DEF ChainHead
<1> QED
  BY <1>1, <1>2

LEMMA InitHolds == LedgerInit => LedgerInv
<1> SUFFICES ASSUME LedgerInit PROVE LedgerInv
  OBVIOUS
<1>1. /\ events = << >> /\ written = << >> /\ backups = << >>
      /\ headEdited = FALSE /\ crossed = {}
  BY DEF LedgerInit
<1>2. LedgerTypeOK
  <2>1. writers \in [Writers -> [pc : {"idle", "read", "insert"}, change : Nat,
                                 head : HeadRead]]
    BY IdleTypes DEF LedgerInit
  <2>2. drillers \in [Drillers -> [pc : {"idle", "tamper", "restore"}, seq : Nat,
                                   row : Event, rows : Seq(Backup)]]
    BY IdleTypes DEF LedgerInit
  <2>3. events \in Seq(Event) /\ written \in Seq(Body) /\ backups \in Seq(Backup)
    BY <1>1
  <2>4. spent \in [changes : Nat, drills : Nat, crashes : Nat]
    BY DEF LedgerInit
  <2> QED
    BY <1>1, <2>1, <2>2, <2>3, <2>4 DEF LedgerTypeOK
<1>3. Shape
  BY <1>1 DEF LedgerInit, Shape, IdleWriter, IdleDriller
<1>4. Chain(written, 0) = Genesis
  BY DEF Chain, Genesis
<1>5. Sound
  BY <1>1, <1>4 DEF LedgerInit, Sound, EventsFit, NewestAsWritten, ReadsFit, BackupsFit,
       IdleWriter, IdleDriller
<1> QED
  BY <1>2, <1>3, <1>5 DEF LedgerInv

----------------------------------------------------------------------------
(***************************************************************************)
(* Appending.  Fits and BackupFits survive, because the history before an  *)
(* event does not change when one is added after it.                       *)
(***************************************************************************)
LEMMA FitsGrows ==
    ASSUME NEW bodies \in Seq(Body), NEW b \in Body, NEW seq \in 1 .. Len(bodies), NEW e,
           Fits(bodies, seq, e)
    PROVE  Fits(Append(bodies, b), seq, e)
<1>1. Chain(Append(bodies, b), seq - 1) = Chain(bodies, seq - 1)
  BY ChainGrows
<1> QED
  BY <1>1 DEF Fits

LEMMA BackupFitsGrows ==
    ASSUME NEW bodies \in Seq(Body), NEW b \in Body, NEW bk \in Backup,
           BackupFits(bodies, Len(bodies), bk)
    PROVE  BackupFits(Append(bodies, b), Len(bodies) + 1, bk)
<1>1. bk.seq \in 1 .. Len(bodies) - 1
  BY DEF BackupFits
<1>2. Chain(Append(bodies, b), bk.seq - 1) = Chain(bodies, bk.seq - 1)
  BY <1>1, ChainGrows
<1> QED
  BY <1>1, <1>2 DEF BackupFits

\* A writer or an anchor appends to a head that is still the head; the drill's
\* side stays as it is, and a writer either keeps its read or is done.
LEMMA AddKeeps ==
    ASSUME LedgerInv, NEW head \in HeadRead, NEW body \in Body, Add(head, body),
           head.seq = Len(events),
           ~headEdited => head.hash = Chain(written, Len(events)),
           LedgerTypeOK', UNCHANGED <<backups, drillers, headEdited, crossed>>,
           \A w \in Writers : writers'[w].head \in {writers[w].head, IdleWriter.head}
    PROVE  LedgerInv'
<1> DEFINE n == Len(events)
<1>1. /\ events \in Seq(Event) /\ written \in Seq(Body) /\ n = Len(written) /\ n \in Nat
      /\ events' = Append(events, Link(head, body)) /\ written' = Append(written, body)
  BY DEF LedgerInv, LedgerTypeOK, Shape, Add
<1>2. Len(events') = n + 1 /\ Len(written') = n + 1
  BY <1>1, LinkType
<1>3. \A s \in 1 .. n : events'[s] = events[s] /\ written'[s] = written[s]
  BY <1>1, LinkType
<1>4. events'[n + 1] = Link(head, body) /\ written'[n + 1] = body
  BY <1>1, LinkType
<1>5. \A w \in Writers : writers[w].head \in HeadRead
  BY DEF LedgerInv, LedgerTypeOK
<1>6. Shape'
  <2>1. \A w \in Writers : writers'[w].head.seq <= n + 1
    <3> SUFFICES ASSUME NEW w \in Writers PROVE writers'[w].head.seq <= n + 1
      OBVIOUS
    <3>1. writers[w].head.seq \in Nat /\ writers[w].head.seq <= n
      BY <1>5 DEF LedgerInv, Shape, HeadRead
    <3> QED
      BY <1>1, <3>1 DEF IdleWriter
  <2> QED
    BY <1>1, <1>2, <2>1 DEF LedgerInv, Shape
<1>7. ASSUME ~headEdited PROVE Sound'
  <2>1. Sound /\ head.hash = Chain(written, n)
    BY <1>7 DEF LedgerInv
  <2>2. EventsFit'
    <3> SUFFICES ASSUME NEW s \in DOMAIN events' PROVE Fits(written', s, events'[s])
      BY DEF EventsFit
    <3>1. s \in 1 .. n + 1
      BY <1>1, <1>2, LinkType
    <3>2. CASE s \in 1 .. n
      <4>1. Fits(written, s, events[s])
        BY <1>1, <2>1, <3>2 DEF Sound, EventsFit
      <4> QED
        BY <1>1, <1>3, <3>2, <4>1, FitsGrows
    <3>3. CASE s = n + 1
      <4>1. Chain(written', n) = Chain(written, n)
        BY <1>1, ChainGrows
      <4> QED
        BY <1>1, <1>4, <2>1, <3>3, <4>1 DEF Fits, Link
    <3> QED
      BY <1>1, <3>1, <3>2, <3>3
  <2>3. NewestAsWritten'
    BY <1>2, <1>4 DEF NewestAsWritten, Link
  <2>4. ReadsFit'
    <3>1. \A w \in Writers : writers'[w].head.hash = Chain(written', writers'[w].head.seq)
      <4> SUFFICES ASSUME NEW w \in Writers
                   PROVE  writers'[w].head.hash = Chain(written', writers'[w].head.seq)
        OBVIOUS
      <4>1. CASE writers'[w].head = writers[w].head
        <5>1. writers[w].head.seq \in 0 .. n
          BY <1>1, <1>5 DEF LedgerInv, Shape, HeadRead
        <5>2. Chain(written', writers[w].head.seq) = Chain(written, writers[w].head.seq)
          BY <1>1, <5>1, ChainGrows
        <5> QED
          BY <2>1, <4>1, <5>2 DEF Sound, ReadsFit
      <4>2. CASE writers'[w].head = IdleWriter.head
        <5>1. Chain(written', 0) = << >>
          BY DEF Chain
        <5> QED
          BY <4>2, <5>1 DEF IdleWriter, Genesis
      <4> QED
        BY <4>1, <4>2
    <3>2. ASSUME NEW d \in Drillers, drillers[d].pc = "tamper"
          PROVE  Fits(written', drillers[d].seq, drillers[d].row)
      <4>1. drillers[d].seq \in 1 .. n
        BY <1>1, <3>2 DEF LedgerInv, Shape
      <4> QED
        BY <1>1, <2>1, <3>2, <4>1, FitsGrows DEF Sound, ReadsFit
    <3> QED
      BY <3>1, <3>2 DEF ReadsFit
  <2>5. BackupsFit'
    <3>1. \A i \in DOMAIN backups : BackupFits(written', n + 1, backups[i])
      <4> TAKE i \in DOMAIN backups
      <4>1. backups[i] \in Backup /\ BackupFits(written, n, backups[i])
        BY <2>1 DEF LedgerInv, LedgerTypeOK, Sound, BackupsFit
      <4> QED
        BY <1>1, <4>1, BackupFitsGrows
    <3>2. \A d \in Drillers : \A i \in DOMAIN drillers[d].rows :
             BackupFits(written', n + 1, drillers[d].rows[i])
      <4> TAKE d \in Drillers
      <4> TAKE i \in DOMAIN drillers[d].rows
      <4>1. drillers[d].rows \in Seq(Backup)
        BY DEF LedgerInv, LedgerTypeOK
      <4>2. drillers[d].rows[i] \in Backup /\ BackupFits(written, n, drillers[d].rows[i])
        BY <2>1, <4>1 DEF Sound, BackupsFit
      <4> QED
        BY <1>1, <4>2, BackupFitsGrows
    <3> QED
      BY <1>2, <3>1, <3>2 DEF BackupsFit
  <2> QED
    BY <2>2, <2>3, <2>4, <2>5 DEF Sound
<1> QED
  BY <1>6, <1>7 DEF LedgerInv

----------------------------------------------------------------------------
(***************************************************************************)
(* The actions.                                                            *)
(***************************************************************************)
\* The types of what an appended event leaves behind.
LEMMA AddTypes ==
    ASSUME LedgerTypeOK, NEW head \in HeadRead, NEW body \in Body, Add(head, body)
    PROVE  events' \in Seq(Event) /\ written' \in Seq(Body)
<1>1. Link(head, body) \in Event
  BY LinkType
<1> QED
  BY <1>1 DEF Add, LedgerTypeOK

LEMMA WriterType ==
    ASSUME LedgerTypeOK, NEW w \in Writers
    PROVE  /\ writers[w].pc \in {"idle", "read", "insert"}
           /\ writers[w].change \in Nat
           /\ writers[w].head \in HeadRead
  BY DEF LedgerTypeOK

LEMMA DrillerType ==
    ASSUME LedgerTypeOK, NEW d \in Drillers
    PROVE  /\ drillers[d].pc \in {"idle", "tamper", "restore"}
           /\ drillers[d].seq \in Nat /\ drillers[d].row \in Event
           /\ drillers[d].rows \in Seq(Backup)
  BY DEF LedgerTypeOK

\* Any transaction that appends to the head as it is: the request log's events,
\* and the event of record_anchor.
LEMMA LockedKeeps ==
    ASSUME LedgerInv, NEW body \in Body, AppendLocked(body),
           UNCHANGED <<backups, writers, drillers, headEdited, crossed, spent>>
    PROVE  LedgerInv'
<1>1. ChainHead \in HeadRead /\ ChainHead.seq = Len(events)
  BY HeadType DEF LedgerInv, LedgerTypeOK
<1>2. Add(ChainHead, body)
  BY DEF AppendLocked
<1>3. ~headEdited => ChainHead.hash = Chain(written, Len(events))
  BY HeadIsHistory
<1>4. LedgerTypeOK'
  BY <1>1, <1>2, AddTypes DEF LedgerInv, LedgerTypeOK
<1>5. \A w \in Writers : writers'[w].head = writers[w].head
  OBVIOUS
<1> QED
  BY <1>1, <1>2, <1>3, <1>4, <1>5, AddKeeps

LEMMA RecordRequestKeeps == LedgerInv /\ RecordRequest => LedgerInv'
<1> SUFFICES ASSUME LedgerInv, RecordRequest PROVE LedgerInv'
  OBVIOUS
<1> QED
  BY BodyTypes, LockedKeeps DEF RecordRequest

\* A step that only moves writers, whose reads of the head fit.
LEMMA WritersMove ==
    ASSUME LedgerInv, LedgerTypeOK', UNCHANGED <<events, written, backups, drillers, headEdited, crossed>>,
           \A w \in Writers : /\ writers'[w].head.seq <= Len(events)
                              /\ ~headEdited => writers'[w].head.hash
                                                   = Chain(written, writers'[w].head.seq)
    PROVE  LedgerInv'
<1>1. Shape'
  BY DEF LedgerInv, Shape
<1>2. ASSUME ~headEdited PROVE Sound'
  <2>1. Sound
    BY <1>2 DEF LedgerInv
  <2>2. ReadsFit'
    BY <1>2, <2>1 DEF Sound, ReadsFit
  <2> QED
    BY <2>1, <2>2 DEF Sound, EventsFit, NewestAsWritten, BackupsFit
<1> QED
  BY <1>1, <1>2 DEF LedgerInv

\* A writer that is idle holds the empty read, which fits any history.
LEMMA IdleReadFits ==
    /\ IdleWriter.head.seq = 0
    /\ IdleWriter.head.hash = Chain(written, 0)
<1>1. Chain(written, 0) = << >>
  BY DEF Chain
<1> QED
  BY <1>1 DEF IdleWriter, Genesis

LEMMA ReadsOld ==
    ASSUME LedgerInv, NEW w \in Writers
    PROVE  /\ writers[w].head.seq <= Len(events)
           /\ ~headEdited => writers[w].head.hash = Chain(written, writers[w].head.seq)
  BY DEF LedgerInv, Shape, Sound, ReadsFit

LEMMA WriteKeeps ==
    ASSUME LedgerInv, NEW w \in Writers, Write(w)
    PROVE  LedgerInv'
<1> USE DEF LedgerInv
<1>0. /\ writers \in [Writers -> [pc : {"idle", "read", "insert"}, change : Nat,
                                  head : HeadRead]]
      /\ events \in Seq(Event) /\ Len(events) \in Nat
      /\ spent \in [changes : Nat, drills : Nat, crashes : Nat]
  BY DEF LedgerTypeOK
<1>1. CASE MakeChange(w)
  <2>1. writers' = [writers EXCEPT ![w].pc = "read", ![w].change = spent.changes + 1]
    BY <1>1 DEF MakeChange
  <2>2. spent' \in [changes : Nat, drills : Nat, crashes : Nat]
    BY <1>0, <1>1 DEF MakeChange, Spend1
  <2> DEFINE n == spent.changes + 1
  <2>a. n \in Nat
    BY <1>0
  <2> HIDE DEF n
  <2>3. writers' \in [Writers -> [pc : {"idle", "read", "insert"}, change : Nat,
                                  head : HeadRead]]
    BY <1>0, <2>1, <2>a DEF n
  <2>4. LedgerTypeOK'
    BY <1>1, <2>2, <2>3 DEF MakeChange, LedgerTypeOK
  <2>5. \A v \in Writers : writers'[v].head = writers[v].head
    BY <1>0, <2>1
  <2> QED
    BY <1>1, <2>4, <2>5, ReadsOld, WritersMove DEF MakeChange
<1>2. CASE ReadHead(w)
  <2> DEFINE hd == ChainHead
  <2>1. hd \in HeadRead /\ hd.seq = Len(events)
    BY <1>0, HeadType
  <2>2. ~headEdited => hd.hash = Chain(written, Len(events))
    BY HeadIsHistory
  <2>3. writers' = [writers EXCEPT ![w].pc = "insert", ![w].head = hd]
    BY <1>2 DEF ReadHead
  <2> HIDE DEF hd
  <2>4. writers' \in [Writers -> [pc : {"idle", "read", "insert"}, change : Nat,
                                  head : HeadRead]]
    BY <1>0, <2>1, <2>3
  <2>5. LedgerTypeOK'
    BY <1>2, <2>4 DEF ReadHead, LedgerTypeOK
  <2>6. \A v \in Writers : writers'[v].head = IF v = w THEN hd ELSE writers[v].head
    BY <1>0, <2>3
  <2>7. \A v \in Writers :
           /\ writers'[v].head.seq <= Len(events)
           /\ ~headEdited => writers'[v].head.hash = Chain(written, writers'[v].head.seq)
    BY <1>0, <2>1, <2>2, <2>6, ReadsOld
  <2> QED
    BY <1>2, <2>5, <2>7, WritersMove DEF ReadHead
<1>3. CASE InsertEvent(w)
  <2>1. writers[w].head \in HeadRead /\ writers[w].head.seq = Len(events)
    BY <1>3, WriterType DEF InsertEvent
  <2>2. ChangeBody(w) \in Body /\ Add(writers[w].head, ChangeBody(w))
    BY <1>3, WriterType, BodyTypes DEF InsertEvent, ChangeBody
  <2>3. ~headEdited => writers[w].head.hash = Chain(written, Len(events))
    BY <2>1, ReadsOld
  <2>4. \A v \in Writers : writers'[v] = IF v = w THEN IdleWriter ELSE writers[v]
    BY <1>0, <1>3 DEF InsertEvent
  <2>5. writers' \in [Writers -> [pc : {"idle", "read", "insert"}, change : Nat,
                                  head : HeadRead]]
    BY <1>0, <1>3, IdleTypes DEF InsertEvent
  <2>6. events' \in Seq(Event) /\ written' \in Seq(Body)
    BY <2>1, <2>2, AddTypes
  <2>7. LedgerTypeOK'
    BY <1>3, <2>5, <2>6 DEF InsertEvent, LedgerTypeOK
  <2>8. UNCHANGED <<backups, drillers, headEdited, crossed>>
    BY <1>3 DEF InsertEvent
  <2>9. \A v \in Writers : writers'[v].head \in {writers[v].head, IdleWriter.head}
    BY <2>4
  <2> HIDE DEF LedgerInv
  <2> QED
    BY <2>1, <2>2, <2>3, <2>7, <2>8, <2>9, AddKeeps
<1>4. CASE InsertFails(w)
  <2>1. writers' = [writers EXCEPT ![w] = IdleWriter]
    BY <1>4 DEF InsertFails
  <2>2. writers' \in [Writers -> [pc : {"idle", "read", "insert"}, change : Nat,
                                  head : HeadRead]]
    BY <1>0, <2>1, IdleTypes
  <2>3. LedgerTypeOK'
    BY <1>4, <2>2 DEF InsertFails, LedgerTypeOK
  <2>4. \A v \in Writers : writers'[v].head = IF v = w THEN IdleWriter.head ELSE writers[v].head
    BY <1>0, <2>1
  <2>5. \A v \in Writers :
           /\ writers'[v].head.seq <= Len(events)
           /\ ~headEdited => writers'[v].head.hash = Chain(written, writers'[v].head.seq)
    BY <1>0, <2>4, ReadsOld, IdleReadFits
  <2> QED
    BY <1>4, <2>3, <2>5, WritersMove DEF InsertFails
<1> QED
  BY <1>1, <1>2, <1>3, <1>4 DEF Write

\* A step that moves drillers and may replace events in place: what fits still
\* fits, the newest event is as it was written, and so are backups and reads.
LEMMA DrillersMove ==
    ASSUME LedgerInv, LedgerTypeOK', UNCHANGED <<written, writers>>,
           Len(events') = Len(events), headEdited => headEdited',
           \A d \in Drillers : drillers'[d].pc = "tamper" => drillers'[d].seq \in DOMAIN events,
           ~headEdited' =>
              /\ \A s \in DOMAIN events : Fits(written, s, events'[s])
              /\ events # << >> => events'[Len(events)].body = written[Len(events)]
              /\ \A d \in Drillers :
                    drillers'[d].pc = "tamper" => Fits(written, drillers'[d].seq, drillers'[d].row)
              /\ \A i \in DOMAIN backups' : BackupFits(written, Len(events), backups'[i])
              /\ \A d \in Drillers : \A i \in DOMAIN drillers'[d].rows :
                    BackupFits(written, Len(events), drillers'[d].rows[i])
    PROVE  LedgerInv'
<1>1. DOMAIN events' = DOMAIN events /\ (events' = << >> <=> events = << >>)
  BY DEF LedgerInv, LedgerTypeOK
<1>2. Shape'
  BY <1>1 DEF LedgerInv, Shape
<1>3. ASSUME ~headEdited' PROVE Sound'
  <2>1. Sound
    BY <1>3 DEF LedgerInv
  <2>2. EventsFit' /\ NewestAsWritten'
    BY <1>1, <1>3 DEF EventsFit, NewestAsWritten
  <2>3. ReadsFit'
    BY <1>3, <2>1 DEF Sound, ReadsFit
  <2>4. BackupsFit'
    BY <1>3 DEF BackupsFit
  <2> QED
    BY <2>2, <2>3, <2>4 DEF Sound
<1> QED
  BY <1>2, <1>3 DEF LedgerInv

DrillerSet == [pc : {"idle", "tamper", "restore"}, seq : Nat, row : Event, rows : Seq(Backup)]

\* A driller that is done, or crashed, holds nothing.
LEMMA IdleDrillerHolds ==
    /\ IdleDriller.pc = "idle" /\ DOMAIN IdleDriller.rows = {}
  BY DEF IdleDriller

\* The rows restore goes back to fit their events, before and after.
LEMMA RestoredFits ==
    ASSUME NEW rows \in Seq(Backup), NEW seq \in DOMAIN events, events \in Seq(Event),
           Fits(written, seq, events[seq]),
           \A i \in DOMAIN rows : BackupFits(written, Len(events), rows[i])
    PROVE  /\ Fits(written, seq, RestoredEvent(rows, seq))
           /\ seq = Len(events) => RestoredEvent(rows, seq) = events[seq]
<1>1. CASE BackedUp(rows, seq) = {}
  BY <1>1 DEF RestoredEvent
<1>2. CASE BackedUp(rows, seq) # {}
  <2> DEFINE i == LastApplied(rows, seq)
             b == rows[i]
  <2>1. i \in DOMAIN rows /\ b.seq = seq
    BY <1>2, LastAppliedIn
  <2>2. BackupFits(written, Len(events), b)
    BY <2>1
  <2>3. events[seq] \in Event /\ b \in Backup
    BY <2>1
  <2>4. RestoredEvent(rows, seq) = [events[seq] EXCEPT !.body = b.body, !.hash = b.hash]
    BY <1>2 DEF RestoredEvent
  <2>5. seq # Len(events)
    BY <2>1, <2>2 DEF BackupFits
  <2> HIDE DEF b, i
  <2>6. /\ RestoredEvent(rows, seq).prev = events[seq].prev
        /\ RestoredEvent(rows, seq).body = b.body /\ RestoredEvent(rows, seq).hash = b.hash
    BY <2>3, <2>4 DEF Event
  <2> QED
    BY <2>1, <2>2, <2>5, <2>6 DEF Fits, BackupFits
<1> QED
  BY <1>1, <1>2

LEMMA PickKeeps ==
    ASSUME LedgerInv, NEW d \in Drillers, NEW seq \in DOMAIN events, PickEvent(d, seq)
    PROVE  LedgerInv'
<1>0. /\ drillers \in [Drillers -> DrillerSet] /\ events \in Seq(Event)
      /\ events[seq] \in Event /\ seq \in Nat
      /\ spent \in [changes : Nat, drills : Nat, crashes : Nat]
  BY DEF LedgerInv, LedgerTypeOK, DrillerSet
<1> DEFINE row == events[seq]
<1>1. drillers' = [drillers EXCEPT ![d].pc = "tamper", ![d].seq = seq, ![d].row = row]
  BY DEF PickEvent
<1> HIDE DEF row
<1>2. drillers' \in [Drillers -> DrillerSet]
  BY <1>0, <1>1 DEF DrillerSet, row
<1>3. spent' \in [changes : Nat, drills : Nat, crashes : Nat]
  BY <1>0 DEF PickEvent, Spend1
<1>4. LedgerTypeOK'
  BY <1>2, <1>3 DEF PickEvent, LedgerInv, LedgerTypeOK, DrillerSet
<1>5. \A e \in Drillers :
         /\ drillers'[e].rows = drillers[e].rows
         /\ e # d => drillers'[e] = drillers[e]
         /\ e = d => drillers'[e].seq = seq /\ drillers'[e].row = row
  BY <1>0, <1>1 DEF DrillerSet
<1>6. ASSUME ~headEdited
      PROVE  /\ \A s \in DOMAIN events : Fits(written, s, events[s])
             /\ events # << >> => events[Len(events)].body = written[Len(events)]
             /\ \A e \in Drillers :
                   drillers'[e].pc = "tamper" => Fits(written, drillers'[e].seq, drillers'[e].row)
             /\ \A i \in DOMAIN backups : BackupFits(written, Len(events), backups[i])
             /\ \A e \in Drillers : \A i \in DOMAIN drillers'[e].rows :
                   BackupFits(written, Len(events), drillers'[e].rows[i])
  <2>1. Sound
    BY <1>6 DEF LedgerInv
  <2>2. Fits(written, seq, row)
    BY <2>1 DEF Sound, EventsFit, row
  <2> QED
    BY <1>5, <2>1, <2>2 DEF Sound, EventsFit, NewestAsWritten, ReadsFit, BackupsFit
<1>7. \A e \in Drillers : drillers'[e].pc = "tamper" => drillers'[e].seq \in DOMAIN events
  BY <1>5 DEF LedgerInv, Shape
<1> QED
  BY <1>4, <1>6, <1>7, DrillersMove DEF PickEvent

LEMMA TamperKeeps ==
    ASSUME LedgerInv, NEW d \in Drillers, Tamper(d)
    PROVE  LedgerInv'
<1> DEFINE seq == drillers[d].seq
           row == drillers[d].row
           new == TamperedEvent(seq, row)
           bk == [seq |-> seq, body |-> row.body, hash |-> row.hash]
<1>0. /\ drillers \in [Drillers -> DrillerSet] /\ events \in Seq(Event)
      /\ backups \in Seq(Backup) /\ headEdited \in BOOLEAN /\ written \in Seq(Body)
  BY DEF LedgerInv, LedgerTypeOK, DrillerSet
<1>1. /\ drillers[d].pc = "tamper" /\ backups' = Append(backups, bk)
      /\ events' = [events EXCEPT ![seq] = new]
      /\ headEdited' = (headEdited \/ seq = Len(events))
      /\ drillers' = [drillers EXCEPT ![d] = IdleDriller]
      /\ UNCHANGED <<written, writers, spent>>
      /\ crossed' = crossed \cup {s \in {seq} : Restorers # {}}
  BY DEF Tamper
<1>2. seq \in DOMAIN events /\ seq \in Nat /\ row \in Event
  BY <1>1, DrillerType DEF LedgerInv, Shape
<1>3. new \in Event
  BY <1>2, TamperedType
<1>4. bk \in Backup
  BY <1>2 DEF Backup, Event
<1>5. /\ new.prev = row.prev /\ new.hash = Hash(seq, new.body, row.prev)
  BY <1>2 DEF TamperedEvent, Event
<1> HIDE DEF seq, row, new, bk
<1>6. /\ events' \in Seq(Event) /\ Len(events') = Len(events)
      /\ \A s \in DOMAIN events : events'[s] = IF s = seq THEN new ELSE events[s]
  BY <1>0, <1>1, <1>2, <1>3
<1>7. /\ backups' \in Seq(Backup)
      /\ \A i \in DOMAIN backups' : \/ i \in DOMAIN backups /\ backups'[i] = backups[i]
                                    \/ backups'[i] = bk
  BY <1>0, <1>1, <1>4
<1>8. drillers' \in [Drillers -> DrillerSet]
  BY <1>0, <1>1, IdleTypes DEF DrillerSet
<1>9. headEdited' \in BOOLEAN /\ crossed' \subseteq Nat
  <2>1. headEdited' \in BOOLEAN
    BY <1>0, <1>1, Zenon
  <2>2. crossed \subseteq Nat
    BY DEF LedgerInv, LedgerTypeOK
  <2> QED
    BY <1>1, <1>2, <2>1, <2>2
<1>10. LedgerTypeOK'
  BY <1>1, <1>6, <1>7, <1>8, <1>9 DEF LedgerInv, LedgerTypeOK, DrillerSet
<1>11. \A e \in Drillers : drillers'[e] = IF e = d THEN IdleDriller ELSE drillers[e]
  BY <1>0, <1>1
<1>12. \A e \in Drillers : drillers'[e].pc = "tamper" => drillers'[e].seq \in DOMAIN events
  BY <1>11, IdleDrillerHolds DEF LedgerInv, Shape
<1>13. ASSUME ~headEdited'
       PROVE  /\ \A s \in DOMAIN events : Fits(written, s, events'[s])
              /\ events # << >> => events'[Len(events)].body = written[Len(events)]
              /\ \A e \in Drillers :
                    drillers'[e].pc = "tamper" => Fits(written, drillers'[e].seq, drillers'[e].row)
              /\ \A i \in DOMAIN backups' : BackupFits(written, Len(events), backups'[i])
              /\ \A e \in Drillers : \A i \in DOMAIN drillers'[e].rows :
                    BackupFits(written, Len(events), drillers'[e].rows[i])
  <2>1. ~headEdited /\ seq # Len(events)
    BY <1>1, <1>13, Zenon
  <2>2. Sound
    BY <2>1 DEF LedgerInv
  <2>3. Fits(written, seq, row)
    BY <1>1, <2>2 DEF Sound, ReadsFit, seq, row
  <2>4. Fits(written, seq, new)
    BY <1>5, <2>3 DEF Fits
  <2>5. BackupFits(written, Len(events), bk)
    <3>1. seq \in 1 .. Len(events) - 1
      BY <1>0, <1>2, <2>1
    <3> QED
      BY <2>3, <3>1 DEF BackupFits, Fits, bk
  <2>6. \A s \in DOMAIN events : Fits(written, s, events'[s])
    BY <1>6, <2>2, <2>4 DEF Sound, EventsFit
  <2>7. events # << >> => events'[Len(events)].body = written[Len(events)]
    <3>1. events # << >> => Len(events) \in DOMAIN events
      BY <1>0
    <3> QED
      BY <1>6, <2>1, <2>2, <3>1 DEF Sound, NewestAsWritten
  <2>8. \A i \in DOMAIN backups' : BackupFits(written, Len(events), backups'[i])
    BY <1>7, <2>2, <2>5 DEF Sound, BackupsFit
  <2>9. \A e \in Drillers :
           drillers'[e].pc = "tamper" => Fits(written, drillers'[e].seq, drillers'[e].row)
    BY <1>11, <2>2, IdleDrillerHolds DEF Sound, ReadsFit
  <2>10. \A e \in Drillers : \A i \in DOMAIN drillers'[e].rows :
            BackupFits(written, Len(events), drillers'[e].rows[i])
    BY <1>11, <2>2, IdleDrillerHolds DEF Sound, BackupsFit
  <2> QED
    BY <2>6, <2>7, <2>8, <2>9, <2>10
<1>14. headEdited => headEdited'
  BY <1>1, Zenon
<1> QED
  BY <1>1, <1>6, <1>10, <1>12, <1>13, <1>14, DrillersMove

LEMMA ReadBackupsKeeps ==
    ASSUME LedgerInv, NEW d \in Drillers, ReadBackups(d)
    PROVE  LedgerInv'
<1>0. /\ drillers \in [Drillers -> DrillerSet] /\ backups \in Seq(Backup)
      /\ spent \in [changes : Nat, drills : Nat, crashes : Nat]
  BY DEF LedgerInv, LedgerTypeOK, DrillerSet
<1>1. drillers' = [drillers EXCEPT ![d].pc = "restore", ![d].rows = backups]
  BY DEF ReadBackups
<1>2. drillers' \in [Drillers -> DrillerSet]
  BY <1>0, <1>1 DEF DrillerSet
<1>3. spent' \in [changes : Nat, drills : Nat, crashes : Nat]
  BY <1>0 DEF ReadBackups, Spend1
<1>4. LedgerTypeOK'
  BY <1>2, <1>3 DEF ReadBackups, LedgerInv, LedgerTypeOK, DrillerSet
<1>5. \A e \in Drillers :
         /\ e # d => drillers'[e] = drillers[e]
         /\ e = d => drillers'[e].pc = "restore" /\ drillers'[e].rows = backups
  BY <1>0, <1>1 DEF DrillerSet
<1>6. \A e \in Drillers : drillers'[e].pc = "tamper" => drillers'[e].seq \in DOMAIN events
  BY <1>5 DEF LedgerInv, Shape
<1>7. ASSUME ~headEdited
      PROVE  /\ \A s \in DOMAIN events : Fits(written, s, events[s])
             /\ events # << >> => events[Len(events)].body = written[Len(events)]
             /\ \A e \in Drillers :
                   drillers'[e].pc = "tamper" => Fits(written, drillers'[e].seq, drillers'[e].row)
             /\ \A i \in DOMAIN backups : BackupFits(written, Len(events), backups[i])
             /\ \A e \in Drillers : \A i \in DOMAIN drillers'[e].rows :
                   BackupFits(written, Len(events), drillers'[e].rows[i])
  <2>1. Sound
    BY <1>7 DEF LedgerInv
  <2> QED
    BY <1>5, <2>1 DEF Sound, EventsFit, NewestAsWritten, ReadsFit, BackupsFit
<1> QED
  BY <1>4, <1>6, <1>7, DrillersMove DEF ReadBackups

LEMMA RestoreKeeps ==
    ASSUME LedgerInv, NEW d \in Drillers, Restore(d)
    PROVE  LedgerInv'
<1> DEFINE rows == drillers[d].rows
<1>0. /\ drillers \in [Drillers -> DrillerSet] /\ events \in Seq(Event)
      /\ rows \in Seq(Backup) /\ written \in Seq(Body) /\ DOMAIN events = 1 .. Len(events)
  BY DrillerType DEF LedgerInv, LedgerTypeOK, DrillerSet
<1>1. /\ events' = [seq \in DOMAIN events |-> RestoredEvent(rows, seq)]
      /\ backups' = << >>
      /\ drillers' = [drillers EXCEPT ![d] = IdleDriller]
      /\ UNCHANGED <<written, writers, headEdited, spent>>
      /\ crossed' \subseteq Nat
  <2>1. crossed \subseteq Nat /\ \A e \in Drillers : drillers[e].seq \in Nat
    BY DrillerType DEF LedgerInv, LedgerTypeOK
  <2>2. crossed' = crossed \cup {drillers[e].seq : e \in Tamperers}
    BY DEF Restore
  <2>3. crossed' \subseteq Nat
    BY <2>1, <2>2 DEF Tamperers
  <2> QED
    BY <2>3 DEF Restore
<1>2. \A seq \in DOMAIN events : RestoredEvent(rows, seq) \in Event
  BY <1>0, RestoredType
<1> HIDE DEF rows
<1>3. events' \in Seq(Event) /\ Len(events') = Len(events)
  BY <1>0, <1>1, <1>2
<1>4. drillers' \in [Drillers -> DrillerSet]
  BY <1>0, <1>1, IdleTypes DEF DrillerSet
<1>5. LedgerTypeOK'
  BY <1>1, <1>3, <1>4 DEF LedgerInv, LedgerTypeOK, DrillerSet
<1>6. \A e \in Drillers : drillers'[e] = IF e = d THEN IdleDriller ELSE drillers[e]
  BY <1>0, <1>1
<1>7. \A e \in Drillers : drillers'[e].pc = "tamper" => drillers'[e].seq \in DOMAIN events
  BY <1>6, IdleDrillerHolds DEF LedgerInv, Shape
<1>8. ASSUME ~headEdited'
      PROVE  /\ \A s \in DOMAIN events : Fits(written, s, events'[s])
             /\ events # << >> => events'[Len(events)].body = written[Len(events)]
             /\ \A e \in Drillers :
                   drillers'[e].pc = "tamper" => Fits(written, drillers'[e].seq, drillers'[e].row)
             /\ \A i \in DOMAIN backups' : BackupFits(written, Len(events), backups'[i])
             /\ \A e \in Drillers : \A i \in DOMAIN drillers'[e].rows :
                   BackupFits(written, Len(events), drillers'[e].rows[i])
  <2>1. Sound
    BY <1>1, <1>8 DEF LedgerInv
  <2>2. \A i \in DOMAIN rows : BackupFits(written, Len(events), rows[i])
    BY <2>1 DEF Sound, BackupsFit, rows
  <2>3. \A s \in DOMAIN events :
           /\ Fits(written, s, RestoredEvent(rows, s))
           /\ s = Len(events) => RestoredEvent(rows, s) = events[s]
    BY <1>0, <2>1, <2>2, RestoredFits DEF Sound, EventsFit
  <2>4. \A s \in DOMAIN events : Fits(written, s, events'[s])
    BY <1>1, <2>3
  <2>5. events # << >> => events'[Len(events)].body = written[Len(events)]
    <3>1. events # << >> => Len(events) \in DOMAIN events
      BY <1>0
    <3> QED
      BY <1>1, <2>1, <2>3, <3>1 DEF Sound, NewestAsWritten
  <2>6. \A i \in DOMAIN backups' : BackupFits(written, Len(events), backups'[i])
    BY <1>1
  <2>7. \A e \in Drillers :
           drillers'[e].pc = "tamper" => Fits(written, drillers'[e].seq, drillers'[e].row)
    BY <1>6, <2>1, IdleDrillerHolds DEF Sound, ReadsFit
  <2>8. \A e \in Drillers : \A i \in DOMAIN drillers'[e].rows :
           BackupFits(written, Len(events), drillers'[e].rows[i])
    BY <1>6, <2>1, IdleDrillerHolds DEF Sound, BackupsFit
  <2> QED
    BY <2>4, <2>5, <2>6, <2>7, <2>8
<1> QED
  BY <1>1, <1>3, <1>5, <1>7, <1>8, DrillersMove

LEMMA DrillKeeps ==
    ASSUME LedgerInv, NEW d \in Drillers, Drill(d)
    PROVE  LedgerInv'
  BY PickKeeps, TamperKeeps, ReadBackupsKeeps, RestoreKeeps DEF Drill

LEMMA CrashKeeps ==
    ASSUME LedgerInv, Crash
    PROVE  LedgerInv'
<1>1. /\ writers' = [w \in Writers |-> IdleWriter]
      /\ drillers' = [d \in Drillers |-> IdleDriller]
      /\ UNCHANGED <<events, written, backups, headEdited, crossed>>
  BY DEF Crash, LedgerCrash
<1>2. spent' \in [changes : Nat, drills : Nat, crashes : Nat]
  <2>1. spent \in [changes : Nat, drills : Nat, crashes : Nat]
    BY DEF LedgerInv, LedgerTypeOK
  <2>2. spent' = [spent EXCEPT !["crashes"] = @ + 1]
    BY DEF Crash, Spend1
  <2> QED
    BY <2>1, <2>2
<1>3. LedgerTypeOK'
  <2>1. writers' \in [Writers -> [pc : {"idle", "read", "insert"}, change : Nat,
                                  head : HeadRead]]
    BY <1>1, IdleTypes
  <2>2. drillers' \in [Drillers -> [pc : {"idle", "tamper", "restore"}, seq : Nat,
                                    row : Event, rows : Seq(Backup)]]
    BY <1>1, IdleTypes
  <2> QED
    BY <1>1, <1>2, <2>1, <2>2 DEF LedgerInv, LedgerTypeOK
<1>4. Shape'
  BY <1>1 DEF LedgerInv, Shape, IdleWriter, IdleDriller, LedgerTypeOK
<1>5. ASSUME ~headEdited PROVE Sound'
  <2>1. Sound
    BY <1>5 DEF LedgerInv
  <2>2. ReadsFit'
    BY <1>1, IdleReadFits, IdleDrillerHolds DEF ReadsFit
  <2>3. BackupsFit'
    BY <1>1, <2>1, IdleDrillerHolds DEF Sound, BackupsFit
  <2> QED
    BY <1>1, <2>1, <2>2, <2>3 DEF Sound, EventsFit, NewestAsWritten
<1> QED
  BY <1>1, <1>3, <1>4, <1>5 DEF LedgerInv

LEMMA StutterKeeps == LedgerInv /\ UNCHANGED ledgerVars => LedgerInv'
  BY DEF ledgerVars, LedgerInv, LedgerTypeOK, Shape, Sound, EventsFit, NewestAsWritten,
         ReadsFit, BackupsFit

----------------------------------------------------------------------------
\* The invariant holds in every reachable state, for any number of writers and
\* drillers.
THEOREM LedgerInvariant == LedgerSpec => []LedgerInv
<1>1. LedgerInv /\ [LedgerNext]_ledgerVars => LedgerInv'
  <2> SUFFICES ASSUME LedgerInv, [LedgerNext]_ledgerVars PROVE LedgerInv'
    OBVIOUS
  <2>1. CASE RecordRequest
    BY <2>1, RecordRequestKeeps
  <2>2. CASE \E w \in Writers : Write(w)
    BY <2>2, WriteKeeps
  <2>3. CASE \E d \in Drillers : Drill(d)
    BY <2>3, DrillKeeps
  <2>4. CASE Crash
    BY <2>4, CrashKeeps
  <2>5. CASE UNCHANGED ledgerVars
    BY <2>5, StutterKeeps
  <2> QED
    BY <2>1, <2>2, <2>3, <2>4, <2>5 DEF LedgerNext, LedgerStep, Rest
<1> QED
  BY InitHolds, <1>1, PTL DEF LedgerSpec

\* Every variable keeps its type.
THEOREM LedgerTypeCorrect == LedgerSpec => []LedgerTypeOK
<1>1. LedgerInv => LedgerTypeOK
  BY DEF LedgerInv
<1> QED
  BY <1>1, LedgerInvariant, PTL

LEMMA HistoryIsChain == \A n : History(n) = Chain(written, n)
  BY DEF History, Chain

LEMMA InvGivesHead == LedgerInv => HeadCommits
  BY HeadIsHistory, HistoryIsChain DEF HeadCommits

\* The hash an anchor would publish commits to the events as they were written,
\* whichever of them have been altered since.
THEOREM HeadsCommit == LedgerSpec => []HeadCommits
  BY InvGivesHead, LedgerInvariant, PTL

\* An event breaks the chain exactly if the one before it is altered.
LEMMA BreakIffAltered ==
    ASSUME LedgerInv, ~headEdited, NEW s \in DOMAIN events
    PROVE  s \in Breaks <=> s - 1 \in Altered
<1>1. /\ events \in Seq(Event) /\ written \in Seq(Body) /\ Len(written) = Len(events)
      /\ Sound /\ s \in 1 .. Len(events)
  BY DEF LedgerInv, LedgerTypeOK, Shape
<1>2. Fits(written, s, events[s])
  BY <1>1 DEF Sound, EventsFit
<1>3. s \in Breaks <=> EntryHash(s - 1) # Chain(written, s - 1)
  BY <1>2 DEF Breaks, Fits
<1>4. CASE s = 1
  <2>1. EntryHash(0) = Chain(written, 0)
    BY DEF EntryHash, Chain, Genesis
  <2>2. 0 \notin Altered
    BY <1>1 DEF Altered
  <2> QED
    BY <1>3, <1>4, <2>1, <2>2
<1>5. CASE s # 1
  <2> DEFINE p == s - 1
             before == Chain(written, p - 1)
  <2>1. p \in 1 .. Len(written) /\ p \in DOMAIN events
    BY <1>1, <1>5
  <2>2. EntryHash(p) = Hash(p, events[p].body, before)
    BY <1>1, <2>1 DEF Sound, EventsFit, Fits, EntryHash
  <2>3. Chain(written, p) = Hash(p, written[p], before)
    BY <1>1, <2>1, ChainStep
  <2>4. before \in HashSet
    BY <1>1, <2>1, ChainType
  <2>5. events[p].body \in Body /\ written[p] \in Body
    <3>1. events[p] \in Event /\ written[p] \in Body
      BY <1>1, <2>1
    <3> QED
      BY <3>1 DEF Event
  <2>6. EntryHash(p) = Chain(written, p) <=> events[p].body = written[p]
    BY <2>1, <2>2, <2>3, <2>4, <2>5, HashTellsBodies
  <2>7. p \in Altered <=> events[p].body # written[p]
    BY <2>1 DEF Altered
  <2> QED
    BY <1>3, <2>6, <2>7
<1> QED
  BY <1>4, <1>5

LEMMA InvLocates == LedgerInv => TamperLocated
<1> SUFFICES ASSUME LedgerInv, ~headEdited PROVE Breaks = {s + 1 : s \in Altered}
  BY DEF TamperLocated
<1>1. events \in Seq(Event) /\ DOMAIN events = 1 .. Len(events) /\ Len(events) \in Nat
  BY DEF LedgerInv, LedgerTypeOK
<1>2. Breaks \subseteq DOMAIN events
  BY DEF Breaks
<1>3. ASSUME NEW b \in Breaks PROVE b \in {s + 1 : s \in Altered}
  <2>1. b \in DOMAIN events /\ b - 1 \in Altered
    BY <1>2, <1>3, BreakIffAltered
  <2> QED
    BY <1>1, <2>1
<1>4. ASSUME NEW s \in Altered PROVE s + 1 \in Breaks
  <2>1. s \in DOMAIN events /\ events[s].body # written[s]
    BY DEF Altered
  <2>2. s # Len(events)
    BY <2>1 DEF LedgerInv, Sound, NewestAsWritten
  <2>3. s + 1 \in DOMAIN events /\ (s + 1) - 1 = s
    BY <1>1, <2>1, <2>2
  <2> QED
    BY <2>3, BreakIffAltered
<1> QED
  BY <1>3, <1>4

\* verify_chain names the event after an altered one and nothing else, so it
\* raises no alarm over an unaltered ledger and misses no alteration.
THEOREM TampersLocated == LedgerSpec => []TamperLocated
  BY InvLocates, LedgerInvariant, PTL

----------------------------------------------------------------------------
(***************************************************************************)
(* The undo log.  Leave out the events one of whose drills overlapped a    *)
(* restore.  What any other event would be put back to, by the backups in  *)
(* the table or by those a restore has read, is what was written; and a    *)
(* drill about to back up an event for the first time has read it as it    *)
(* was written.                                                            *)
(***************************************************************************)
Uncrossed == DOMAIN events \ crossed

BackedRows ==
    /\ \A i \in DOMAIN backups : backups[i].seq \in DOMAIN events
    /\ \A d \in Drillers : \A i \in DOMAIN drillers[d].rows :
          drillers[d].rows[i].seq \in DOMAIN events

\* The body a restore by these backups would leave an event with.
PutBack(rows, s) == IF BackedUp(rows, s) = {} THEN events[s].body
                                              ELSE rows[LastApplied(rows, s)].body

Undoable == \A s \in Uncrossed : PutBack(backups, s) = written[s]

DrillsCurrent ==
    \A d \in Tamperers :
       (drillers[d].seq \notin crossed /\ BackedUp(backups, drillers[d].seq) = {})
          => drillers[d].row.body = written[drillers[d].seq]

RestoresCurrent ==
    \A d \in Restorers : \A s \in Uncrossed : PutBack(drillers[d].rows, s) = written[s]

RestoreInv == LedgerInv /\ BackedRows /\ Undoable /\ DrillsCurrent /\ RestoresCurrent

LEMMA OldestIs ==
    ASSUME NEW rows \in Seq(Backup), NEW seq, NEW i \in BackedUp(rows, seq),
           \A j \in BackedUp(rows, seq) : i <= j
    PROVE  LastApplied(rows, seq) = i
<1>1. /\ LastApplied(rows, seq) \in BackedUp(rows, seq)
      /\ \A j \in BackedUp(rows, seq) : LastApplied(rows, seq) <= j
  BY OldestBackup
<1>2. BackedUp(rows, seq) \subseteq Nat
  BY DEF BackedUp
<1>3. LastApplied(rows, seq) <= i /\ i <= LastApplied(rows, seq)
  BY <1>1
<1> QED
  BY <1>1, <1>2, <1>3

\* One more backup: of this event, or of another.
LEMMA BackedUpMore ==
    ASSUME NEW rows \in Seq(Backup), NEW b \in Backup, NEW seq
    PROVE  BackedUp(Append(rows, b), seq)
              = BackedUp(rows, seq) \cup {i \in {Len(rows) + 1} : b.seq = seq}
<1>1. /\ DOMAIN Append(rows, b) = 1 .. Len(rows) + 1 /\ DOMAIN rows = 1 .. Len(rows)
      /\ Len(rows) \in Nat /\ Append(rows, b)[Len(rows) + 1] = b
      /\ \A i \in DOMAIN rows : Append(rows, b)[i] = rows[i]
  OBVIOUS
<1> QED
  BY <1>1 DEF BackedUp

LEMMA BackupElsewhere ==
    ASSUME NEW rows \in Seq(Backup), NEW b \in Backup, NEW seq, b.seq # seq
    PROVE  BackedUp(Append(rows, b), seq) = BackedUp(rows, seq)
<1>1. {i \in {Len(rows) + 1} : b.seq = seq} = {}
  OBVIOUS
<1>2. BackedUp(Append(rows, b), seq)
         = BackedUp(rows, seq) \cup {i \in {Len(rows) + 1} : b.seq = seq}
  BY BackedUpMore
<1> QED
  BY <1>1, <1>2

\* A later backup does not take the place of the oldest.
LEMMA BackupKept ==
    ASSUME NEW rows \in Seq(Backup), NEW b \in Backup, NEW seq,
           BackedUp(rows, seq) # {}
    PROVE  /\ BackedUp(Append(rows, b), seq) # {}
           /\ Append(rows, b)[LastApplied(Append(rows, b), seq)] = rows[LastApplied(rows, seq)]
<1> DEFINE more == Append(rows, b)
           len == Len(rows) + 1
<1>1. /\ more \in Seq(Backup) /\ DOMAIN more = 1 .. len /\ DOMAIN rows = 1 .. Len(rows)
      /\ Len(rows) \in Nat /\ \A i \in DOMAIN rows : more[i] = rows[i]
  OBVIOUS
<1>2. BackedUp(more, seq) = BackedUp(rows, seq) \cup {i \in {len} : b.seq = seq}
  BY BackedUpMore
<1> HIDE DEF more
<1>3. /\ LastApplied(rows, seq) \in BackedUp(rows, seq)
      /\ \A j \in BackedUp(rows, seq) : LastApplied(rows, seq) <= j
  BY OldestBackup
<1>4. LastApplied(rows, seq) \in DOMAIN rows
  BY <1>3 DEF BackedUp
<1>5. \A j \in BackedUp(more, seq) : LastApplied(rows, seq) <= j
  BY <1>1, <1>2, <1>3, <1>4
<1>6. LastApplied(rows, seq) \in BackedUp(more, seq)
  BY <1>2, <1>3
<1>7. LastApplied(more, seq) = LastApplied(rows, seq)
  BY <1>1, <1>5, <1>6, OldestIs
<1>8. BackedUp(more, seq) # {} /\ more[LastApplied(more, seq)] = rows[LastApplied(rows, seq)]
  BY <1>1, <1>4, <1>6, <1>7
<1> QED
  BY <1>8 DEF more

LEMMA BackupFirst ==
    ASSUME NEW rows \in Seq(Backup), NEW b \in Backup, BackedUp(rows, b.seq) = {}
    PROVE  /\ BackedUp(Append(rows, b), b.seq) # {}
           /\ Append(rows, b)[LastApplied(Append(rows, b), b.seq)] = b
<1> DEFINE more == Append(rows, b)
           len == Len(rows) + 1
<1>1. more \in Seq(Backup) /\ more[len] = b /\ len \in Nat
  OBVIOUS
<1>2. BackedUp(more, b.seq) = BackedUp(rows, b.seq) \cup {i \in {len} : b.seq = b.seq}
  BY BackedUpMore
<1> HIDE DEF more
<1>3. BackedUp(more, b.seq) = {len}
  BY <1>2
<1>4. len \in BackedUp(more, b.seq) /\ \A j \in BackedUp(more, b.seq) : len <= j
  BY <1>1, <1>3
<1>5. LastApplied(more, b.seq) = len
  BY <1>1, <1>4, OldestIs
<1>6. BackedUp(more, b.seq) # {} /\ more[LastApplied(more, b.seq)] = b
  BY <1>1, <1>4, <1>5
<1> QED
  BY <1>6 DEF more

\* Events and backups as they were, and no driller with a new read.
LEMMA SameRestores ==
    ASSUME RestoreInv, LedgerInv', UNCHANGED <<events, written, backups, crossed>>,
           \A d \in Drillers : drillers'[d] \in {drillers[d], IdleDriller}
    PROVE  RestoreInv'
<1>1. Undoable'
  BY DEF RestoreInv, Undoable, Uncrossed, PutBack
<1>2. IdleDriller.pc = "idle" /\ DOMAIN IdleDriller.rows = {}
  BY IdleDrillerHolds
<1>3. BackedRows'
  BY <1>2 DEF RestoreInv, BackedRows
<1>4. DrillsCurrent'
  BY <1>2 DEF RestoreInv, DrillsCurrent, Tamperers
<1>5. RestoresCurrent'
  BY <1>2 DEF RestoreInv, RestoresCurrent, Restorers, Uncrossed, PutBack
<1> QED
  BY <1>1, <1>3, <1>4, <1>5 DEF RestoreInv

\* No backup speaks of an event appended just now.
LEMMA AddRestores ==
    ASSUME RestoreInv, LedgerInv', NEW head \in HeadRead, NEW body \in Body, Add(head, body),
           UNCHANGED <<backups, drillers, crossed>>
    PROVE  RestoreInv'
<1> DEFINE n == Len(events) + 1
<1>1. /\ events \in Seq(Event) /\ written \in Seq(Body) /\ Len(written) = Len(events)
      /\ Link(head, body) \in Event /\ Link(head, body).body = body
      /\ \A d \in Drillers : drillers[d].pc = "tamper" => drillers[d].seq \in DOMAIN events
  BY LinkType DEF RestoreInv, LedgerInv, LedgerTypeOK, Shape, Link
<1>2. /\ events' = Append(events, Link(head, body)) /\ written' = Append(written, body)
  BY DEF Add
<1>3. /\ DOMAIN events' = DOMAIN events \cup {n} /\ n \notin DOMAIN events
      /\ \A s \in DOMAIN events : events'[s] = events[s] /\ written'[s] = written[s]
      /\ events'[n] = Link(head, body) /\ written'[n] = body
  BY <1>1, <1>2
<1> HIDE DEF n
<1>4. BackedRows'
  BY <1>3 DEF RestoreInv, BackedRows
<1>5. ASSUME NEW rows, \A i \in DOMAIN rows : rows[i].seq \in DOMAIN events,
             \A s \in Uncrossed : PutBack(rows, s) = written[s], NEW s \in Uncrossed'
      PROVE  (IF BackedUp(rows, s) = {} THEN events'[s].body
                 ELSE rows[LastApplied(rows, s)].body) = written'[s]
  <2>1. CASE s \in DOMAIN events
    BY <1>3, <1>5, <2>1 DEF Uncrossed, PutBack
  <2>2. CASE s = n
    <3>1. BackedUp(rows, n) = {}
      BY <1>3, <1>5 DEF BackedUp
    <3> QED
      BY <1>1, <1>3, <2>2, <3>1
  <2> QED
    BY <1>3, <2>1, <2>2 DEF Uncrossed
<1>6. Undoable'
  BY <1>5 DEF RestoreInv, Undoable, BackedRows, PutBack
<1>7. DrillsCurrent'
  BY <1>1, <1>3 DEF RestoreInv, DrillsCurrent, Tamperers
<1>8. RestoresCurrent'
  <2> SUFFICES ASSUME NEW d \in Restorers, NEW s \in Uncrossed'
               PROVE  (IF BackedUp(drillers[d].rows, s) = {} THEN events'[s].body
                          ELSE drillers[d].rows[LastApplied(drillers[d].rows, s)].body)
                         = written'[s]
    BY DEF RestoresCurrent, Restorers, PutBack
  <2>1. d \in Drillers
    BY DEF Restorers
  <2>2. \A i \in DOMAIN drillers[d].rows : drillers[d].rows[i].seq \in DOMAIN events
    BY <2>1 DEF RestoreInv, BackedRows
  <2>3. \A q \in Uncrossed : PutBack(drillers[d].rows, q) = written[q]
    BY DEF RestoreInv, RestoresCurrent
  <2> QED
    BY <1>5, <2>2, <2>3
<1> QED
  BY <1>4, <1>6, <1>7, <1>8 DEF RestoreInv

LEMMA WriteRestores ==
    ASSUME RestoreInv, NEW w \in Writers, Write(w)
    PROVE  RestoreInv'
<1>1. LedgerInv'
  BY WriteKeeps DEF RestoreInv
<1>2. CASE InsertEvent(w)
  <2>1. writers[w].change \in Nat /\ writers[w].head \in HeadRead
    BY WriterType DEF RestoreInv, LedgerInv
  <2>2. ChangeBody(w) \in Body
    BY <2>1, BodyTypes DEF ChangeBody
  <2> QED
    BY <1>1, <1>2, <2>1, <2>2, AddRestores DEF InsertEvent
<1>3. CASE MakeChange(w) \/ ReadHead(w) \/ InsertFails(w)
  <2>1. UNCHANGED <<events, written, backups, crossed>> /\ UNCHANGED drillers
    BY <1>3 DEF MakeChange, ReadHead, InsertFails
  <2> QED
    BY <1>1, <2>1, SameRestores
<1> QED
  BY <1>2, <1>3 DEF Write

LEMMA RecordRestores ==
    ASSUME RestoreInv, RecordRequest
    PROVE  RestoreInv'
<1>1. LedgerInv'
  BY RecordRequestKeeps DEF RestoreInv
<1>2. ChainHead \in HeadRead
  BY HeadType DEF RestoreInv, LedgerInv, LedgerTypeOK
<1> QED
  BY <1>1, <1>2, BodyTypes, AddRestores DEF RecordRequest, AppendLocked

\* A drill reads an event never backed up as it was written.
LEMMA PickRestores ==
    ASSUME RestoreInv, NEW d \in Drillers, NEW seq \in DOMAIN events, PickEvent(d, seq)
    PROVE  RestoreInv'
<1>1. LedgerInv' /\ UNCHANGED <<events, written, backups, crossed>>
  BY PickKeeps DEF RestoreInv, PickEvent
<1>2. drillers \in [Drillers -> DrillerSet]
  BY DEF RestoreInv, LedgerInv, LedgerTypeOK, DrillerSet
<1>3. /\ drillers' = [drillers EXCEPT ![d].pc = "tamper", ![d].seq = seq,
                                      ![d].row = events[seq]]
      /\ drillers[d].pc = "idle"
  BY DEF PickEvent
<1>4. /\ drillers'[d].pc = "tamper" /\ drillers'[d].seq = seq
      /\ drillers'[d].row = events[seq] /\ drillers'[d].rows = drillers[d].rows
      /\ \A e \in Drillers \ {d} : drillers'[e] = drillers[e]
  BY <1>2, <1>3 DEF DrillerSet
<1> HIDE DEF DrillerSet
<1>5. Undoable'
  BY <1>1 DEF RestoreInv, Undoable, Uncrossed, PutBack
<1>6. BackedRows'
  BY <1>1, <1>4 DEF RestoreInv, BackedRows
<1>7. RestoresCurrent'
  BY <1>1, <1>4 DEF RestoreInv, RestoresCurrent, Restorers, Uncrossed, PutBack
<1>8. DrillsCurrent'
  <2>1. (seq \notin crossed /\ BackedUp(backups, seq) = {})
           => events[seq].body = written[seq]
    BY DEF RestoreInv, Undoable, Uncrossed, PutBack
  <2> QED
    BY <1>1, <1>4, <2>1 DEF RestoreInv, DrillsCurrent, Tamperers
<1> QED
  BY <1>1, <1>5, <1>6, <1>7, <1>8 DEF RestoreInv

LEMMA ReadBackupsRestores ==
    ASSUME RestoreInv, NEW d \in Drillers, ReadBackups(d)
    PROVE  RestoreInv'
<1>1. LedgerInv' /\ UNCHANGED <<events, written, backups, crossed>>
  BY ReadBackupsKeeps DEF RestoreInv, ReadBackups
<1>2. drillers \in [Drillers -> DrillerSet]
  BY DEF RestoreInv, LedgerInv, LedgerTypeOK, DrillerSet
<1>3. drillers' = [drillers EXCEPT ![d].pc = "restore", ![d].rows = backups]
  BY DEF ReadBackups
<1>4. /\ drillers'[d].pc = "restore" /\ drillers'[d].rows = backups
      /\ \A e \in Drillers \ {d} : drillers'[e] = drillers[e]
  BY <1>2, <1>3 DEF DrillerSet
<1>5. Undoable'
  BY <1>1 DEF RestoreInv, Undoable, Uncrossed, PutBack
<1>6. BackedRows'
  BY <1>1, <1>4 DEF RestoreInv, BackedRows
<1>7. RestoresCurrent'
  <2> SUFFICES ASSUME NEW e \in Restorers', NEW s \in Uncrossed
               PROVE  PutBack(drillers'[e].rows, s) = written[s]
    BY <1>1 DEF RestoresCurrent, Uncrossed, PutBack
  <2>1. CASE e = d
    BY <1>4, <2>1 DEF RestoreInv, Undoable
  <2>2. CASE e # d
    <3>1. e \in Restorers /\ drillers'[e] = drillers[e]
      BY <1>4, <2>2 DEF Restorers
    <3> QED
      BY <3>1 DEF RestoreInv, RestoresCurrent
  <2> QED
    BY <2>1, <2>2
<1>8. DrillsCurrent'
  BY <1>1, <1>4 DEF RestoreInv, DrillsCurrent, Tamperers
<1> QED
  BY <1>1, <1>5, <1>6, <1>7, <1>8 DEF RestoreInv

\* What a drill backs up first is what was written.  An event drilled while a
\* restore is under way is crossed: for that restore the others are as they were.
LEMMA TamperRestores ==
    ASSUME RestoreInv, NEW d \in Drillers, Tamper(d)
    PROVE  RestoreInv'
<1> DEFINE seq == drillers[d].seq
           row == drillers[d].row
           bk == [seq |-> seq, body |-> row.body, hash |-> row.hash]
<1>1. /\ drillers[d].pc = "tamper" /\ backups' = Append(backups, bk)
      /\ events' = [events EXCEPT ![seq] = TamperedEvent(seq, row)]
      /\ drillers' = [drillers EXCEPT ![d] = IdleDriller]
      /\ crossed' = crossed \cup {s \in {seq} : Restorers # {}}
      /\ UNCHANGED written
  BY DEF Tamper
<1>2. /\ seq \in DOMAIN events /\ seq \in Nat /\ row \in Event
      /\ events \in Seq(Event) /\ backups \in Seq(Backup)
      /\ drillers \in [Drillers -> DrillerSet]
  BY <1>1, DrillerType DEF RestoreInv, LedgerInv, LedgerTypeOK, Shape, DrillerSet
<1>3. LedgerInv'
  BY TamperKeeps DEF RestoreInv
<1>4. bk \in Backup /\ bk.seq = seq /\ bk.body = row.body
  BY <1>2 DEF Backup, Event
<1>5. (seq \notin crossed /\ BackedUp(backups, seq) = {}) => bk.body = written[seq]
  BY <1>1, <1>4 DEF RestoreInv, DrillsCurrent, Tamperers
<1> HIDE DEF seq, row, bk
<1>6. backups \in Seq(Backup) /\ bk \in Backup /\ bk.seq = seq /\ backups' = Append(backups, bk)
  BY <1>1, <1>2, <1>4
<1>7. DOMAIN events' = DOMAIN events /\ \A s \in DOMAIN events \ {seq} : events'[s] = events[s]
  BY <1>1, <1>2, TamperedType
<1>8. \A e \in Drillers : drillers'[e] = IF e = d THEN IdleDriller ELSE drillers[e]
  BY <1>1, <1>2
<1>9. BackedRows'
  <2>1. \A i \in DOMAIN backups' : \/ i \in DOMAIN backups /\ backups'[i] = backups[i]
                                   \/ backups'[i] = bk
    BY <1>1, <1>2, <1>4
  <2> QED
    BY <1>2, <1>4, <1>7, <1>8, <2>1, IdleDrillerHolds DEF RestoreInv, BackedRows
<1>10. ASSUME NEW s \in Uncrossed'
      PROVE  (IF BackedUp(backups', s) = {} THEN events'[s].body
                 ELSE backups'[LastApplied(backups', s)].body) = written[s]
  <2>1. s \in DOMAIN events /\ s \notin crossed /\ PutBack(backups, s) = written[s]
    BY <1>1, <1>7 DEF RestoreInv, Undoable, Uncrossed
  <2>2. CASE BackedUp(backups, s) # {}
    <3>1. /\ BackedUp(backups', s) # {}
          /\ backups'[LastApplied(backups', s)] = backups[LastApplied(backups, s)]
      BY <1>6, <2>2, BackupKept
    <3> QED
      BY <2>1, <2>2, <3>1 DEF PutBack
  <2>3. CASE BackedUp(backups, s) = {} /\ s = seq
    <3>1. BackedUp(backups', s) # {} /\ backups'[LastApplied(backups', s)] = bk
      BY <1>6, <2>3, BackupFirst
    <3> QED
      BY <1>5, <2>1, <2>3, <3>1
  <2>4. CASE BackedUp(backups, s) = {} /\ s # seq
    <3>1. BackedUp(backups', s) = {}
      BY <1>6, <2>4, BackupElsewhere
    <3> QED
      BY <1>7, <2>1, <2>4, <3>1 DEF PutBack
  <2> QED
    BY <2>2, <2>3, <2>4
<1>11. Undoable'
  BY <1>1, <1>10 DEF Undoable, PutBack
<1>12. DrillsCurrent'
  <2> SUFFICES ASSUME NEW e \in Tamperers', drillers'[e].seq \notin crossed',
                      BackedUp(backups', drillers'[e].seq) = {}
               PROVE  drillers'[e].row.body = written[drillers'[e].seq]
    BY <1>1 DEF DrillsCurrent
  <2>1. e \in Drillers /\ e # d /\ drillers'[e] = drillers[e] /\ e \in Tamperers
    BY <1>8, IdleDrillerHolds DEF Tamperers
  <2>2. BackedUp(backups, drillers[e].seq) = {}
    BY <1>1, <1>6, <2>1, BackupKept
  <2> QED
    BY <1>1, <2>1, <2>2 DEF RestoreInv, DrillsCurrent
<1>13. RestoresCurrent'
  <2> SUFFICES ASSUME NEW e \in Restorers', NEW s \in Uncrossed'
               PROVE  (IF BackedUp(drillers'[e].rows, s) = {} THEN events'[s].body
                          ELSE drillers'[e].rows[LastApplied(drillers'[e].rows, s)].body)
                         = written[s]
    BY <1>1 DEF RestoresCurrent, PutBack
  <2>1. e \in Drillers /\ drillers'[e] = drillers[e] /\ e \in Restorers
    BY <1>8, IdleDrillerHolds DEF Restorers
  <2>2. s \in Uncrossed /\ s # seq
    BY <1>1, <1>7, <2>1 DEF Uncrossed
  <2>3. events'[s] = events[s]
    BY <1>7, <2>2 DEF Uncrossed
  <2>4. PutBack(drillers[e].rows, s) = written[s]
    BY <2>1, <2>2 DEF RestoreInv, RestoresCurrent
  <2> QED
    BY <2>1, <2>3, <2>4 DEF PutBack
<1> QED
  BY <1>3, <1>9, <1>11, <1>12, <1>13 DEF RestoreInv

\* Every event that no drill under way has read gets back what was written.
LEMMA RestoreRestores ==
    ASSUME RestoreInv, NEW d \in Drillers, Restore(d)
    PROVE  RestoreInv'
<1> DEFINE rows == drillers[d].rows
<1>1. /\ drillers[d].pc = "restore" /\ backups' = << >> /\ UNCHANGED written
      /\ events' = [seq \in DOMAIN events |-> RestoredEvent(rows, seq)]
      /\ drillers' = [drillers EXCEPT ![d] = IdleDriller]
      /\ crossed' = crossed \cup {drillers[e].seq : e \in Tamperers}
  BY DEF Restore
<1>2. LedgerInv'
  BY RestoreKeeps DEF RestoreInv
<1>3. events \in Seq(Event) /\ drillers \in [Drillers -> DrillerSet]
  BY DEF RestoreInv, LedgerInv, LedgerTypeOK, DrillerSet
<1>4. \A e \in Drillers : drillers'[e] = IF e = d THEN IdleDriller ELSE drillers[e]
  BY <1>1, <1>3
<1>5. \A s \in Uncrossed : PutBack(rows, s) = written[s]
  BY <1>1 DEF RestoreInv, RestoresCurrent, Restorers
<1> HIDE DEF rows
<1>6. BackedRows'
  BY <1>1, <1>4, IdleDrillerHolds DEF RestoreInv, BackedRows
<1>7. Uncrossed' \subseteq Uncrossed
  BY <1>1 DEF Uncrossed
<1>8. ASSUME NEW s \in Uncrossed' PROVE events'[s].body = written[s]
  <2>1. s \in DOMAIN events /\ PutBack(rows, s) = written[s]
        /\ events'[s] = RestoredEvent(rows, s)
    BY <1>1, <1>5, <1>7 DEF Uncrossed
  <2>2. events[s] \in Event
    BY <1>3, <2>1
  <2>3. RestoredEvent(rows, s).body = PutBack(rows, s)
    BY <2>2 DEF RestoredEvent, PutBack, Event
  <2> QED
    BY <2>1, <2>3
<1>9. Undoable'
  <2>1. \A s : BackedUp(backups', s) = {}
    BY <1>1 DEF BackedUp
  <2> QED
    BY <1>1, <1>8, <2>1 DEF Undoable, PutBack
<1>10. DrillsCurrent'
  <2>1. ASSUME NEW e \in Tamperers' PROVE drillers'[e].seq \in crossed'
    <3>1. e \in Tamperers /\ drillers'[e] = drillers[e]
      BY <1>4, IdleDrillerHolds DEF Tamperers
    <3> QED
      BY <1>1, <3>1
  <2> QED
    BY <2>1 DEF DrillsCurrent
<1>11. RestoresCurrent'
  <2> SUFFICES ASSUME NEW e \in Restorers', NEW s \in Uncrossed'
               PROVE  (IF BackedUp(drillers'[e].rows, s) = {} THEN events'[s].body
                          ELSE drillers'[e].rows[LastApplied(drillers'[e].rows, s)].body)
                         = written[s]
    BY <1>1 DEF RestoresCurrent, PutBack
  <2>1. e \in Restorers /\ drillers'[e] = drillers[e]
    BY <1>4, IdleDrillerHolds DEF Restorers
  <2>2. PutBack(drillers[e].rows, s) = written[s]
    BY <1>7, <2>1 DEF RestoreInv, RestoresCurrent
  <2> QED
    BY <1>8, <2>1, <2>2 DEF PutBack
<1> QED
  BY <1>2, <1>6, <1>9, <1>10, <1>11 DEF RestoreInv

\* Every altered event can be put back as it was written, whatever appends, drills,
\* restores and crashes interleave, unless a drill of that very event overlapped a
\* restore.
THEOREM AlterationsUndone == LedgerSpec => []Restorable
<1>1. LedgerInit => RestoreInv
  <2>1. LedgerInit => BackedRows /\ Undoable /\ DrillsCurrent /\ RestoresCurrent
    BY DEF LedgerInit, IdleDriller, BackedRows, Undoable, Uncrossed, DrillsCurrent,
           RestoresCurrent, Tamperers, Restorers
  <2> QED
    BY <2>1, InitHolds DEF RestoreInv
<1>2. RestoreInv /\ [LedgerNext]_ledgerVars => RestoreInv'
  <2> SUFFICES ASSUME RestoreInv, [LedgerNext]_ledgerVars PROVE RestoreInv'
    OBVIOUS
  <2>1. CASE RecordRequest
    BY <2>1, RecordRestores
  <2>2. CASE \E w \in Writers : Write(w)
    BY <2>2, WriteRestores
  <2>3. CASE \E d \in Drillers : Drill(d)
    BY <2>3, PickRestores, ReadBackupsRestores, TamperRestores, RestoreRestores DEF Drill
  <2>4. CASE Crash
    <3>1. /\ UNCHANGED <<events, written, backups, crossed>>
          /\ \A d \in Drillers : drillers'[d] = IdleDriller
      BY <2>4 DEF Crash, LedgerCrash
    <3> QED
      BY <2>4, <3>1, CrashKeeps, SameRestores DEF RestoreInv
  <2>5. CASE UNCHANGED ledgerVars
    BY <2>5, StutterKeeps, SameRestores DEF RestoreInv, ledgerVars
  <2> QED
    BY <2>1, <2>2, <2>3, <2>4, <2>5 DEF LedgerNext, LedgerStep, Rest
<1>3. RestoreInv => Restorable
  BY DEF RestoreInv, Undoable, Uncrossed, PutBack, Restorable, Altered
<1> QED
  BY <1>1, <1>2, <1>3, PTL DEF LedgerSpec
=============================================================================
