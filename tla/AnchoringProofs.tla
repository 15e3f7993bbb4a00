-------------------------- MODULE AnchoringProofs --------------------------
(***************************************************************************)
(* Theorems about Anchoring, for any number of threads, any threshold and  *)
(* any interleaving with appends, drills, restores, rewrites and crashes:  *)
(* what is recorded as anchored was published, commits to the history and  *)
(* is paid for once, and the integrity report neither misses an alteration *)
(* nor invents one.  LedgerInv, of AuditLedgerProofs, is part of the       *)
(* invariant: an anchor publishes the head's hash.                         *)
(***************************************************************************)
EXTENDS Anchoring, AuditLedgerProofs

ThreadPcs == {"idle", "hook", "due", "start", "flag", "head", "send", "confirm",
              "record", "clear", "unlock"}

ThreadSet == [pc : ThreadPcs, seq : Nat, hash : HashSet, sound : BOOLEAN, tx : Nat]

AnchorSet == [seq : Nat, hash : HashSet, sound : BOOLEAN, tx : Nat]

NoteStates == {"pool", "block", "indexed"}

NoteSet == [seq : Nat, hash : HashSet, state : NoteStates]

ReportPcs == {"idle", "anchors", "each", "done"}

Verdicts == {"none", "verified", "unanchored", "tampered"}

ReportSet == [pc : ReportPcs, intact : BOOLEAN, todo : SUBSET Nat, failed : BOOLEAN,
              confirmed : BOOLEAN, covered : SUBSET Nat, ever : SUBSET Nat,
              always : SUBSET Nat, verdict : Verdicts]

TrySet == [plain : Nat, starts : Nat, errors : Nat, reports : Nat, rewrites : Nat]

\* Where a thread holds _anchor_lock, and where it carries a head to be anchored.
Holding == {"flag", "head", "send", "confirm", "record", "clear", "unlock"}

Carrying == {"send", "confirm", "record"}

\* What was read from the chain when the newest event was as written commits to the
\* history up to it.
Commits(a) ==
    /\ a.sound => a.hash = Chain(written, a.seq)
    /\ ~headEdited => a.sound

\* A thread that carries a head holds the lock; the head is newer than every anchor;
\* its note, once sent, is the last one on the chain.
ThreadFits(t) ==
    /\ threads[t].pc \in Holding <=> lock = t
    /\ threads[t].pc \in Carrying =>
          /\ threads[t].seq <= Len(events) /\ Commits(threads[t])
          /\ \A i \in DOMAIN anchors : anchors[i].seq < threads[t].seq
    /\ threads[t].pc \in {"confirm", "record"} =>
          /\ chain # << >> /\ threads[t].tx = Len(chain)
          /\ NoteMatches(threads[t])
    /\ threads[t].pc = "record" => chain[threads[t].tx].state # "pool"

\* An anchor's event comes after what it anchors, so a later head is a newer one.
AnchorFits(a) ==
    /\ a.seq < Len(events) /\ Commits(a)
    /\ a.tx \in DOMAIN chain /\ chain[a.tx].state # "pool" /\ NoteMatches(a)
    /\ \A tx \in DOMAIN chain : tx > a.tx => chain[tx].seq > a.seq

\* There was something to find.
Suspect == report.ever # {} \/ headEdited

\* What a report has noted is what happened meanwhile; what it has passed over was
\* not altered all the time.
ReportFits ==
    /\ Reporting => Altered \subseteq report.ever /\ report.always \subseteq Altered
    /\ report.pc # "idle" => /\ ~headEdited /\ report.intact => report.always = {}
                             /\ ~report.intact \/ report.failed => Suspect
    /\ report.pc = "anchors" => ~report.failed
    /\ report.pc = "each" =>
          /\ report.todo \subseteq DOMAIN anchors
          /\ ~report.failed =>
                \A s \in report.always \cap report.covered :
                   \E i \in report.todo : anchors[i].sound /\ s <= anchors[i].seq
    /\ report.pc = "done" =>
          /\ report.verdict = "tampered" <=> ~report.intact \/ report.failed
          /\ ~report.failed => report.always \cap report.covered = {}
    /\ report.pc # "done" => report.verdict = "none"

AnchorInv ==
    /\ AnchoringTypeOK
    /\ LedgerInv
    /\ \A t \in Anchorers : ThreadFits(t)
    /\ \A i \in DOMAIN anchors : AnchorFits(anchors[i])
    /\ ReportFits
----------------------------------------------------------------------------
(***************************************************************************)
(* Types, and what a step may do to what is there.                         *)
(***************************************************************************)
LEMMA AnchoringTypeMeans ==
    AnchoringTypeOK <=>
        /\ LedgerTypeOK
        /\ anchors \in Seq(AnchorSet)
        /\ chain \in Seq(NoteSet)
        /\ threads \in [Anchorers -> ThreadSet]
        /\ lock \in Anchorers \cup {NoThread}
        /\ inFlight \in BOOLEAN
        /\ report \in ReportSet
        /\ tries \in TrySet
  BY DEF AnchoringTypeOK, AnchorSet, NoteSet, NoteStates, ThreadSet, ThreadPcs, ReportSet,
         ReportPcs, Verdicts, TrySet

LEMMA TryType ==
    ASSUME tries \in TrySet,
           NEW bound \in {"plain", "starts", "errors", "reports", "rewrites"}, Try(bound)
    PROVE  tries' \in TrySet
  BY DEF Try, TrySet

LEMMA ThreadType ==
    ASSUME AnchorInv, NEW t \in Anchorers
    PROVE  /\ threads[t] \in ThreadSet /\ threads[t].pc \in ThreadPcs
           /\ threads[t].seq \in Nat /\ threads[t].hash \in HashSet
           /\ threads[t].sound \in BOOLEAN /\ threads[t].tx \in Nat
           /\ threads \in [Anchorers -> ThreadSet] /\ ThreadFits(t)
<1>1. threads \in [Anchorers -> ThreadSet] /\ threads[t] \in ThreadSet /\ ThreadFits(t)
  BY AnchoringTypeMeans DEF AnchorInv
<1> QED
  BY <1>1 DEF ThreadSet

LEMMA AnchorType ==
    ASSUME AnchorInv, NEW i \in DOMAIN anchors
    PROVE  /\ anchors[i] \in AnchorSet /\ anchors[i].seq \in Nat
           /\ anchors[i].hash \in HashSet /\ anchors[i].sound \in BOOLEAN
           /\ anchors[i].tx \in Nat /\ AnchorFits(anchors[i])
           /\ chain[anchors[i].tx] \in NoteSet
<1>1. anchors[i] \in AnchorSet /\ AnchorFits(anchors[i]) /\ chain \in Seq(NoteSet)
  BY AnchoringTypeMeans DEF AnchorInv
<1> QED
  BY <1>1 DEF AnchorSet, AnchorFits

LEMMA NoteType ==
    ASSUME AnchorInv, NEW tx \in DOMAIN chain
    PROVE  /\ chain[tx] \in NoteSet /\ chain[tx].seq \in Nat
           /\ chain[tx].hash \in HashSet /\ chain[tx].state \in NoteStates
           /\ tx \in Nat
<1>1. chain \in Seq(NoteSet)
  BY AnchoringTypeMeans DEF AnchorInv
<1>2. chain[tx] \in NoteSet /\ tx \in Nat
  BY <1>1
<1> QED
  BY <1>2 DEF NoteSet

LEMMA LengthsAre ==
    ASSUME AnchorInv
    PROVE  /\ Len(events) \in Nat /\ Len(chain) \in Nat /\ Len(anchors) \in Nat
           /\ DOMAIN chain = 1 .. Len(chain) /\ DOMAIN anchors = 1 .. Len(anchors)
           /\ DOMAIN events = 1 .. Len(events) /\ Len(written) = Len(events)
           /\ written \in Seq(Body) /\ events \in Seq(Event)
  BY AnchoringTypeMeans DEF AnchorInv, LedgerInv, LedgerTypeOK, Shape

\* The ledger only grows, and what has been written stays so.
LedgerGrows ==
    /\ Len(events) <= Len(events')
    /\ \A n \in 0 .. Len(events) : Chain(written', n) = Chain(written, n)
    /\ headEdited => headEdited'

\* A note is never changed, and never leaves its block.
NotesKept ==
    \A tx \in DOMAIN chain :
       /\ tx \in DOMAIN chain'
       /\ chain'[tx].seq = chain[tx].seq /\ chain'[tx].hash = chain[tx].hash
       /\ chain[tx].state # "pool" => chain'[tx].state # "pool"

LEMMA SameLedgerGrows ==
    ASSUME AnchorInv, UNCHANGED ledgerVars
    PROVE  LedgerGrows /\ LedgerInv'
<1>1. LedgerInv'
  BY StutterKeeps DEF AnchorInv
<1> QED
  BY <1>1, LengthsAre DEF LedgerGrows, ledgerVars

LEMMA SameNotesKept ==
    ASSUME UNCHANGED chain
    PROVE  NotesKept
  BY DEF NotesKept

LEMMA CommitsKept ==
    ASSUME NEW a, a.seq \in 0 .. Len(events), Commits(a), LedgerGrows
    PROVE  /\ a.sound => a.hash = Chain(written', a.seq)
           /\ ~headEdited' => a.sound
  BY DEF Commits, LedgerGrows

\* An anchor still fits unless a note after its own is for an older event.
LEMMA AnchorKept ==
    ASSUME AnchorInv, LedgerInv', LedgerGrows, NotesKept, NEW i \in DOMAIN anchors,
           anchors'[i] = anchors[i],
           \A tx \in DOMAIN chain' \ DOMAIN chain : chain'[tx].seq > anchors[i].seq
    PROVE  AnchorFits(anchors[i])'
<1> DEFINE a == anchors[i]
<1>1. /\ a \in AnchorSet /\ a.seq \in Nat /\ a.tx \in Nat /\ AnchorFits(a)
      /\ Len(events) \in Nat /\ Len(events') \in Nat
  <2>1. Len(events') \in Nat
    BY DEF LedgerInv, LedgerTypeOK
  <2> QED
    BY <2>1, AnchorType, LengthsAre
<1> HIDE DEF a
<1>2. a.seq < Len(events') /\ a.seq \in 0 .. Len(events)
  BY <1>1 DEF AnchorFits, LedgerGrows
<1>3. /\ a.sound => a.hash = Chain(written', a.seq)
      /\ ~headEdited' => a.sound
  BY <1>1, <1>2, CommitsKept DEF AnchorFits
<1>4. /\ a.tx \in DOMAIN chain' /\ chain'[a.tx].state # "pool"
      /\ chain'[a.tx].seq = a.seq /\ chain'[a.tx].hash = a.hash
  BY <1>1 DEF AnchorFits, NotesKept, NoteMatches
<1>5. \A tx \in DOMAIN chain' : tx > a.tx => chain'[tx].seq > a.seq
  <2> SUFFICES ASSUME NEW tx \in DOMAIN chain', tx > a.tx PROVE chain'[tx].seq > a.seq
    OBVIOUS
  <2>1. CASE tx \in DOMAIN chain
    BY <1>1, <2>1 DEF AnchorFits, NotesKept
  <2>2. CASE tx \notin DOMAIN chain
    BY <2>2 DEF a
  <2> QED
    BY <2>1, <2>2
<1> QED
  BY <1>2, <1>3, <1>4, <1>5 DEF AnchorFits, Commits, NoteMatches, a

\* A thread that a step leaves alone.
LEMMA ThreadKept ==
    ASSUME AnchorInv, LedgerInv', LedgerGrows, NotesKept, NEW t \in Anchorers,
           threads'[t] = threads[t], lock' = t <=> lock = t,
           lock = t => UNCHANGED anchors /\ Len(chain') = Len(chain) /\ chain' \in Seq(NoteSet)
    PROVE  ThreadFits(t)'
<1> DEFINE r == threads[t]
<1>1. /\ r \in ThreadSet /\ r.pc \in ThreadPcs /\ r.seq \in Nat /\ r.tx \in Nat /\ ThreadFits(t)
      /\ Len(events) \in Nat /\ Len(events') \in Nat /\ Len(chain) \in Nat
      /\ DOMAIN chain = 1 .. Len(chain)
  <2>1. Len(events') \in Nat
    BY DEF LedgerInv, LedgerTypeOK
  <2> QED
    BY <2>1, ThreadType, LengthsAre
<1>2. threads'[t] = r
  OBVIOUS
<1>3. ThreadFits(t) <=>
        /\ r.pc \in Holding <=> lock = t
        /\ r.pc \in Carrying => /\ r.seq <= Len(events) /\ Commits(r)
                                /\ \A i \in DOMAIN anchors : anchors[i].seq < r.seq
        /\ r.pc \in {"confirm", "record"} => /\ chain # << >> /\ r.tx = Len(chain)
                                             /\ NoteMatches(r)
        /\ r.pc = "record" => chain[r.tx].state # "pool"
  BY DEF ThreadFits
<1> HIDE DEF r
<1>4. CASE r.pc \notin Holding
  BY <1>1, <1>2, <1>3, <1>4 DEF ThreadFits, Holding, Carrying
<1>5. CASE r.pc \in Holding
  <2>1. lock = t /\ UNCHANGED anchors /\ Len(chain') = Len(chain) /\ chain' \in Seq(NoteSet)
    BY <1>1, <1>3, <1>5
  <2>2. r.pc \in Carrying =>
           /\ r.seq <= Len(events')
           /\ r.sound => r.hash = Chain(written', r.seq)
           /\ ~headEdited' => r.sound
    <3> SUFFICES ASSUME r.pc \in Carrying
                 PROVE  /\ r.seq <= Len(events')
                        /\ r.sound => r.hash = Chain(written', r.seq)
                        /\ ~headEdited' => r.sound
      OBVIOUS
    <3>1. r.seq \in 0 .. Len(events) /\ Commits(r)
      BY <1>1, <1>3
    <3>2. r.seq <= Len(events')
      BY <1>1, <3>1 DEF LedgerGrows
    <3> QED
      BY <3>1, <3>2, CommitsKept
  <2>3. r.pc \in {"confirm", "record"} =>
           /\ chain' # << >> /\ r.tx = Len(chain')
           /\ chain'[r.tx].seq = r.seq /\ chain'[r.tx].hash = r.hash
    <3> SUFFICES ASSUME r.pc \in {"confirm", "record"}
                 PROVE  /\ chain' # << >> /\ r.tx = Len(chain')
                        /\ chain'[r.tx].seq = r.seq /\ chain'[r.tx].hash = r.hash
      OBVIOUS
    <3>1. chain # << >> /\ r.tx = Len(chain) /\ NoteMatches(r) /\ chain \in Seq(NoteSet)
      BY <1>1, <1>3, AnchoringTypeMeans DEF AnchorInv
    <3>2. r.tx \in DOMAIN chain /\ Len(chain) # 0
      BY <1>1, <3>1
    <3>3. chain' # << >>
      BY <2>1, <3>2
    <3> QED
      BY <2>1, <3>1, <3>2, <3>3 DEF NotesKept, NoteMatches
  <2>4. r.pc = "record" => chain'[r.tx].state # "pool"
    <3> SUFFICES ASSUME r.pc = "record" PROVE chain'[r.tx].state # "pool"
      OBVIOUS
    <3>1. chain # << >> /\ r.tx = Len(chain) /\ chain[r.tx].state # "pool" /\ chain \in Seq(NoteSet)
      BY <1>1, <1>3, AnchoringTypeMeans DEF AnchorInv
    <3>2. r.tx \in DOMAIN chain
      BY <1>1, <3>1
    <3> QED
      BY <3>1, <3>2 DEF NotesKept
  <2> QED
    BY <1>1, <1>2, <1>3, <2>1, <2>2, <2>3, <2>4 DEF ThreadFits, Commits, NoteMatches
<1> QED
  BY <1>4, <1>5

----------------------------------------------------------------------------
(***************************************************************************)
(* The report, while others go on.                                         *)
(***************************************************************************)
LEMMA ReportType ==
    ASSUME AnchorInv
    PROVE  /\ report \in ReportSet /\ report.pc \in ReportPcs
           /\ report.intact \in BOOLEAN /\ report.failed \in BOOLEAN
           /\ report.confirmed \in BOOLEAN
           /\ report.todo \subseteq Nat /\ report.covered \subseteq Nat
           /\ report.ever \subseteq Nat /\ report.always \subseteq Nat
           /\ ReportFits
<1>1. report \in ReportSet /\ ReportFits
  BY AnchoringTypeMeans DEF AnchorInv
<1> QED
  BY <1>1 DEF ReportSet

LEMMA AlteredType ==
    ASSUME LedgerInv
    PROVE  Altered \subseteq Nat
  BY DEF LedgerInv, LedgerTypeOK, Altered

\* A step that changes events, and that the report watches.
LEMMA WatchKeeps ==
    ASSUME AnchorInv, LedgerInv', Watch, headEdited => headEdited',
           \A i \in DOMAIN anchors : i \in DOMAIN anchors' /\ anchors'[i] = anchors[i]
    PROVE  report' \in ReportSet /\ ReportFits'
<1>1. /\ report \in ReportSet /\ ReportFits /\ Altered' \subseteq Nat
      /\ report.ever \subseteq Nat /\ report.always \subseteq Nat
  <2>1. LedgerInv' => Altered' \subseteq Nat
    BY DEF LedgerInv, LedgerTypeOK, Altered
  <2> QED
    BY <2>1, ReportType
<1>2. CASE ~Reporting
  <2>1. report' = report
    BY <1>2 DEF Watch
  <2> QED
    BY <1>1, <1>2, <2>1 DEF ReportFits, Suspect, Reporting
<1>3. CASE Reporting
  <2> DEFINE e == report.ever \cup Altered'
             a == report.always \cap Altered'
  <2>1. report' = [report EXCEPT !.ever = e, !.always = a]
    BY <1>3 DEF Watch
  <2>2. /\ e \subseteq Nat /\ a \subseteq Nat /\ Altered' \subseteq e /\ a \subseteq Altered'
        /\ report.ever \subseteq e /\ a \subseteq report.always
    BY <1>1
  <2> HIDE DEF e, a
  <2>3. /\ report' \in ReportSet /\ report'.ever = e /\ report'.always = a
        /\ report'.pc = report.pc /\ report'.intact = report.intact
        /\ report'.failed = report.failed /\ report'.todo = report.todo
        /\ report'.covered = report.covered /\ report'.verdict = report.verdict
    BY <1>1, <2>1, <2>2 DEF ReportSet
  <2>4. report.pc \in {"anchors", "each"}
    BY <1>3 DEF Reporting
  <2>5. Suspect => Suspect'
    BY <2>2, <2>3 DEF Suspect
  <2>6. ~headEdited' /\ report.intact => a = {}
    BY <1>1, <2>2, <2>4 DEF ReportFits
  <2>7. report.pc = "each" =>
           /\ report.todo \subseteq DOMAIN anchors'
           /\ ~report.failed =>
                 \A s \in a \cap report.covered :
                    \E i \in report.todo : anchors'[i].sound /\ s <= anchors'[i].seq
    BY <1>1, <2>2 DEF ReportFits
  <2> QED
    BY <1>1, <2>2, <2>3, <2>4, <2>5, <2>6, <2>7 DEF ReportFits
<1> QED
  BY <1>2, <1>3

\* A step that leaves events and anchors alone.
LEMMA ReportSame ==
    ASSUME AnchorInv, UNCHANGED <<ledgerVars, anchors, report>>
    PROVE  report' \in ReportSet /\ ReportFits'
<1>1. report \in ReportSet /\ ReportFits
  BY ReportType
<1>2. UNCHANGED <<events, written, headEdited, anchors, report>>
  BY DEF ledgerVars
<1> QED
  BY <1>1, <1>2 DEF ReportFits, Suspect, Reporting, Altered

----------------------------------------------------------------------------
(***************************************************************************)
(* Steps that change the ledger and nothing that is carried.               *)
(***************************************************************************)
LEMMA LedgerMoves ==
    ASSUME AnchorInv, LedgerInv', LedgerGrows, Watch,
           UNCHANGED <<anchors, chain, lock, inFlight>>, tries' \in TrySet,
           threads' \in [Anchorers -> ThreadSet],
           \A t \in Anchorers : \/ threads'[t] = threads[t]
                                \/ /\ threads[t].pc \notin Holding
                                   /\ threads'[t].pc \notin Holding
    PROVE  AnchorInv'
<1>1. NotesKept
  BY SameNotesKept
<1>2. report' \in ReportSet /\ ReportFits'
  BY WatchKeeps DEF LedgerGrows
<1>3. AnchoringTypeOK'
  <2>1. LedgerTypeOK' /\ anchors' \in Seq(AnchorSet) /\ chain' \in Seq(NoteSet)
        /\ lock' \in Anchorers \cup {NoThread} /\ inFlight' \in BOOLEAN
    BY AnchoringTypeMeans DEF AnchorInv, LedgerInv
  <2> QED
    BY <1>2, <2>1 DEF AnchoringTypeOK, AnchorSet, NoteSet, NoteStates, ThreadSet, ThreadPcs,
        ReportSet, ReportPcs, Verdicts, TrySet
<1>4. ASSUME NEW t \in Anchorers PROVE ThreadFits(t)'
  <2>1. CASE threads'[t] = threads[t]
    <3>1. Len(chain') = Len(chain) /\ chain' \in Seq(NoteSet)
      BY AnchoringTypeMeans DEF AnchorInv
    <3> QED
      BY <1>1, <2>1, <3>1, ThreadKept
  <2>2. CASE threads[t].pc \notin Holding /\ threads'[t].pc \notin Holding
    <3>1. lock' # t
      BY <2>2, ThreadType DEF ThreadFits
    <3> QED
      BY <2>2, <3>1 DEF ThreadFits, Holding, Carrying
  <2> QED
    BY <2>1, <2>2
<1>5. ASSUME NEW i \in DOMAIN anchors' PROVE AnchorFits(anchors[i])'
  BY <1>1, AnchorKept
<1> QED
  BY <1>2, <1>3, <1>4, <1>5 DEF AnchorInv

\* An event appended, and an event overwritten.
LEMMA AddGrows ==
    ASSUME AnchorInv, NEW head, NEW body \in Body, Add(head, body), UNCHANGED headEdited
    PROVE  LedgerGrows /\ Len(events') = Len(events) + 1
<1>1. /\ events \in Seq(Event) /\ written \in Seq(Body) /\ Len(written) = Len(events)
      /\ Len(events) \in Nat
  BY LengthsAre
<1>2. events' = Append(events, Link(head, body)) /\ written' = Append(written, body)
  BY DEF Add
<1>3. Len(events') = Len(events) + 1
  BY <1>1, <1>2
<1>4. \A n \in 0 .. Len(events) : Chain(written', n) = Chain(written, n)
  BY <1>1, <1>2, ChainGrows
<1> QED
  BY <1>1, <1>3, <1>4 DEF LedgerGrows

LEMMA OverwriteGrows ==
    ASSUME AnchorInv, UNCHANGED written, Len(events') = Len(events), headEdited => headEdited'
    PROVE  LedgerGrows
  BY LengthsAre DEF LedgerGrows

LEMMA WriteGrows ==
    ASSUME AnchorInv, NEW w \in Writers, Write(w)
    PROVE  LedgerGrows
<1>1. CASE InsertEvent(w)
  <2>1. writers[w].change \in Nat
    BY WriterType DEF AnchorInv, LedgerInv
  <2>2. ChangeBody(w) \in Body
    BY <2>1, BodyTypes DEF ChangeBody
  <2> QED
    BY <1>1, <2>2, AddGrows DEF InsertEvent
<1>2. CASE MakeChange(w) \/ ReadHead(w) \/ InsertFails(w)
  BY <1>2, OverwriteGrows DEF MakeChange, ReadHead, InsertFails
<1> QED
  BY <1>1, <1>2 DEF Write

LEMMA DrillGrows ==
    ASSUME AnchorInv, NEW d \in Drillers, Drill(d)
    PROVE  LedgerGrows
<1>1. CASE (\E seq \in DOMAIN events : PickEvent(d, seq)) \/ ReadBackups(d)
  <2>1. UNCHANGED <<events, written, headEdited>>
    BY <1>1 DEF PickEvent, ReadBackups
  <2> QED
    BY <2>1, OverwriteGrows
<1>2. CASE Tamper(d)
  <2>1. /\ UNCHANGED written
        /\ headEdited => headEdited'
        /\ events' = [events EXCEPT ![drillers[d].seq]
                         = TamperedEvent(drillers[d].seq, drillers[d].row)]
    BY <1>2 DEF Tamper
  <2>2. drillers[d].seq \in Nat /\ drillers[d].row \in Event /\ events \in Seq(Event)
    BY DrillerType DEF AnchorInv, LedgerInv, LedgerTypeOK
  <2>3. Len(events') = Len(events)
    BY <2>1, <2>2, TamperedType
  <2> QED
    BY <2>1, <2>3, OverwriteGrows
<1>3. CASE Restore(d)
  <2>1. /\ UNCHANGED <<written, headEdited>>
        /\ events' = [seq \in DOMAIN events |-> RestoredEvent(drillers[d].rows, seq)]
    BY <1>3 DEF Restore
  <2>2. drillers[d].rows \in Seq(Backup) /\ events \in Seq(Event)
    BY DrillerType DEF AnchorInv, LedgerInv, LedgerTypeOK
  <2>3. Len(events') = Len(events)
    BY <2>1, <2>2, RestoredType, LengthsAre
  <2> QED
    BY <2>1, <2>3, OverwriteGrows
<1> QED
  BY <1>1, <1>2, <1>3 DEF Drill

LEMMA LedgerThreadKeeps == AnchorInv /\ LedgerThread => AnchorInv'
<1> SUFFICES ASSUME AnchorInv, LedgerThread PROVE AnchorInv'
  OBVIOUS
<1>1. /\ Watch /\ UNCHANGED <<anchors, chain, lock, inFlight>> /\ UNCHANGED <<threads, tries>>
      /\ (\E w \in Writers : Write(w)) \/ (\E d \in Drillers : Drill(d))
  BY DEF LedgerThread
<1>2. LedgerInv'
  BY <1>1, WriteKeeps, DrillKeeps DEF AnchorInv
<1>3. LedgerGrows
  BY <1>1, WriteGrows, DrillGrows
<1>4. tries' \in TrySet /\ threads' \in [Anchorers -> ThreadSet]
  BY <1>1, AnchoringTypeMeans DEF AnchorInv
<1> QED
  BY <1>1, <1>2, <1>3, <1>4, LedgerMoves

LEMMA PlainEventKeeps == AnchorInv /\ PlainEvent => AnchorInv'
<1> SUFFICES ASSUME AnchorInv, PlainEvent PROVE AnchorInv'
  OBVIOUS
<1>1. /\ Watch /\ UNCHANGED <<anchors, chain, lock, inFlight>> /\ UNCHANGED threads
      /\ Try("plain") /\ RecordRequest
  BY DEF PlainEvent
<1>2. LedgerInv'
  BY <1>1, RecordRequestKeeps DEF AnchorInv
<1>3. LedgerGrows
  BY <1>1, BodyTypes, AddGrows DEF RecordRequest, AppendLocked
<1>4. tries' \in TrySet /\ threads' \in [Anchorers -> ThreadSet]
  BY <1>1, TryType, AnchoringTypeMeans DEF AnchorInv
<1> QED
  BY <1>1, <1>2, <1>3, <1>4, LedgerMoves

LEMMA DecideKeeps ==
    ASSUME AnchorInv, NEW t \in Anchorers, Decide(t)
    PROVE  AnchorInv'
<1> DEFINE body == [type |-> "request", id |-> 0, value |-> 0]
<1>1. /\ Watch /\ UNCHANGED <<anchors, chain, lock, inFlight>> /\ UNCHANGED tries
      /\ AppendLocked(body) /\ UNCHANGED <<backups, writers, drillers, headEdited, crossed, spent>>
      /\ threads' = [threads EXCEPT ![t].pc = "hook"] /\ threads[t].pc = "idle"
  BY DEF Decide, Goto
<1>2. body \in Body
  BY BodyTypes
<1> HIDE DEF body
<1>3. LedgerInv'
  BY <1>1, <1>2, LockedKeeps DEF AnchorInv
<1>4. LedgerGrows
  BY <1>1, <1>2, AddGrows DEF AppendLocked
<1>5. /\ tries' \in TrySet /\ threads' \in [Anchorers -> ThreadSet]
      /\ threads'[t].pc = "hook" /\ \A s \in Anchorers \ {t} : threads'[s] = threads[s]
  <2>1. threads[t] \in ThreadSet /\ threads \in [Anchorers -> ThreadSet]
    BY ThreadType
  <2>2. [threads[t] EXCEPT !.pc = "hook"] \in ThreadSet
    BY <2>1 DEF ThreadSet, ThreadPcs
  <2>3. [threads[t] EXCEPT !.pc = "hook"].pc = "hook"
    BY <2>1 DEF ThreadSet
  <2> QED
    BY <1>1, <2>1, <2>2, <2>3, AnchoringTypeMeans DEF AnchorInv
<1>6. \A s \in Anchorers : \/ threads'[s] = threads[s]
                           \/ threads[s].pc \notin Holding /\ threads'[s].pc \notin Holding
  BY <1>1, <1>5 DEF Holding
<1> QED
  BY <1>1, <1>3, <1>4, <1>5, <1>6, LedgerMoves

LEMMA RewrittenType ==
    ASSUME events \in Seq(Event), NEW seq \in DOMAIN events
    PROVE  Rewritten(seq) \in Seq(Event) /\ Len(Rewritten(seq)) = Len(events)
<1> DEFINE body(i) == IF i = seq THEN Doctored(events[i].body) ELSE events[i].body
           upTo(n) == [i \in 1 .. n |-> <<i, body(i)>>]
           row(i) == [body |-> body(i), prev |-> upTo(i - 1), hash |-> upTo(i)]
<1>1. \A i \in DOMAIN events : body(i) \in Body
  <2>1. \A i \in DOMAIN events : events[i] \in Event
    OBVIOUS
  <2>2. \A i \in DOMAIN events : events[i].body \in Body
    BY <2>1 DEF Event
  <2> QED
    BY <2>2, BodyTypes
<1>2. Rewritten(seq) = [i \in DOMAIN events |-> row(i)]
  BY DEF Rewritten
<1> HIDE DEF body
<1>3. \A n \in 0 .. Len(events) : upTo(n) \in HashSet
  BY <1>1 DEF HashSet
<1> HIDE DEF upTo
<1>4. \A i \in DOMAIN events : row(i) \in Event
  BY <1>1, <1>3 DEF Event
<1> HIDE DEF row
<1> QED
  BY <1>2, <1>4

LEMMA RewriteKeeps ==
    ASSUME AnchorInv, NEW seq \in DOMAIN events, Rewrite(seq)
    PROVE  AnchorInv'
<1>1. /\ Watch /\ UNCHANGED <<anchors, chain, lock, inFlight>> /\ UNCHANGED threads
      /\ Try("rewrites") /\ events' = Rewritten(seq) /\ headEdited' = TRUE
      /\ UNCHANGED <<written, backups, writers, drillers, crossed, spent>>
  BY DEF Rewrite
<1>2. events \in Seq(Event) /\ LedgerInv
  BY LengthsAre DEF AnchorInv
<1>3. events' \in Seq(Event) /\ Len(events') = Len(events) /\ DOMAIN events' = DOMAIN events
  BY <1>1, <1>2, RewrittenType
<1>4. LedgerInv'
  <2>1. LedgerTypeOK'
    BY <1>1, <1>2, <1>3 DEF LedgerInv, LedgerTypeOK
  <2>2. Shape'
    BY <1>1, <1>2, <1>3 DEF LedgerInv, Shape
  <2> QED
    BY <1>1, <2>1, <2>2 DEF LedgerInv
<1>5. LedgerGrows
  BY <1>1, <1>3, OverwriteGrows
<1>6. tries' \in TrySet /\ threads' \in [Anchorers -> ThreadSet]
  BY <1>1, TryType, AnchoringTypeMeans DEF AnchorInv
<1> QED
  BY <1>1, <1>4, <1>5, <1>6, LedgerMoves

----------------------------------------------------------------------------
(***************************************************************************)
(* Steps of one thread that leave the ledger and the anchors alone.        *)
(***************************************************************************)
LEMMA ThreadMoves ==
    ASSUME AnchorInv, NEW t \in Anchorers, NEW r \in ThreadSet,
           threads' = [threads EXCEPT ![t] = r],
           UNCHANGED <<ledgerVars, anchors, report>>,
           inFlight' \in BOOLEAN, tries' \in TrySet, chain' \in Seq(NoteSet), NotesKept,
           \/ lock' = lock
           \/ lock = NoThread /\ lock' = t
           \/ lock = t /\ lock' = NoThread,
           chain' = chain \/ lock = t,
           \A i \in DOMAIN anchors : \A tx \in DOMAIN chain' \ DOMAIN chain :
              chain'[tx].seq > anchors[i].seq,
           ThreadFits(t)'
    PROVE  AnchorInv'
<1>1. LedgerGrows /\ LedgerInv'
  BY SameLedgerGrows
<1>2. report' \in ReportSet /\ ReportFits'
  BY ReportSame
<1>3. /\ threads \in [Anchorers -> ThreadSet] /\ anchors \in Seq(AnchorSet)
      /\ chain \in Seq(NoteSet) /\ lock \in Anchorers \cup {NoThread}
  BY AnchoringTypeMeans DEF AnchorInv
<1>4. NoThread \notin Anchorers
  BY AnchoringAssumption DEF AnchoringAssumption
<1>5. /\ threads' \in [Anchorers -> ThreadSet] /\ lock' \in Anchorers \cup {NoThread}
      /\ UNCHANGED anchors
      /\ \A s \in Anchorers \ {t} : /\ threads'[s] = threads[s]
                                    /\ lock' = s <=> lock = s
  BY <1>3, <1>4
<1>6. AnchoringTypeOK'
  BY <1>1, <1>2, <1>3, <1>5 DEF LedgerInv, AnchoringTypeOK, AnchorSet, NoteSet, NoteStates,
      ThreadSet, ThreadPcs, ReportSet, ReportPcs, Verdicts, TrySet
<1>7. ASSUME NEW s \in Anchorers PROVE ThreadFits(s)'
  <2>1. CASE s = t
    BY <2>1
  <2>2. CASE s # t
    <3>1. threads'[s] = threads[s]
      BY <1>5, <2>2
    <3>2. lock' = s <=> lock = s
      BY <1>5, <2>2
    <3>3. lock = s => UNCHANGED anchors /\ Len(chain') = Len(chain) /\ chain' \in Seq(NoteSet)
      BY <1>5, <2>2
    <3> QED
      BY <1>1, <3>1, <3>2, <3>3, ThreadKept
  <2> QED
    BY <2>1, <2>2
<1>8. ASSUME NEW i \in DOMAIN anchors' PROVE AnchorFits(anchors[i])'
  BY <1>1, <1>5, AnchorKept
<1> QED
  BY <1>1, <1>2, <1>6, <1>7, <1>8 DEF AnchorInv

\* To a place where nothing is carried.
LEMMA GotoKeeps ==
    ASSUME AnchorInv, NEW t \in Anchorers, NEW pc \in ThreadPcs \ Carrying, Goto(t, pc),
           UNCHANGED <<ledgerVars, anchors, chain, report>>,
           inFlight' \in BOOLEAN, tries' \in TrySet,
           \/ lock' = lock
           \/ lock = NoThread /\ lock' = t,
           pc \in Holding <=> lock' = t
    PROVE  AnchorInv'
<1> DEFINE r == [threads[t] EXCEPT !.pc = pc]
<1>1. threads[t] \in ThreadSet /\ threads \in [Anchorers -> ThreadSet]
  BY ThreadType
<1>2. r \in ThreadSet /\ r.pc = pc
  BY <1>1 DEF ThreadSet
<1>3. threads' = [threads EXCEPT ![t] = r]
  BY <1>1 DEF Goto
<1> HIDE DEF r
<1>4. threads'[t] = r
  BY <1>1, <1>3
<1>5. ThreadFits(t)'
  BY <1>2, <1>4 DEF ThreadFits, Carrying
<1>6. chain' \in Seq(NoteSet) /\ NotesKept /\ chain' = chain
  BY SameNotesKept, AnchoringTypeMeans DEF AnchorInv
<1> QED
  BY <1>2, <1>3, <1>5, <1>6, ThreadMoves

LEMMA HookKeeps ==
    ASSUME AnchorInv, NEW t \in Anchorers, CountBacklog(t) \/ Spawn(t) \/ Busy(t) \/ Request(t)
    PROVE  AnchorInv'
<1>1. \E pc \in {"idle", "due", "start"} : Goto(t, pc)
  BY DEF CountBacklog, Spawn, Busy, Request
<1>2. PICK pc \in {"idle", "due", "start"} : Goto(t, pc)
  BY <1>1
<1>3. /\ UNCHANGED <<ledgerVars, anchors, chain, report>> /\ UNCHANGED <<lock, inFlight>>
      /\ threads[t].pc \in {"idle", "hook", "due", "start"}
      /\ UNCHANGED tries \/ Try("starts")
  BY DEF CountBacklog, Spawn, Busy, Request
<1>4. inFlight' \in BOOLEAN /\ tries' \in TrySet
  BY <1>3, TryType, AnchoringTypeMeans DEF AnchorInv
<1>5. pc \in ThreadPcs \ Carrying /\ pc \notin Holding /\ threads[t].pc \notin Holding
  BY <1>3 DEF ThreadPcs, Carrying, Holding
<1>6. lock' # t
  BY <1>3, <1>5, ThreadType DEF ThreadFits
<1> QED
  BY <1>2, <1>3, <1>4, <1>5, <1>6, GotoKeeps

LEMMA AcquireKeeps ==
    ASSUME AnchorInv, NEW t \in Anchorers, Acquire(t)
    PROVE  AnchorInv'
<1>1. inFlight' \in BOOLEAN /\ tries' \in TrySet
  BY AnchoringTypeMeans DEF AnchorInv, Acquire
<1>2. "flag" \in ThreadPcs \ Carrying /\ "flag" \in Holding
  BY DEF ThreadPcs, Carrying, Holding
<1> QED
  BY <1>1, <1>2, GotoKeeps DEF Acquire

\* Where anchor_now holds the lock and goes on holding it.
LEMMA HeldKeeps ==
    ASSUME AnchorInv, NEW t \in Anchorers,
           SetFlag(t) \/ NothingToAnchor(t) \/ NotConfirmed(t) \/ ClearFlag(t)
    PROVE  AnchorInv'
<1>1. \E pc \in {"head", "clear", "unlock"} : Goto(t, pc)
  BY DEF SetFlag, NothingToAnchor, NotConfirmed, ClearFlag
<1>2. PICK pc \in {"head", "clear", "unlock"} : Goto(t, pc)
  BY <1>1
<1>3. /\ UNCHANGED <<ledgerVars, anchors, chain, report>> /\ UNCHANGED <<lock, tries>>
      /\ threads[t].pc \in {"flag", "head", "confirm", "clear"}
      /\ inFlight' \in {inFlight, TRUE, FALSE}
  BY DEF SetFlag, NothingToAnchor, NotConfirmed, ClearFlag
<1>4. inFlight' \in BOOLEAN /\ tries' \in TrySet
  BY <1>3, AnchoringTypeMeans DEF AnchorInv
<1>5. pc \in ThreadPcs \ Carrying /\ pc \in Holding /\ threads[t].pc \in Holding
  BY <1>3 DEF ThreadPcs, Carrying, Holding
<1>6. lock' = t
  BY <1>3, <1>5, ThreadType DEF ThreadFits
<1> QED
  BY <1>2, <1>3, <1>4, <1>5, <1>6, GotoKeeps

LEMMA ReleaseKeeps ==
    ASSUME AnchorInv, NEW t \in Anchorers, Release(t)
    PROVE  AnchorInv'
<1>1. /\ threads[t].pc = "unlock" /\ lock' = NoThread
      /\ threads' = [threads EXCEPT ![t] = IdleThread]
      /\ UNCHANGED <<ledgerVars, anchors, report>> /\ UNCHANGED <<chain, inFlight, tries>>
  BY DEF Release
<1>2. IdleThread \in ThreadSet /\ IdleThread.pc = "idle"
  BY BodyTypes DEF IdleThread, ThreadSet, ThreadPcs
<1>3. lock = t /\ threads \in [Anchorers -> ThreadSet]
  BY <1>1, ThreadType DEF ThreadFits, Holding
<1>4. NoThread # t /\ threads'[t] = IdleThread
  BY <1>1, <1>3, AnchoringAssumption DEF AnchoringAssumption
<1>5. ThreadFits(t)'
  BY <1>1, <1>2, <1>4 DEF ThreadFits, Carrying, Holding
<1>6. /\ chain' \in Seq(NoteSet) /\ NotesKept /\ chain' = chain
      /\ inFlight' \in BOOLEAN /\ tries' \in TrySet
  BY <1>1, SameNotesKept, AnchoringTypeMeans DEF AnchorInv
<1> QED
  BY <1>1, <1>2, <1>3, <1>5, <1>6, ThreadMoves

LEMMA ReadChainHeadKeeps ==
    ASSUME AnchorInv, NEW t \in Anchorers, ReadChainHead(t)
    PROVE  AnchorInv'
<1> DEFINE r == [pc |-> "send", seq |-> ChainHead.seq, hash |-> ChainHead.hash,
                 sound |-> ~headEdited, tx |-> 0]
<1>1. /\ threads[t].pc = "head" /\ threads' = [threads EXCEPT ![t] = r]
      /\ UNCHANGED <<ledgerVars, anchors, report>> /\ UNCHANGED <<chain, lock, inFlight, tries>>
  BY DEF ReadChainHead
<1>2. /\ LedgerInv /\ events \in Seq(Event) /\ headEdited \in BOOLEAN
  BY LengthsAre DEF AnchorInv, LedgerInv, LedgerTypeOK
<1>3. /\ ChainHead.seq = Len(events) /\ ChainHead.hash \in HashSet /\ Len(events) \in Nat
      /\ ~headEdited => ChainHead.hash = Chain(written, Len(events))
  BY <1>2, HeadType, HeadIsHistory DEF HeadRead
<1>4. /\ r \in ThreadSet /\ r.pc = "send" /\ r.seq = Len(events)
      /\ r.hash = ChainHead.hash /\ r.sound = ~headEdited
  BY <1>2, <1>3 DEF ThreadSet, ThreadPcs
<1> HIDE DEF r
<1>5. lock = t /\ threads \in [Anchorers -> ThreadSet]
  BY <1>1, ThreadType DEF ThreadFits, Holding
<1>6. threads'[t] = r /\ lock' = t /\ UNCHANGED <<events, written, headEdited, anchors>>
  BY <1>1, <1>5 DEF ledgerVars
<1>7. \A i \in DOMAIN anchors : anchors[i].seq < Len(events)
  BY AnchorType DEF AnchorFits
<1>8. /\ r.sound => r.hash = Chain(written', r.seq)
      /\ ~headEdited' => r.sound
  BY <1>3, <1>4, <1>6
<1>9. ThreadFits(t)'
  BY <1>3, <1>4, <1>6, <1>7, <1>8 DEF ThreadFits, Commits, Holding
<1>10. /\ chain' \in Seq(NoteSet) /\ NotesKept /\ chain' = chain
       /\ inFlight' \in BOOLEAN /\ tries' \in TrySet
  BY <1>1, SameNotesKept, AnchoringTypeMeans DEF AnchorInv
<1> QED
  BY <1>1, <1>4, <1>9, <1>10, ThreadMoves

\* A note submitted is for a newer event than any anchor's.
LEMMA NoteSubmitted ==
    ASSUME AnchorInv, NEW t \in Anchorers, threads[t].pc = "send",
           chain' = Append(chain, Note(t))
    PROVE  /\ chain' \in Seq(NoteSet) /\ NotesKept /\ lock = t
           /\ Len(chain') = Len(chain) + 1
           /\ chain'[Len(chain) + 1].seq = threads[t].seq
           /\ chain'[Len(chain) + 1].hash = threads[t].hash
           /\ \A i \in DOMAIN anchors : \A tx \in DOMAIN chain' \ DOMAIN chain :
                 chain'[tx].seq > anchors[i].seq
<1>1. /\ threads[t].seq \in Nat /\ threads[t].hash \in HashSet /\ lock = t
      /\ \A i \in DOMAIN anchors : anchors[i].seq < threads[t].seq
  BY ThreadType DEF ThreadFits, Holding, Carrying
<1>2. chain \in Seq(NoteSet) /\ Len(chain) \in Nat
  BY LengthsAre, AnchoringTypeMeans DEF AnchorInv
<1>3. Note(t) \in NoteSet /\ Note(t).seq = threads[t].seq /\ Note(t).hash = threads[t].hash
  BY <1>1 DEF Note, NoteSet, NoteStates
<1>4. /\ chain' \in Seq(NoteSet) /\ Len(chain') = Len(chain) + 1
      /\ chain'[Len(chain) + 1] = Note(t)
      /\ \A tx \in DOMAIN chain : tx \in DOMAIN chain' /\ chain'[tx] = chain[tx]
      /\ DOMAIN chain' \ DOMAIN chain = {Len(chain) + 1}
  BY <1>2, <1>3
<1>5. NotesKept
  BY <1>4 DEF NotesKept
<1>6. ASSUME NEW i \in DOMAIN anchors
      PROVE  anchors[i].seq \in Nat /\ threads[t].seq > anchors[i].seq
  BY <1>1, AnchorType
<1> QED
  BY <1>1, <1>3, <1>4, <1>5, <1>6

LEMMA SendKeeps ==
    ASSUME AnchorInv, NEW t \in Anchorers, Send(t)
    PROVE  AnchorInv'
<1> DEFINE q == threads[t]
           r == [threads[t] EXCEPT !.pc = "confirm", !.tx = Len(chain) + 1]
<1>1. /\ q.pc = "send" /\ chain' = Append(chain, Note(t))
      /\ threads' = [threads EXCEPT ![t].pc = "confirm", ![t].tx = Len(chain) + 1]
      /\ UNCHANGED <<ledgerVars, anchors, report>> /\ UNCHANGED <<lock, inFlight, tries>>
  BY DEF Send
<1>2. /\ q \in ThreadSet /\ threads \in [Anchorers -> ThreadSet] /\ Len(chain) \in Nat
      /\ chain' \in Seq(NoteSet) /\ NotesKept /\ lock = t
      /\ Len(chain') = Len(chain) + 1
      /\ chain'[Len(chain) + 1].seq = q.seq /\ chain'[Len(chain) + 1].hash = q.hash
      /\ \A i \in DOMAIN anchors : \A tx \in DOMAIN chain' \ DOMAIN chain :
            chain'[tx].seq > anchors[i].seq
  BY <1>1, NoteSubmitted, ThreadType, LengthsAre
<1>3. /\ r \in ThreadSet /\ r.pc = "confirm" /\ r.tx = Len(chain) + 1
      /\ r.seq = q.seq /\ r.hash = q.hash /\ r.sound = q.sound
  <2>1. /\ DOMAIN q = {"pc", "seq", "hash", "sound", "tx"}
        /\ Len(chain) + 1 \in Nat /\ "confirm" \in ThreadPcs
    BY <1>2 DEF ThreadSet, ThreadPcs
  <2>2. r.pc = "confirm" /\ r.tx = Len(chain) + 1
    BY <2>1
  <2>3. r.seq = q.seq /\ r.hash = q.hash /\ r.sound = q.sound
    BY <2>1
  <2>4. r \in ThreadSet
    BY <1>2, <2>1 DEF ThreadSet
  <2> QED
    BY <2>2, <2>3, <2>4
<1>4. threads' = [threads EXCEPT ![t] = r]
  BY <1>1, <1>2
<1>5. /\ q.seq <= Len(events) /\ Commits(q)
      /\ \A i \in DOMAIN anchors : anchors[i].seq < q.seq
  BY <1>1, ThreadType DEF ThreadFits, Carrying
<1> HIDE DEF r, q
<1>6. threads'[t] = r /\ lock' = t /\ UNCHANGED <<events, written, headEdited, anchors>>
  BY <1>1, <1>2, <1>4 DEF ledgerVars
<1>7. /\ r.sound => r.hash = Chain(written', r.seq)
      /\ ~headEdited' => r.sound
  BY <1>3, <1>5, <1>6 DEF Commits
<1>8. /\ chain'[r.tx].seq = r.seq /\ chain'[r.tx].hash = r.hash
      /\ chain' # << >> /\ r.tx = Len(chain')
  BY <1>2, <1>3
<1>9. ThreadFits(t)'
  BY <1>3, <1>5, <1>6, <1>7, <1>8 DEF ThreadFits, Commits, NoteMatches, Holding
<1>10. inFlight' \in BOOLEAN /\ tries' \in TrySet
  BY <1>1, AnchoringTypeMeans DEF AnchorInv
<1> QED
  BY <1>1, <1>2, <1>3, <1>4, <1>9, <1>10, ThreadMoves

LEMMA ConfirmKeeps ==
    ASSUME AnchorInv, NEW t \in Anchorers, Confirm(t)
    PROVE  AnchorInv'
<1> DEFINE q == threads[t]
           r == [threads[t] EXCEPT !.pc = "record"]
<1>1. /\ q.pc = "confirm" /\ chain[q.tx].state # "pool"
      /\ threads' = [threads EXCEPT ![t].pc = "record"]
      /\ UNCHANGED <<ledgerVars, anchors, report>> /\ UNCHANGED <<chain, lock, inFlight, tries>>
  BY DEF Confirm, Goto
<1>2. q \in ThreadSet /\ threads \in [Anchorers -> ThreadSet]
  BY ThreadType
<1>3. /\ r \in ThreadSet /\ r.pc = "record" /\ r.tx = q.tx
      /\ r.seq = q.seq /\ r.hash = q.hash /\ r.sound = q.sound
  BY <1>2 DEF ThreadSet, ThreadPcs
<1>4. threads' = [threads EXCEPT ![t] = r]
  BY <1>1, <1>2
<1>5. /\ q.seq <= Len(events) /\ Commits(q) /\ lock = t
      /\ \A i \in DOMAIN anchors : anchors[i].seq < q.seq
      /\ chain # << >> /\ q.tx = Len(chain) /\ NoteMatches(q)
  BY <1>1, ThreadType DEF ThreadFits, Carrying, Holding
<1> HIDE DEF r, q
<1>6. threads'[t] = r /\ lock' = t /\ UNCHANGED <<events, written, headEdited, anchors, chain>>
  BY <1>1, <1>2, <1>4, <1>5 DEF ledgerVars
<1>7. /\ r.sound => r.hash = Chain(written', r.seq)
      /\ ~headEdited' => r.sound
      /\ chain'[r.tx].seq = r.seq /\ chain'[r.tx].hash = r.hash
  BY <1>3, <1>5, <1>6 DEF Commits, NoteMatches
<1>8. ThreadFits(t)'
  BY <1>1, <1>3, <1>5, <1>6, <1>7 DEF ThreadFits, Commits, NoteMatches, Holding
<1>9. /\ chain' \in Seq(NoteSet) /\ NotesKept /\ chain' = chain
      /\ inFlight' \in BOOLEAN /\ tries' \in TrySet
  BY <1>1, SameNotesKept, AnchoringTypeMeans DEF AnchorInv
<1> QED
  BY <1>1, <1>3, <1>4, <1>8, <1>9, ThreadMoves

LEMMA AnchorErrorKeeps ==
    ASSUME AnchorInv, NEW t \in Anchorers, AnchorError(t)
    PROVE  AnchorInv'
<1> DEFINE r == [threads[t] EXCEPT !.pc = "clear"]
<1>1. /\ threads[t].pc \in {"send", "record"} /\ Try("errors")
      /\ threads' = [threads EXCEPT ![t].pc = "clear"]
      /\ UNCHANGED <<ledgerVars, anchors, report>> /\ UNCHANGED <<lock, inFlight>>
      /\ \/ chain' = chain
         \/ threads[t].pc = "send" /\ chain' = Append(chain, Note(t))
  BY DEF AnchorError, Goto
<1>2. threads[t] \in ThreadSet /\ threads \in [Anchorers -> ThreadSet] /\ lock = t
  BY <1>1, ThreadType DEF ThreadFits, Holding
<1>3. r \in ThreadSet /\ r.pc = "clear"
  BY <1>2 DEF ThreadSet, ThreadPcs
<1>4. threads' = [threads EXCEPT ![t] = r]
  BY <1>1, <1>2
<1> HIDE DEF r
<1>5. threads'[t] = r /\ lock' = t
  BY <1>1, <1>2, <1>4
<1>6. ThreadFits(t)'
  BY <1>3, <1>5 DEF ThreadFits, Carrying, Holding
<1>7. inFlight' \in BOOLEAN /\ tries' \in TrySet
  BY <1>1, TryType, AnchoringTypeMeans DEF AnchorInv
<1>8. /\ chain' \in Seq(NoteSet) /\ NotesKept
      /\ \A i \in DOMAIN anchors : \A tx \in DOMAIN chain' \ DOMAIN chain :
            chain'[tx].seq > anchors[i].seq
  <2>1. CASE chain' = chain
    BY <2>1, SameNotesKept, AnchoringTypeMeans DEF AnchorInv
  <2>2. CASE threads[t].pc = "send" /\ chain' = Append(chain, Note(t))
    BY <2>2, NoteSubmitted
  <2> QED
    BY <1>1, <2>1, <2>2
<1> QED
  BY <1>1, <1>2, <1>3, <1>4, <1>6, <1>7, <1>8, ThreadMoves

\* The anchor recorded is the head that was read, and its event follows it.
LEMMA RecordAnchorKeeps ==
    ASSUME AnchorInv, NEW t \in Anchorers, RecordAnchor(t)
    PROVE  AnchorInv'
<1> DEFINE a == AnchorRow(t)
           body == [type |-> "anchored", id |-> threads[t].seq, value |-> 0]
           r == [threads[t] EXCEPT !.pc = "clear"]
<1>1. /\ threads[t].pc = "record" /\ anchors' = Append(anchors, a) /\ AppendLocked(body)
      /\ threads' = [threads EXCEPT ![t].pc = "clear"] /\ Watch
      /\ UNCHANGED <<backups, writers, drillers, headEdited, crossed, spent>>
      /\ UNCHANGED <<chain, lock, inFlight, tries>>
  BY DEF RecordAnchor, Goto
<1>2. /\ threads[t] \in ThreadSet /\ threads \in [Anchorers -> ThreadSet] /\ lock = t
      /\ threads[t].seq \in Nat /\ threads[t].hash \in HashSet
      /\ threads[t].sound \in BOOLEAN /\ threads[t].tx \in Nat
      /\ threads[t].seq <= Len(events) /\ Commits(threads[t])
      /\ \A i \in DOMAIN anchors : anchors[i].seq < threads[t].seq
      /\ chain # << >> /\ threads[t].tx = Len(chain) /\ NoteMatches(threads[t])
      /\ chain[threads[t].tx].state # "pool"
  BY <1>1, ThreadType DEF ThreadFits, Holding, Carrying
<1>3. body \in Body
  BY <1>2, BodyTypes
<1>4. /\ a \in AnchorSet /\ a.seq = threads[t].seq /\ a.hash = threads[t].hash
      /\ a.sound = threads[t].sound /\ a.tx = threads[t].tx
  BY <1>2 DEF AnchorRow, AnchorSet
<1>5. r \in ThreadSet /\ r.pc = "clear"
  BY <1>2 DEF ThreadSet, ThreadPcs
<1>6. threads' = [threads EXCEPT ![t] = r]
  BY <1>1, <1>2
<1> HIDE DEF a, body, r
<1>7. LedgerInv' /\ LedgerTypeOK'
  BY <1>1, <1>3, LockedKeeps DEF AnchorInv, LedgerInv
<1>8. LedgerGrows /\ Len(events') = Len(events) + 1 /\ Len(events) \in Nat
  BY <1>1, <1>3, AddGrows, LengthsAre DEF AppendLocked
<1>9. /\ anchors \in Seq(AnchorSet) /\ anchors' \in Seq(AnchorSet)
      /\ Len(anchors) \in Nat /\ Len(anchors') = Len(anchors) + 1
      /\ \A i \in DOMAIN anchors : i \in DOMAIN anchors' /\ anchors'[i] = anchors[i]
      /\ \A i \in DOMAIN anchors' : i \in DOMAIN anchors \/ i = Len(anchors) + 1
      /\ anchors'[Len(anchors) + 1] = a
  BY <1>1, <1>4, LengthsAre, AnchoringTypeMeans DEF AnchorInv
<1>10. report' \in ReportSet /\ ReportFits'
  BY <1>1, <1>7, <1>9, WatchKeeps
<1>11. NotesKept /\ chain \in Seq(NoteSet) /\ Len(chain) \in Nat /\ DOMAIN chain = 1 .. Len(chain)
  BY <1>1, SameNotesKept, LengthsAre, AnchoringTypeMeans DEF AnchorInv
<1>12. AnchoringTypeOK'
  <2>1. threads' \in [Anchorers -> ThreadSet] /\ lock' \in Anchorers \cup {NoThread}
        /\ inFlight' \in BOOLEAN /\ tries' \in TrySet /\ chain' \in Seq(NoteSet)
    BY <1>1, <1>2, <1>5, <1>6, AnchoringTypeMeans DEF AnchorInv
  <2> QED
    BY <1>7, <1>9, <1>10, <2>1 DEF AnchoringTypeOK, AnchorSet, NoteSet, NoteStates,
        ThreadSet, ThreadPcs, ReportSet, ReportPcs, Verdicts, TrySet
<1>13. ASSUME NEW s \in Anchorers PROVE ThreadFits(s)'
  <2>1. CASE s = t
    <3>1. threads'[s] = r /\ lock' = s
      BY <1>1, <1>2, <1>6, <2>1
    <3> QED
      BY <1>5, <3>1 DEF ThreadFits, Carrying, Holding
  <2>2. CASE s # t
    BY <1>1, <1>2, <1>6, <1>7, <1>8, <1>11, <2>2, ThreadKept
  <2> QED
    BY <2>1, <2>2
<1>14. ASSUME NEW i \in DOMAIN anchors' PROVE AnchorFits(anchors[i])'
  <2>1. CASE i \in DOMAIN anchors
    <3>1. anchors'[i] = anchors[i] /\ DOMAIN chain' \ DOMAIN chain = {}
      BY <1>1, <1>9, <2>1
    <3> QED
      BY <1>7, <1>8, <1>11, <2>1, <3>1, AnchorKept
  <2>2. CASE i = Len(anchors) + 1
    <3>1. anchors'[i] = a
      BY <1>9, <2>2
    <3>2. /\ a.sound => a.hash = Chain(written', a.seq)
          /\ ~headEdited' => a.sound
      <4>1. threads[t].seq \in 0 .. Len(events)
        BY <1>2, <1>8
      <4> QED
        BY <1>2, <1>4, <1>8, <4>1, CommitsKept
    <3>3. a.seq < Len(events')
      BY <1>2, <1>4, <1>8
    <3>4. /\ a.tx \in DOMAIN chain' /\ chain'[a.tx].state # "pool"
          /\ chain'[a.tx].seq = a.seq /\ chain'[a.tx].hash = a.hash
      <4>1. Len(chain) # 0
        BY <1>2, <1>11
      <4> QED
        BY <1>1, <1>2, <1>4, <1>11, <4>1 DEF NoteMatches
    <3>5. \A tx \in DOMAIN chain' : ~(tx > a.tx)
      BY <1>1, <1>2, <1>4, <1>11
    <3> QED
      BY <3>1, <3>2, <3>3, <3>4, <3>5 DEF AnchorFits, Commits, NoteMatches
  <2> QED
    BY <1>9, <2>1, <2>2
<1> QED
  BY <1>7, <1>10, <1>12, <1>13, <1>14 DEF AnchorInv

----------------------------------------------------------------------------
(***************************************************************************)
(* The chain, the indexer and the crash.                                   *)
(***************************************************************************)
LEMMA NoteMovesKeeps ==
    ASSUME AnchorInv, NEW tx \in DOMAIN chain, Include(tx) \/ Index(tx)
    PROVE  AnchorInv'
<1>1. /\ UNCHANGED <<ledgerVars, anchors, report>>
      /\ UNCHANGED <<threads, lock, inFlight, tries>>
      /\ \E state \in {"block", "indexed"} : chain' = [chain EXCEPT ![tx].state = state]
  BY DEF Include, Index
<1>2. PICK state \in {"block", "indexed"} : chain' = [chain EXCEPT ![tx].state = state]
  BY <1>1
<1> DEFINE n == [chain[tx] EXCEPT !.state = state]
<1>3. chain \in Seq(NoteSet) /\ chain[tx] \in NoteSet
  BY NoteType, AnchoringTypeMeans DEF AnchorInv
<1>4. /\ n \in NoteSet /\ n.state # "pool"
      /\ n.seq = chain[tx].seq /\ n.hash = chain[tx].hash
  BY <1>3 DEF NoteSet, NoteStates
<1>5. chain' = [chain EXCEPT ![tx] = n]
  BY <1>2, <1>3
<1> HIDE DEF n
<1>6. /\ chain' \in Seq(NoteSet) /\ Len(chain') = Len(chain) /\ DOMAIN chain' = DOMAIN chain
      /\ chain'[tx] = n /\ \A u \in DOMAIN chain \ {tx} : chain'[u] = chain[u]
  BY <1>3, <1>4, <1>5
<1>7. NotesKept
  BY <1>4, <1>6 DEF NotesKept
<1>8. LedgerGrows /\ LedgerInv' /\ report' \in ReportSet /\ ReportFits'
  BY <1>1, SameLedgerGrows, ReportSame
<1>9. AnchoringTypeOK'
  <2>1. /\ LedgerTypeOK' /\ threads' \in [Anchorers -> ThreadSet]
        /\ lock' \in Anchorers \cup {NoThread} /\ inFlight' \in BOOLEAN /\ tries' \in TrySet
        /\ anchors' \in Seq(AnchorSet)
    BY <1>1, <1>8, AnchoringTypeMeans DEF AnchorInv, LedgerInv
  <2> QED
    BY <1>6, <1>8, <2>1 DEF AnchoringTypeOK, AnchorSet, NoteSet, NoteStates,
        ThreadSet, ThreadPcs, ReportSet, ReportPcs, Verdicts, TrySet
<1>10. ASSUME NEW s \in Anchorers PROVE ThreadFits(s)'
  BY <1>1, <1>6, <1>7, <1>8, ThreadKept
<1>11. ASSUME NEW i \in DOMAIN anchors' PROVE AnchorFits(anchors[i])'
  BY <1>1, <1>6, <1>7, <1>8, AnchorKept
<1> QED
  BY <1>8, <1>9, <1>10, <1>11 DEF AnchorInv

LEMMA CrashAllKeeps ==
    ASSUME AnchorInv, CrashAll
    PROVE  AnchorInv'
<1>1. /\ Crash /\ UNCHANGED <<anchors, chain>> /\ UNCHANGED tries
      /\ threads' = [t \in Anchorers |-> IdleThread]
      /\ lock' = NoThread /\ inFlight' = FALSE /\ report' = IdleReport
  BY DEF CrashAll
<1>2. LedgerInv' /\ LedgerTypeOK'
  BY <1>1, CrashKeeps DEF AnchorInv, LedgerInv
<1>3. LedgerGrows
  BY <1>1, OverwriteGrows DEF Crash, LedgerCrash
<1>4. NotesKept /\ DOMAIN chain' \ DOMAIN chain = {}
  BY <1>1, SameNotesKept
<1>5. IdleThread \in ThreadSet /\ IdleThread.pc = "idle"
  BY BodyTypes DEF IdleThread, ThreadSet, ThreadPcs
<1>6. /\ IdleReport \in ReportSet /\ IdleReport.pc = "idle" /\ IdleReport.verdict = "none"
  BY DEF IdleReport, ReportSet, ReportPcs, Verdicts
<1>7. AnchoringTypeOK'
  <2>1. anchors' \in Seq(AnchorSet) /\ chain' \in Seq(NoteSet) /\ tries' \in TrySet
    BY <1>1, AnchoringTypeMeans DEF AnchorInv
  <2>2. threads' \in [Anchorers -> ThreadSet]
    BY <1>1, <1>5
  <2> QED
    BY <1>1, <1>2, <1>6, <2>1, <2>2 DEF AnchoringTypeOK, AnchorSet, NoteSet, NoteStates,
        ThreadSet, ThreadPcs, ReportSet, ReportPcs, Verdicts, TrySet
<1>8. ASSUME NEW t \in Anchorers PROVE ThreadFits(t)'
  <2>1. threads'[t] = IdleThread /\ lock' # t
    BY <1>1, AnchoringAssumption DEF AnchoringAssumption
  <2> QED
    BY <1>5, <2>1 DEF ThreadFits, Holding, Carrying
<1>9. ASSUME NEW i \in DOMAIN anchors' PROVE AnchorFits(anchors[i])'
  BY <1>1, <1>2, <1>3, <1>4, AnchorKept
<1>10. ReportFits'
  BY <1>1, <1>6 DEF ReportFits, Reporting
<1> QED
  BY <1>2, <1>7, <1>8, <1>9, <1>10 DEF AnchorInv

----------------------------------------------------------------------------
(***************************************************************************)
(* Steps of the report.                                                    *)
(***************************************************************************)
LEMMA ReportMoves ==
    ASSUME AnchorInv, UNCHANGED <<ledgerVars, anchors, chain, threads, lock, inFlight>>,
           tries' \in TrySet, report' \in ReportSet, ReportFits'
    PROVE  AnchorInv'
<1>1. LedgerGrows /\ LedgerInv' /\ LedgerTypeOK'
  BY SameLedgerGrows DEF LedgerInv
<1>2. NotesKept /\ DOMAIN chain' \ DOMAIN chain = {}
  BY SameNotesKept
<1>3. /\ anchors' \in Seq(AnchorSet) /\ chain' \in Seq(NoteSet)
      /\ threads' \in [Anchorers -> ThreadSet]
      /\ lock' \in Anchorers \cup {NoThread} /\ inFlight' \in BOOLEAN
  BY AnchoringTypeMeans DEF AnchorInv
<1>4. AnchoringTypeOK'
  BY <1>1, <1>3 DEF AnchoringTypeOK, AnchorSet, NoteSet, NoteStates,
      ThreadSet, ThreadPcs, ReportSet, ReportPcs, Verdicts, TrySet
<1>5. ASSUME NEW s \in Anchorers PROVE ThreadFits(s)'
  BY <1>1, <1>2, <1>3, ThreadKept
<1>6. ASSUME NEW i \in DOMAIN anchors' PROVE AnchorFits(anchors[i])'
  BY <1>1, <1>2, AnchorKept
<1> QED
  BY <1>1, <1>4, <1>5, <1>6 DEF AnchorInv

\* Hashing again up to an anchored event gives the anchored hash exactly if none of
\* those events is altered.
LEMMA SoundAnchorTells ==
    ASSUME AnchorInv, NEW i \in DOMAIN anchors, anchors[i].sound
    PROVE  LocalMatch(anchors[i]) <=> Altered \cap 1 .. anchors[i].seq = {}
<1> DEFINE n == anchors[i].seq
<1>1. /\ n \in Nat /\ n < Len(events) /\ anchors[i].hash = Chain(written, n)
      /\ Len(events) \in Nat /\ DOMAIN events = 1 .. Len(events)
  BY AnchorType, LengthsAre DEF AnchorFits, Commits
<1>2. LocalMatch(anchors[i]) <=> HashAt(n) = Chain(written, n)
  BY <1>1 DEF LocalMatch
<1> HIDE DEF n
<1>3. ASSUME HashAt(n) = Chain(written, n), NEW k \in 1 .. n
      PROVE  events[k].body = written[k]
  <2>1. HashAt(n)[k][2] = Chain(written, n)[k][2]
    BY <1>3
  <2>2. HashAt(n)[k][2] = events[k].body /\ Chain(written, n)[k][2] = written[k]
    BY DEF HashAt, Chain
  <2> QED
    BY <2>1, <2>2
<1>4. ASSUME \A k \in 1 .. n : events[k].body = written[k]
      PROVE  HashAt(n) = Chain(written, n)
  BY <1>4 DEF HashAt, Chain
<1>5. Altered \cap 1 .. n = {} <=> \A k \in 1 .. n : events[k].body = written[k]
  <2>1. \A k \in 1 .. n : k \in DOMAIN events
    BY <1>1
  <2> QED
    BY <2>1 DEF Altered
<1>6. HashAt(n) = Chain(written, n) <=> \A k \in 1 .. n : events[k].body = written[k]
  BY <1>3, <1>4
<1> QED
  BY <1>2, <1>5, <1>6 DEF n

LEMMA VerifyChainKeeps ==
    ASSUME AnchorInv, VerifyChain
    PROVE  AnchorInv'
<1> DEFINE intact == (Breaks = {})
<1>1. /\ report' = [IdleReport EXCEPT !.pc = "anchors", !.intact = intact,
                                       !.ever = Altered, !.always = Altered]
      /\ UNCHANGED <<ledgerVars, anchors, chain, threads, lock, inFlight>>
      /\ Try("reports")
  BY DEF VerifyChain
<1>2. LedgerInv /\ Altered \subseteq Nat /\ TamperLocated
  BY AlteredType, InvLocates DEF AnchorInv
<1>3. ~headEdited => (intact <=> Altered = {})
  <2> SUFFICES ASSUME ~headEdited PROVE Breaks = {} <=> Altered = {}
    OBVIOUS
  <2>1. Breaks = {s + 1 : s \in Altered}
    BY <1>2 DEF TamperLocated
  <2> QED
    BY <2>1
<1>4. intact \in BOOLEAN
  OBVIOUS
<1> HIDE DEF intact
<1>5. /\ report'.pc = "anchors" /\ report'.intact = intact /\ report'.ever = Altered
      /\ report'.always = Altered /\ report'.failed = FALSE /\ report'.verdict = "none"
  BY <1>1, Zenon DEF IdleReport
<1>6. report' \in ReportSet
  BY <1>1, <1>2, <1>4 DEF IdleReport, ReportSet, ReportPcs, Verdicts
<1>7. Altered' = Altered /\ headEdited' = headEdited
  BY <1>1 DEF ledgerVars, Altered
<1>8. ReportFits'
  <2>1. (~report'.intact \/ report'.failed) => Suspect'
    BY <1>3, <1>5, <1>7 DEF Suspect
  <2>2. ~headEdited' /\ report'.intact => report'.always = {}
    BY <1>3, <1>5, <1>7
  <2> QED
    BY <1>5, <1>7, <2>1, <2>2 DEF ReportFits
<1>9. tries' \in TrySet
  BY <1>1, TryType, AnchoringTypeMeans DEF AnchorInv
<1> QED
  BY <1>1, <1>6, <1>8, <1>9, ReportMoves

LEMMA GetAnchorsKeeps ==
    ASSUME AnchorInv, GetAnchors
    PROVE  AnchorInv'
<1> DEFINE todo == Recent
           covered == Covered(Recent)
<1>1. /\ report.pc = "anchors"
      /\ report' = [report EXCEPT !.pc = "each", !.todo = todo, !.covered = covered]
      /\ UNCHANGED <<ledgerVars, anchors, chain, threads, lock, inFlight>> /\ UNCHANGED tries
  BY DEF GetAnchors
<1>2. todo \subseteq DOMAIN anchors /\ todo \subseteq Nat
  BY LengthsAre DEF Recent
<1>3. \A s \in covered : s \in Nat /\ \E i \in todo : anchors[i].sound /\ s <= anchors[i].seq
  BY <1>2, AnchorType DEF Covered
<1> HIDE DEF todo, covered
<1>4. report \in ReportSet /\ ReportFits
  BY ReportType
<1>5. /\ report' \in ReportSet /\ report'.pc = "each" /\ report'.todo = todo
      /\ report'.covered = covered /\ report'.intact = report.intact
      /\ report'.failed = report.failed /\ report'.ever = report.ever
      /\ report'.always = report.always /\ report'.verdict = report.verdict
  BY <1>1, <1>2, <1>3, <1>4 DEF ReportSet, ReportPcs
<1>6. /\ Altered' = Altered /\ headEdited' = headEdited /\ anchors' = anchors
  BY <1>1 DEF ledgerVars, Altered
<1>7. ReportFits'
  BY <1>1, <1>2, <1>3, <1>4, <1>5, <1>6 DEF ReportFits, Suspect, Reporting
<1>8. tries' \in TrySet
  BY <1>1, AnchoringTypeMeans DEF AnchorInv
<1> QED
  BY <1>1, <1>5, <1>7, <1>8, ReportMoves

\* An anchor that fails is one whose event was altered; one that passes speaks for
\* its events, none of them altered now.
LEMMA VerifyAnchorKeeps ==
    ASSUME AnchorInv, VerifyAnchor
    PROVE  AnchorInv'
<1>1. PICK i \in report.todo :
         report' = [report EXCEPT
            !.todo = @ \ {i},
            !.failed = @ \/ ~AnchorOK(anchors[i]),
            !.confirmed = @ \/ (AnchorOK(anchors[i]) /\ Visible(anchors[i]))]
  BY DEF VerifyAnchor
<1>2. /\ report.pc = "each"
      /\ UNCHANGED <<ledgerVars, anchors, chain, threads, lock, inFlight>> /\ UNCHANGED tries
  BY DEF VerifyAnchor
<1> DEFINE ok == AnchorOK(anchors[i])
           failed == report.failed \/ ~ok
           confirmed == report.confirmed \/ (ok /\ Visible(anchors[i]))
<1>3. /\ report \in ReportSet /\ ReportFits /\ report.todo \subseteq Nat
      /\ report.failed \in BOOLEAN /\ report.always \subseteq Nat
  BY ReportType
<1>4. /\ i \in DOMAIN anchors /\ Altered \subseteq report.ever /\ report.always \subseteq Altered
      /\ Altered \subseteq DOMAIN events
  BY <1>2, <1>3 DEF ReportFits, Reporting, Altered
<1>5. NoteMatches(anchors[i])
  BY <1>4, AnchorType DEF AnchorFits
<1>6. ~ok => Suspect
  <2>1. CASE anchors[i].sound
    <3>1. ~ok => Altered # {}
      BY <1>4, <1>5, <2>1, SoundAnchorTells DEF AnchorOK
    <3> QED
      BY <1>4, <3>1 DEF Suspect
  <2>2. CASE ~anchors[i].sound
    <3>1. headEdited
      BY <1>4, <2>2, AnchorType DEF AnchorFits, Commits
    <3> QED
      BY <3>1 DEF Suspect
  <2> QED
    BY <2>1, <2>2
<1>7. ok /\ anchors[i].sound => \A s \in report.always : ~(s <= anchors[i].seq)
  <2> SUFFICES ASSUME ok, anchors[i].sound, NEW s \in report.always, s <= anchors[i].seq
               PROVE  FALSE
    OBVIOUS
  <2>1. Altered \cap 1 .. anchors[i].seq = {}
    BY <1>4, SoundAnchorTells DEF AnchorOK
  <2>2. s \in 1 .. anchors[i].seq
    BY <1>4, AnchorType, LengthsAre
  <2> QED
    BY <1>4, <2>1, <2>2
<1> HIDE DEF ok
<1>8. failed \in BOOLEAN /\ confirmed \in BOOLEAN /\ report.todo \ {i} \subseteq Nat
  BY <1>3
<1>9. report' = [report EXCEPT !.todo = report.todo \ {i}, !.failed = failed,
                               !.confirmed = confirmed]
  BY <1>1 DEF ok
<1>10. failed <=> report.failed \/ ~ok
  OBVIOUS
<1> HIDE DEF failed, confirmed
<1>11. /\ report' \in ReportSet /\ report'.pc = "each" /\ report'.todo = report.todo \ {i}
       /\ report'.failed = failed
       /\ report'.covered = report.covered /\ report'.intact = report.intact
       /\ report'.ever = report.ever
       /\ report'.always = report.always /\ report'.verdict = report.verdict
  BY <1>2, <1>3, <1>8, <1>9 DEF ReportSet
<1>12. Altered' = Altered /\ headEdited' = headEdited /\ anchors' = anchors
  BY <1>2 DEF ledgerVars, Altered
<1>13. Suspect' = Suspect
  BY <1>11, <1>12 DEF Suspect
<1>14. ASSUME ~failed, NEW s \in report.always \cap report.covered
       PROVE  \E j \in report.todo \ {i} : anchors[j].sound /\ s <= anchors[j].seq
  <2>1. ~report.failed /\ ok
    BY <1>10, <1>14
  <2>2. PICK j \in report.todo : anchors[j].sound /\ s <= anchors[j].seq
    BY <1>2, <1>3, <1>14, <2>1 DEF ReportFits
  <2>3. j # i
    BY <1>7, <1>14, <2>1, <2>2
  <2> QED
    BY <2>2, <2>3
<1>15. ReportFits'
  <2>1. (~report'.intact \/ report'.failed) => Suspect'
    BY <1>2, <1>3, <1>6, <1>10, <1>11, <1>13 DEF ReportFits
  <2>2. ~headEdited' /\ report'.intact => report'.always = {}
    BY <1>2, <1>3, <1>11, <1>12 DEF ReportFits
  <2>3. report'.todo \subseteq DOMAIN anchors' /\ report'.verdict = "none"
    BY <1>2, <1>3, <1>11, <1>12 DEF ReportFits
  <2>4. ~report'.failed => \A s \in report'.always \cap report'.covered :
            \E j \in report'.todo : anchors'[j].sound /\ s <= anchors'[j].seq
    BY <1>11, <1>12, <1>14
  <2>5. Altered' \subseteq report'.ever /\ report'.always \subseteq Altered'
    BY <1>4, <1>11, <1>12
  <2> QED
    BY <1>11, <2>1, <2>2, <2>3, <2>4, <2>5 DEF ReportFits
<1>16. tries' \in TrySet
  BY <1>2, AnchoringTypeMeans DEF AnchorInv
<1> QED
  BY <1>2, <1>11, <1>15, <1>16, ReportMoves

LEMMA GiveVerdictKeeps ==
    ASSUME AnchorInv, GiveVerdict
    PROVE  AnchorInv'
<1> DEFINE v == Verdict(report.intact, report.failed, report.confirmed)
<1>1. /\ report.pc = "each" /\ report.todo = {}
      /\ report' = [report EXCEPT !.pc = "done", !.verdict = v]
      /\ UNCHANGED <<ledgerVars, anchors, chain, threads, lock, inFlight>> /\ UNCHANGED tries
  BY DEF GiveVerdict
<1>2. v \in Verdicts /\ (v = "tampered" <=> ~report.intact \/ report.failed)
  BY DEF Verdict, Verdicts
<1> HIDE DEF v
<1>3. report \in ReportSet /\ ReportFits
  BY ReportType
<1>4. /\ report' \in ReportSet /\ report'.pc = "done" /\ report'.verdict = v
      /\ report'.failed = report.failed
      /\ report'.covered = report.covered /\ report'.intact = report.intact
      /\ report'.ever = report.ever /\ report'.always = report.always
  BY <1>1, <1>2, <1>3 DEF ReportSet, ReportPcs
<1>5. Altered' = Altered /\ headEdited' = headEdited /\ anchors' = anchors
  BY <1>1 DEF ledgerVars, Altered
<1>6. ~report.failed => report.always \cap report.covered = {}
  BY <1>1, <1>3 DEF ReportFits
<1>7. ReportFits'
  BY <1>1, <1>2, <1>3, <1>4, <1>5, <1>6 DEF ReportFits, Suspect, Reporting
<1>8. tries' \in TrySet
  BY <1>1, AnchoringTypeMeans DEF AnchorInv
<1> QED
  BY <1>1, <1>4, <1>7, <1>8, ReportMoves

----------------------------------------------------------------------------
(***************************************************************************)
(* The invariant, and what follows from it.                                *)
(***************************************************************************)
LEMMA AnchorInitHolds == Init => AnchorInv
<1> SUFFICES ASSUME Init PROVE AnchorInv
  OBVIOUS
<1>1. /\ LedgerInit /\ anchors = << >> /\ chain = << >>
      /\ threads = [t \in Anchorers |-> IdleThread]
      /\ lock = NoThread /\ inFlight = FALSE /\ report = IdleReport
      /\ tries = [plain |-> 0, starts |-> 0, errors |-> 0, reports |-> 0, rewrites |-> 0]
  BY DEF Init
<1>2. LedgerInv /\ LedgerTypeOK
  BY <1>1, InitHolds DEF LedgerInv
<1>3. IdleThread \in ThreadSet /\ IdleThread.pc = "idle"
  BY BodyTypes DEF IdleThread, ThreadSet, ThreadPcs
<1>4. IdleReport \in ReportSet /\ IdleReport.pc = "idle" /\ IdleReport.verdict = "none"
  BY DEF IdleReport, ReportSet, ReportPcs, Verdicts
<1>5. AnchoringTypeOK
  <2>1. threads \in [Anchorers -> ThreadSet]
    BY <1>1, <1>3
  <2>2. anchors \in Seq(AnchorSet) /\ chain \in Seq(NoteSet) /\ tries \in TrySet
    BY <1>1 DEF TrySet
  <2> QED
    BY <1>1, <1>2, <1>4, <2>1, <2>2, AnchoringTypeMeans
<1>6. ASSUME NEW t \in Anchorers PROVE ThreadFits(t)
  <2>1. threads[t] = IdleThread /\ lock # t
    BY <1>1, AnchoringAssumption DEF AnchoringAssumption
  <2> QED
    BY <1>3, <2>1 DEF ThreadFits, Holding, Carrying
<1>7. DOMAIN anchors = {}
  BY <1>1
<1>8. ReportFits
  BY <1>1, <1>4 DEF ReportFits, Reporting
<1> QED
  BY <1>2, <1>5, <1>6, <1>7, <1>8 DEF AnchorInv

LEMMA AnchorStutterKeeps == AnchorInv /\ UNCHANGED vars => AnchorInv'
<1> SUFFICES ASSUME AnchorInv, UNCHANGED vars PROVE AnchorInv'
  OBVIOUS
<1>1. /\ UNCHANGED <<ledgerVars, anchors, chain, threads, lock, inFlight>>
      /\ UNCHANGED <<ledgerVars, anchors, report>> /\ UNCHANGED tries
  BY DEF vars, anchorVars
<1>2. report' \in ReportSet /\ ReportFits'
  BY <1>1, ReportSame
<1>3. tries' \in TrySet
  BY <1>1, AnchoringTypeMeans DEF AnchorInv
<1> QED
  BY <1>1, <1>2, <1>3, ReportMoves

LEMMA ThreadStepKeeps ==
    ASSUME AnchorInv, NEW t \in Anchorers,
           Decide(t) \/ Request(t) \/ AnchorStep(t) \/ AnchorError(t)
    PROVE  AnchorInv'
<1>1. CASE Decide(t) \/ RecordAnchor(t)
  BY <1>1, DecideKeeps, RecordAnchorKeeps
<1>2. CASE Request(t) \/ CountBacklog(t) \/ Spawn(t) \/ Busy(t)
  BY <1>2, HookKeeps
<1>3. CASE Acquire(t) \/ Release(t)
  BY <1>3, AcquireKeeps, ReleaseKeeps
<1>4. CASE SetFlag(t) \/ NothingToAnchor(t) \/ NotConfirmed(t) \/ ClearFlag(t)
  BY <1>4, HeldKeeps
<1>5. CASE ReadChainHead(t) \/ Send(t) \/ Confirm(t)
  BY <1>5, ReadChainHeadKeeps, SendKeeps, ConfirmKeeps
<1>6. CASE AnchorError(t)
  BY <1>6, AnchorErrorKeeps
<1> QED
  BY <1>1, <1>2, <1>3, <1>4, <1>5, <1>6 DEF AnchorStep

\* AnchorInv holds in every reachable state.
THEOREM AnchorInvariant == Spec => []AnchorInv
<1>1. AnchorInv /\ [Next]_vars => AnchorInv'
  <2> SUFFICES ASSUME AnchorInv, [Next]_vars PROVE AnchorInv'
    OBVIOUS
  <2>1. CASE LedgerThread \/ PlainEvent
    BY <2>1, LedgerThreadKeeps, PlainEventKeeps
  <2>2. CASE \E t \in Anchorers : Decide(t) \/ Request(t) \/ AnchorStep(t) \/ AnchorError(t)
    BY <2>2, ThreadStepKeeps
  <2>3. CASE \E tx \in DOMAIN chain : Include(tx) \/ Index(tx)
    BY <2>3, NoteMovesKeeps
  <2>4. CASE \E seq \in DOMAIN events : Rewrite(seq)
    BY <2>4, RewriteKeeps
  <2>5. CASE VerifyChain \/ GetAnchors \/ VerifyAnchor \/ GiveVerdict
    BY <2>5, VerifyChainKeeps, GetAnchorsKeeps, VerifyAnchorKeeps, GiveVerdictKeeps
  <2>6. CASE CrashAll
    BY <2>6, CrashAllKeeps
  <2>7. CASE RestAll \/ UNCHANGED vars
    BY <2>7, AnchorStutterKeeps DEF RestAll
  <2> QED
    BY <2>1, <2>2, <2>3, <2>4, <2>5, <2>6, <2>7 DEF Next
<1> QED
  BY <1>1, AnchorInitHolds, PTL DEF Spec

\* Every variable keeps to its type.
THEOREM AnchoringTypeCorrect == Spec => []AnchoringTypeOK
<1>1. AnchorInv => AnchoringTypeOK
  BY DEF AnchorInv
<1> QED
  BY <1>1, AnchorInvariant, PTL

\* Anchoring, rewrites of the database and reports included, the ledger keeps what
\* it promises: verify_chain still points at the altered events, and the head's hash
\* still commits to what was written, until the newest event is edited.
THEOREM LedgerHoldsUp == Spec => [](TamperLocated /\ HeadCommits)
<1>1. AnchorInv => TamperLocated /\ HeadCommits
  BY InvLocates, InvGivesHead DEF AnchorInv
<1> QED
  BY <1>1, AnchorInvariant, PTL

\* However threads, errors, crashes and late transactions interleave, no transaction
\* pays to commit to a head that is recorded as anchored, or to one before it.
THEOREM NoFeeTwice == Spec => []NoSecondFee
<1>1. AnchorInv => NoSecondFee
  BY DEF AnchorInv, AnchorFits, NoSecondFee
<1> QED
  BY <1>1, AnchorInvariant, PTL

\* What the table of anchors says is in a block of the chain, and says the same.
THEOREM AnchorsArePublished == Spec => []AnchorsPublished
<1>1. AnchorInv => AnchorsPublished
  BY DEF AnchorInv, AnchorFits, AnchorsPublished
<1> QED
  BY <1>1, AnchorInvariant, PTL

\* The local half of verify_anchor fails exactly if an event the anchor covers is
\* altered, with every hash after it recomputed or not.
THEOREM AnchorsTell == Spec => []AnchorTells
<1>1. AnchorInv => AnchorTells
  BY SoundAnchorTells DEF AnchorTells
<1> QED
  BY <1>1, AnchorInvariant, PTL

\* A report that does not say "tampered" has missed no event that was altered while
\* it ran and that it could speak for.
THEOREM ReportsCatch == Spec => []ReportCatches
<1>1. AnchorInv => ReportCatches
  BY DEF AnchorInv, ReportFits, ReportCatches
<1> QED
  BY <1>1, AnchorInvariant, PTL

\* A report that says "tampered" is right: an event was altered while it ran, or the
\* newest event has been edited.
THEOREM ReportsRaiseNoFalseAlarm == Spec => []NoFalseAlarm
<1>1. AnchorInv => NoFalseAlarm
  BY DEF AnchorInv, ReportFits, Suspect, NoFalseAlarm
<1> QED
  BY <1>1, AnchorInvariant, PTL
=============================================================================
