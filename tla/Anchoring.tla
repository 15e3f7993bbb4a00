----------------------------- MODULE Anchoring -----------------------------
(***************************************************************************)
(* Anchoring (common/anchor.py) over the audit ledger: the hook that runs  *)
(* after a decision, the background threads and requests that call         *)
(* anchor_now, the transactions they send, and the integrity report that   *)
(* reads it all back while the rest goes on.                               *)
(*                                                                         *)
(* External, as the code uses them: Algorand, which may put a submitted    *)
(* note into a block or never, the public indexer, which serves it some    *)
(* time after, and whoever edits the database outside the program (the     *)
(* case tests/test_audit_ledger.py calls a full rewrite).                  *)
(***************************************************************************)
EXTENDS AuditLedger

CONSTANTS
    Anchorers,         \* threads that decide requests and anchor
    NoThread,          \* nobody holds _anchor_lock
    Threshold,         \* AUTO_ANCHOR_THRESHOLD
    AnchorLimit,       \* how many anchors a report checks
    Unconfirmed,       \* whether a note may take longer than the wait for it
    MaxPlain,          \* bound on events with no hook (reset, reaping)
    MaxStarts, MaxErrors, MaxReports, MaxRewrites

ASSUME AnchoringAssumption ==
    /\ NoThread \notin Anchorers
    /\ Unconfirmed \in BOOLEAN
    /\ Threshold \in Nat /\ AnchorLimit \in Nat \ {0}
    /\ {MaxPlain, MaxStarts, MaxErrors, MaxReports, MaxRewrites} \subseteq Nat

VARIABLES
    anchors,           \* the table, by id
    chain,             \* the notes submitted to Algorand, by transaction
    threads,           \* what each thread is doing
    lock,              \* who holds _anchor_lock
    inFlight,          \* the event _in_flight
    report,            \* the integrity report being made, or last made
    tries              \* how much of each bound has been used

anchorVars == <<anchors, chain, threads, lock, inFlight, report, tries>>
vars == <<ledgerVars, anchorVars>>

Try(bound) == tries' = [tries EXCEPT ![bound] = @ + 1]

\* An anchor's sound is history: the drill had hit no last event by then.
IdleThread == [pc |-> "idle", seq |-> 0, hash |-> Genesis, sound |-> FALSE, tx |-> 0]

Goto(t, pc) == threads' = [threads EXCEPT ![t].pc = pc]

Backlog == Len(events) - (IF anchors = << >> THEN 0 ELSE anchors[Len(anchors)].seq)

----------------------------------------------------------------------------
(***************************************************************************)
(* A report under way takes note of which events are altered meanwhile:    *)
(* some of the time (ever), all of the time (always).                      *)
(***************************************************************************)
Reporting == report.pc \in {"anchors", "each"}

Watch ==
    report' = IF Reporting
              THEN [report EXCEPT !.ever = @ \cup Altered', !.always = @ \cap Altered']
              ELSE report

LedgerThread ==
    /\ \/ \E w \in Writers : Write(w)
       \/ \E d \in Drillers : Drill(d)
    /\ Watch
    /\ UNCHANGED <<anchors, chain, threads, lock, inFlight, tries>>

\* reset and the reaping at startup: no hook runs after these.
PlainEvent ==
    /\ tries.plain < MaxPlain
    /\ RecordRequest
    /\ Watch /\ Try("plain")
    /\ UNCHANGED <<anchors, chain, threads, lock, inFlight>>

----------------------------------------------------------------------------
(***************************************************************************)
(* After a decision: maybe_auto_anchor and anchor_in_background.           *)
(***************************************************************************)
Decide(t) ==
    /\ threads[t].pc = "idle" /\ Len(events) < MaxEvents
    /\ AppendLocked([type |-> "request", id |-> 0, value |-> 0])
    /\ Goto(t, "hook") /\ Watch
    /\ UNCHANGED <<backups, writers, drillers, headEdited, crossed, spent,
                   anchors, chain, lock, inFlight, tries>>

CountBacklog(t) ==
    /\ threads[t].pc = "hook"
    /\ Goto(t, IF Backlog >= Threshold THEN "due" ELSE "idle")
    /\ UNCHANGED <<ledgerVars, anchors, chain, lock, inFlight, report, tries>>

Spawn(t) ==
    /\ threads[t].pc = "due"
    /\ Goto(t, IF inFlight THEN "idle" ELSE "start")
    /\ UNCHANGED <<ledgerVars, anchors, chain, lock, inFlight, report, tries>>

\* POST /audit/anchor.
Request(t) ==
    /\ threads[t].pc = "idle" /\ tries.starts < MaxStarts
    /\ Goto(t, "start") /\ Try("starts")
    /\ UNCHANGED <<ledgerVars, anchors, chain, lock, inFlight, report>>

----------------------------------------------------------------------------
(***************************************************************************)
(* anchor_now.                                                             *)
(***************************************************************************)
\* Wrong: the lock is not looked at.
Acquire_NoLock(t) ==
    /\ threads[t].pc = "start"
    /\ lock' = t /\ Goto(t, "flag")
    /\ UNCHANGED <<ledgerVars, anchors, chain, inFlight, report, tries>>

Acquire(t) ==
    /\ threads[t].pc = "start" /\ lock = NoThread
    /\ lock' = t /\ Goto(t, "flag")
    /\ UNCHANGED <<ledgerVars, anchors, chain, inFlight, report, tries>>

Busy(t) ==
    /\ threads[t].pc = "start" /\ lock # NoThread
    /\ Goto(t, "idle")
    /\ UNCHANGED <<ledgerVars, anchors, chain, lock, inFlight, report, tries>>

SetFlag(t) ==
    /\ threads[t].pc = "flag"
    /\ inFlight' = TRUE /\ Goto(t, "head")
    /\ UNCHANGED <<ledgerVars, anchors, chain, lock, report, tries>>

\* The table of anchors is read right after: only the holder of the lock adds
\* to it, so the two reads are one.
AlreadyAnchored ==
    anchors # << >> /\ anchors[Len(anchors)].seq = ChainHead.seq

NothingToAnchor(t) ==
    /\ threads[t].pc = "head" /\ (events = << >> \/ AlreadyAnchored)
    /\ Goto(t, "clear")
    /\ UNCHANGED <<ledgerVars, anchors, chain, lock, inFlight, report, tries>>

ReadChainHead(t) ==
    /\ threads[t].pc = "head" /\ events # << >> /\ ~AlreadyAnchored
    /\ threads' = [threads EXCEPT ![t] =
          [pc |-> "send", seq |-> ChainHead.seq, hash |-> ChainHead.hash,
           sound |-> ~headEdited, tx |-> 0]]
    /\ UNCHANGED <<ledgerVars, anchors, chain, lock, inFlight, report, tries>>

Note(t) == [seq |-> threads[t].seq, hash |-> threads[t].hash, state |-> "pool"]

Send(t) ==
    /\ threads[t].pc = "send"
    /\ chain' = Append(chain, Note(t))
    /\ threads' = [threads EXCEPT ![t].pc = "confirm", ![t].tx = Len(chain) + 1]
    /\ UNCHANGED <<ledgerVars, anchors, lock, inFlight, report, tries>>

\* Wrong: does not wait for the transaction.
Confirm_NoWait(t) ==
    /\ threads[t].pc = "confirm"
    /\ Goto(t, "record")
    /\ UNCHANGED <<ledgerVars, anchors, chain, lock, inFlight, report, tries>>

Confirm(t) ==
    /\ threads[t].pc = "confirm" /\ chain[threads[t].tx].state # "pool"
    /\ Goto(t, "record")
    /\ UNCHANGED <<ledgerVars, anchors, chain, lock, inFlight, report, tries>>

\* Wrong: an exception leaves the lock held.
NotConfirmed_KeepsLock(t) ==
    /\ Unconfirmed
    /\ threads[t].pc = "confirm" /\ chain[threads[t].tx].state = "pool"
    /\ Goto(t, "idle")
    /\ UNCHANGED <<ledgerVars, anchors, chain, lock, inFlight, report, tries>>

\* wait_for_confirmation gives up after 6 rounds; the note may still get in.
NotConfirmed(t) ==
    /\ Unconfirmed
    /\ threads[t].pc = "confirm" /\ chain[threads[t].tx].state = "pool"
    /\ Goto(t, "clear")
    /\ UNCHANGED <<ledgerVars, anchors, chain, lock, inFlight, report, tries>>

\* Wrong: the hash recorded is the head's by now.
AnchorRow_LateHash(t) ==
    [seq |-> threads[t].seq, hash |-> ChainHead.hash, sound |-> threads[t].sound,
     tx |-> threads[t].tx]

AnchorRow(t) ==
    [seq |-> threads[t].seq, hash |-> threads[t].hash, sound |-> threads[t].sound,
     tx |-> threads[t].tx]

\* record_anchor: the row and its event in one transaction.
RecordAnchor(t) ==
    /\ threads[t].pc = "record"
    /\ anchors' = Append(anchors, AnchorRow(t))
    /\ AppendLocked([type |-> "anchored", id |-> threads[t].seq, value |-> 0])
    /\ Goto(t, "clear") /\ Watch
    /\ UNCHANGED <<backups, writers, drillers, headEdited, crossed, spent,
                   chain, lock, inFlight, tries>>

\* Accounts, node or database fail; sending may fail after the note got through.
AnchorError(t) ==
    /\ threads[t].pc \in {"send", "record"} /\ tries.errors < MaxErrors
    /\ chain' \in {chain} \cup (IF threads[t].pc = "send"
                                THEN {Append(chain, Note(t))} ELSE {})
    /\ Goto(t, "clear") /\ Try("errors")
    /\ UNCHANGED <<ledgerVars, anchors, lock, inFlight, report>>

ClearFlag(t) ==
    /\ threads[t].pc = "clear"
    /\ inFlight' = FALSE /\ Goto(t, "unlock")
    /\ UNCHANGED <<ledgerVars, anchors, chain, lock, report, tries>>

Release(t) ==
    /\ threads[t].pc = "unlock"
    /\ lock' = NoThread
    /\ threads' = [threads EXCEPT ![t] = IdleThread]
    /\ UNCHANGED <<ledgerVars, anchors, chain, inFlight, report, tries>>

\* What the code does on its own once it has begun.
AnchorStep(t) ==
    \/ CountBacklog(t) \/ Spawn(t) \/ Acquire(t) \/ Busy(t) \/ SetFlag(t)
    \/ NothingToAnchor(t) \/ ReadChainHead(t) \/ Send(t) \/ Confirm(t)
    \/ NotConfirmed(t) \/ RecordAnchor(t) \/ ClearFlag(t) \/ Release(t)

----------------------------------------------------------------------------
(***************************************************************************)
(* External: the chain, the indexer, a rewrite of the database.            *)
(***************************************************************************)
Include(tx) ==
    /\ chain[tx].state = "pool"
    /\ chain' = [chain EXCEPT ![tx].state = "block"]
    /\ UNCHANGED <<ledgerVars, anchors, threads, lock, inFlight, report, tries>>

Index(tx) ==
    /\ chain[tx].state = "block"
    /\ chain' = [chain EXCEPT ![tx].state = "indexed"]
    /\ UNCHANGED <<ledgerVars, anchors, threads, lock, inFlight, report, tries>>

\* One event changes and every hash from there to the head is made to fit.
Rewritten(seq) ==
    LET body(i) == IF i = seq THEN Doctored(events[i].body) ELSE events[i].body
        upTo(n) == [i \in 1 .. n |-> <<i, body(i)>>]
    IN  [i \in DOMAIN events |-> [body |-> body(i), prev |-> upTo(i - 1), hash |-> upTo(i)]]

Rewrite(seq) ==
    /\ tries.rewrites < MaxRewrites
    /\ events' = Rewritten(seq)
    /\ headEdited' = TRUE /\ UNCHANGED written
    /\ Watch /\ Try("rewrites")
    /\ UNCHANGED <<backups, writers, drillers, crossed, spent,
                   anchors, chain, threads, lock, inFlight>>

----------------------------------------------------------------------------
(***************************************************************************)
(* integrity_report: the chain, then the table of anchors, then each       *)
(* anchor, newest first.  The note of an anchor can only become visible    *)
(* with time, so reading it is taken together with hash_at_seq.            *)
(***************************************************************************)
IdleReport == [pc |-> "idle", intact |-> TRUE, todo |-> {},
               failed |-> FALSE, confirmed |-> FALSE, covered |-> {},
               ever |-> {}, always |-> {}, verdict |-> "none"]

VerifyChain ==
    /\ report.pc \in {"idle", "done"} /\ tries.reports < MaxReports
    /\ report' = [IdleReport EXCEPT !.pc = "anchors", !.intact = (Breaks = {}),
                                     !.ever = Altered, !.always = Altered]
    /\ Try("reports")
    /\ UNCHANGED <<ledgerVars, anchors, chain, threads, lock, inFlight>>

Recent == {i \in DOMAIN anchors : i > Len(anchors) - AnchorLimit}

\* The events the checked anchors speak for.
Covered(rows) == UNION {1 .. anchors[i].seq : i \in {j \in rows : anchors[j].sound}}

GetAnchors ==
    /\ report.pc = "anchors"
    /\ report' = [report EXCEPT !.pc = "each", !.todo = Recent,
                                !.covered = Covered(Recent)]
    /\ UNCHANGED <<ledgerVars, anchors, chain, threads, lock, inFlight, tries>>

LocalMatch(a) == a.seq <= Len(events) /\ HashAt(a.seq) = a.hash

Visible(a) == chain[a.tx].state = "indexed"

NoteMatches(a) == chain[a.tx].seq = a.seq /\ chain[a.tx].hash = a.hash

\* Wrong: a note the indexer does not serve yet counts against the anchor.
AnchorOK_NotIndexedFails(a) == LocalMatch(a) /\ Visible(a) /\ NoteMatches(a)

\* Wrong: the events are not hashed again.
AnchorOK_ChainOnly(a) == Visible(a) => NoteMatches(a)

AnchorOK(a) == LocalMatch(a) /\ (Visible(a) => NoteMatches(a))

VerifyAnchor ==
    /\ report.pc = "each"
    /\ \E i \in report.todo :
          /\ \A j \in report.todo : j <= i
          /\ report' = [report EXCEPT
                 !.todo = @ \ {i},
                 !.failed = @ \/ ~AnchorOK(anchors[i]),
                 !.confirmed = @ \/ (AnchorOK(anchors[i]) /\ Visible(anchors[i]))]
    /\ UNCHANGED <<ledgerVars, anchors, chain, threads, lock, inFlight, tries>>

\* Wrong: a fourth verdict, which verify_audit.py has no colour for.
Verdict_Fourth(intact, failed, confirmed) ==
    IF ~intact \/ failed THEN "tampered"
    ELSE IF confirmed THEN "verified" ELSE "unconfirmed"

Verdict(intact, failed, confirmed) ==
    IF ~intact \/ failed THEN "tampered"
    ELSE IF confirmed THEN "verified" ELSE "unanchored"

GiveVerdict ==
    /\ report.pc = "each" /\ report.todo = {}
    /\ report' = [report EXCEPT !.pc = "done",
                     !.verdict = Verdict(report.intact, report.failed, report.confirmed)]
    /\ UNCHANGED <<ledgerVars, anchors, chain, threads, lock, inFlight, tries>>

\* The process dies: the lock, the flag and the threads go, the tables stay.
CrashAll ==
    /\ Crash
    /\ threads' = [t \in Anchorers |-> IdleThread]
    /\ lock' = NoThread /\ inFlight' = FALSE /\ report' = IdleReport
    /\ UNCHANGED <<anchors, chain, tries>>

----------------------------------------------------------------------------
Init ==
    /\ LedgerInit
    /\ anchors = << >> /\ chain = << >>
    /\ threads = [t \in Anchorers |-> IdleThread]
    /\ lock = NoThread /\ inFlight = FALSE
    /\ report = IdleReport
    /\ tries = [plain |-> 0, starts |-> 0, errors |-> 0, reports |-> 0, rewrites |-> 0]

RestAll ==
    /\ LedgerIdle /\ \A t \in Anchorers : threads[t].pc = "idle"
    /\ ~Reporting
    /\ UNCHANGED vars

Next ==
    \/ LedgerThread \/ PlainEvent
    \/ \E t \in Anchorers : Decide(t) \/ Request(t) \/ AnchorStep(t) \/ AnchorError(t)
    \/ \E tx \in DOMAIN chain : Include(tx) \/ Index(tx)
    \/ \E seq \in DOMAIN events : Rewrite(seq)
    \/ VerifyChain \/ GetAnchors \/ VerifyAnchor \/ GiveVerdict
    \/ CrashAll \/ RestAll

Spec == Init /\ [][Next]_vars

\* The threads run, and the node answers or drops the connection.
FairSpec == Spec /\ \A t \in Anchorers : WF_vars(AnchorStep(t))

AnchoringTypeOK ==
    /\ LedgerTypeOK
    /\ anchors \in Seq([seq : Nat, hash : HashSet, sound : BOOLEAN, tx : Nat])
    /\ chain \in Seq([seq : Nat, hash : HashSet, state : {"pool", "block", "indexed"}])
    /\ threads \in [Anchorers ->
          [pc : {"idle", "hook", "due", "start", "flag", "head", "send", "confirm",
                 "record", "clear", "unlock"},
           seq : Nat, hash : HashSet, sound : BOOLEAN, tx : Nat]]
    /\ lock \in Anchorers \cup {NoThread}
    /\ inFlight \in BOOLEAN
    /\ report \in [pc : {"idle", "anchors", "each", "done"}, intact : BOOLEAN,
                   todo : SUBSET Nat, failed : BOOLEAN, confirmed : BOOLEAN,
                   covered : SUBSET Nat, ever : SUBSET Nat, always : SUBSET Nat,
                   verdict : {"none", "verified", "unanchored", "tampered"}]
    /\ tries \in [plain : Nat, starts : Nat, errors : Nat, reports : Nat, rewrites : Nat]
----------------------------------------------------------------------------
(***************************************************************************)
(* What anchoring promises.                                                *)
(***************************************************************************)
\* anchor_now's lock: once a head is recorded as anchored, no later transaction
\* pays to commit to that head, or to one before it.
NoSecondFee ==
    \A i \in DOMAIN anchors, tx \in DOMAIN chain :
       tx > anchors[i].tx => chain[tx].seq > anchors[i].seq

\* record_anchor follows wait_for_confirmation: an anchor in the table is in a
\* block, saying what the table says.
AnchorsPublished ==
    \A i \in DOMAIN anchors : /\ chain[anchors[i].tx].state # "pool"
                              /\ NoteMatches(anchors[i])

\* verify_anchor's local half tells exactly whether an event the anchor covers is
\* altered now, whoever altered it and however hashes were recomputed, for every
\* anchor taken before the newest event was first edited.
AnchorTells ==
    \A i \in DOMAIN anchors :
       anchors[i].sound => (LocalMatch(anchors[i]) <=> Altered \cap 1 .. anchors[i].seq = {})

\* integrity_report misses nothing: an event that was altered from its first read
\* to its verdict, and that a checked anchor covers or the chain can speak for,
\* makes the verdict "tampered".
ReportCatches ==
    (report.pc = "done" /\ report.verdict # "tampered") =>
       /\ report.always \cap report.covered = {}
       /\ ~headEdited => report.always = {}

\* integrity_report raises no false alarm: a slow indexer, an anchor in flight, an
\* append in between are never "tampered".
NoFalseAlarm ==
    report.verdict = "tampered" => report.ever # {} \/ headEdited

\* The finally of anchor_now: no failure keeps the slot for anchoring taken.
SlotFreed == (lock # NoThread) ~> (lock = NoThread)
=============================================================================
