---------------------------- MODULE AuditLedger ----------------------------
(***************************************************************************)
(* The hash-chained audit ledger of policy_engine/storage.py: the tables   *)
(* "audit_events" and "tamper_backups", the two ways in which an event is  *)
(* appended, verify_chain and hash_at_seq, and the tamper drill of         *)
(* /admin/demo with its restore.                                           *)
(*                                                                         *)
(* The request log appends its events inside the transaction that changes  *)
(* a row, and that transaction has written before it looks at the head.    *)
(* append_event, used for everything else, opens a transaction of its own: *)
(* Python's sqlite3 begins it at the INSERT, so the head is read before    *)
(* the write lock is taken.  The drill and the restore read first too.     *)
(*                                                                         *)
(* SHA-256 is taken to be free of collisions: a hash is what it commits    *)
(* to, the sequence of (seq, body) pairs hashed so far.                    *)
(***************************************************************************)
EXTENDS Integers, Sequences, FiniteSets

CONSTANTS
    Writers,           \* threads that append with append_event
    Drillers,          \* threads that serve the demo's tamper and restore
    MaxEvents,         \* bound on the ledger's length for requests' events
    MaxChanges, MaxDrills, MaxCrashes

ASSUME LedgerAssumption ==
    {MaxEvents, MaxChanges, MaxDrills, MaxCrashes} \subseteq Nat

VARIABLES
    events,            \* audit_events, by seq: nothing deletes from it
    written,           \* history: the bodies as they were appended
    backups,           \* tamper_backups, by id
    writers,           \* what each append_event is doing
    drillers,          \* what each drill or restore is doing
    headEdited,        \* history: the drill has hit an event nothing followed yet
    crossed,           \* history: the events a drill of which overlapped a restore
    spent              \* how much of each bound has been used

ledgerVars ==
    <<events, written, backups, writers, drillers, headEdited, crossed, spent>>

(***************************************************************************)
(* Events.  A body is timestamp, type and payload: value stands for the    *)
(* payload field a drill overwrites, id for whose event it is.             *)
(***************************************************************************)
Body == [type : {"request", "change", "anchored"}, id : Nat, value : Nat]

Genesis == << >>

HashSet == Seq(Nat \X Body)

\* Wrong: the link does not commit to the history before it.
Hash_NoPrev(seq, body, prev) == << <<seq, body>> >>

Hash(seq, body, prev) == Append(prev, <<seq, body>>)

Event == [body : Body, prev : HashSet, hash : HashSet]

\* get_chain_head, and the first lines of _append_event_locked.
ChainHead == IF events = << >> THEN [seq |-> 0, hash |-> Genesis]
                          ELSE [seq |-> Len(events), hash |-> events[Len(events)].hash]

Link(head, body) ==
    [body |-> body, prev |-> head.hash, hash |-> Hash(head.seq + 1, body, head.hash)]

Add(head, body) ==
    /\ events' = Append(events, Link(head, body))
    /\ written' = Append(written, body)

\* _append_event_locked in a transaction that already has the write lock.
AppendLocked(body) == Add(ChainHead, body)

----------------------------------------------------------------------------
(***************************************************************************)
(* Verification.                                                           *)
(***************************************************************************)
EntryHash(seq) == IF seq = 0 THEN Genesis ELSE events[seq].hash

\* The events verify_chain objects to: it reports the first of them.  Its check
\* for a gap in seq has nothing to find here: seq is the place in the sequence,
\* and no statement of the program deletes an event.
Breaks ==
    {s \in DOMAIN events :
        \/ events[s].prev # EntryHash(s - 1)
        \/ events[s].hash # Hash(s, events[s].body, events[s].prev)}

\* hash_at_seq: hashed again from the bodies alone.
HashAt(seq) == [i \in 1 .. seq |-> <<i, events[i].body>>]

----------------------------------------------------------------------------
(***************************************************************************)
(* Appending.                                                              *)
(***************************************************************************)
IdleWriter == [pc |-> "idle", change |-> 0, head |-> [seq |-> 0, hash |-> Genesis]]

Spend1(bound) == spent' = [spent EXCEPT ![bound] = @ + 1]

\* log_request, try_reserve, finalize, reset and reap_stale_reservations.
RecordRequest ==
    /\ Len(events) < MaxEvents
    /\ AppendLocked([type |-> "request", id |-> 0, value |-> 0])
    /\ UNCHANGED <<backups, writers, drillers, headEdited, crossed, spent>>

\* A handler makes its change (policy.json, the agent list) before it logs it.
MakeChange(w) ==
    /\ writers[w].pc = "idle" /\ spent.changes < MaxChanges
    /\ writers' = [writers EXCEPT ![w].pc = "read", ![w].change = spent.changes + 1]
    /\ Spend1("changes")
    /\ UNCHANGED <<events, written, backups, drillers, headEdited, crossed>>

ReadHead(w) ==
    /\ writers[w].pc = "read"
    /\ writers' = [writers EXCEPT ![w].pc = "insert", ![w].head = ChainHead]
    /\ UNCHANGED <<events, written, backups, drillers, headEdited, crossed, spent>>

ChangeBody(w) == [type |-> "change", id |-> writers[w].change, value |-> 0]

InsertEvent(w) ==
    /\ writers[w].pc = "insert" /\ writers[w].head.seq = Len(events)
    /\ Add(writers[w].head, ChangeBody(w))
    /\ writers' = [writers EXCEPT ![w] = IdleWriter]
    /\ UNCHANGED <<backups, drillers, headEdited, crossed, spent>>

\* Someone has taken the seq: the INSERT violates the primary key, the handler
\* fails with its change made.
InsertFails(w) ==
    /\ writers[w].pc = "insert" /\ writers[w].head.seq # Len(events)
    /\ writers' = [writers EXCEPT ![w] = IdleWriter]
    /\ UNCHANGED <<events, written, backups, drillers, headEdited, crossed, spent>>

----------------------------------------------------------------------------
(***************************************************************************)
(* The drill.  The endpoint picks an event, and never writes a value that  *)
(* is already there; the choice and tamper_with_event's SELECT are one     *)
(* read here.                                                              *)
(***************************************************************************)
NoEvent == [body |-> [type |-> "request", id |-> 0, value |-> 0],
            prev |-> Genesis, hash |-> Genesis]

IdleDriller == [pc |-> "idle", seq |-> 0, row |-> NoEvent, rows |-> << >>]

\* Wrong: shrinks the value it finds, whatever it is.
Other_Shrinks(value) == value - 1

Other(value) == IF value = 1 THEN 2 ELSE 1

Doctored(body) == [body EXCEPT !.value = Other(@)]

PickEvent(d, seq) ==
    /\ drillers[d].pc = "idle" /\ spent.drills < MaxDrills
    /\ drillers' = [drillers EXCEPT ![d].pc = "tamper", ![d].seq = seq,
                                    ![d].row = events[seq]]
    /\ Spend1("drills")
    /\ UNCHANGED <<events, written, backups, writers, headEdited, crossed>>

\* Wrong: the event keeps its hash and is found at its own seq.
TamperedEvent_KeepsHash(seq, row) == [row EXCEPT !.body = Doctored(@)]

\* The edited event, with its own hash made to fit.
TamperedEvent(seq, row) ==
    [row EXCEPT !.body = Doctored(@), !.hash = Hash(seq, Doctored(row.body), row.prev)]

\* Threads that have read the backups and not put them back yet.
Restorers == {d \in Drillers : drillers[d].pc = "restore"}

\* Threads that have read the event they are about to alter.
Tamperers == {d \in Drillers : drillers[d].pc = "tamper"}

Tamper(d) ==
    LET seq == drillers[d].seq
        row == drillers[d].row
    IN  /\ drillers[d].pc = "tamper"
        /\ backups' = Append(backups, [seq |-> seq, body |-> row.body, hash |-> row.hash])
        /\ events' = [events EXCEPT ![seq] = TamperedEvent(seq, row)]
        /\ headEdited' = (headEdited \/ seq = Len(events))
        /\ crossed' = crossed \cup {s \in {seq} : Restorers # {}}
        /\ drillers' = [drillers EXCEPT ![d] = IdleDriller]
        /\ UNCHANGED <<written, writers, spent>>

ReadBackups(d) ==
    /\ drillers[d].pc = "idle" /\ spent.drills < MaxDrills
    /\ drillers' = [drillers EXCEPT ![d].pc = "restore", ![d].rows = backups]
    /\ Spend1("drills")
    /\ UNCHANGED <<events, written, backups, writers, headEdited, crossed>>

BackedUp(rows, seq) == {i \in DOMAIN rows : rows[i].seq = seq}

\* Wrong: oldest first, so the newest backup of an event is what stays.
LastApplied_OldestFirst(rows, seq) ==
    CHOOSE i \in BackedUp(rows, seq) : \A j \in BackedUp(rows, seq) : j <= i

\* Newest first: the oldest backup of an event is the one that stays.
LastApplied(rows, seq) ==
    CHOOSE i \in BackedUp(rows, seq) : \A j \in BackedUp(rows, seq) : i <= j

RestoredEvent(rows, seq) ==
    IF BackedUp(rows, seq) = {} THEN events[seq]
    ELSE [events[seq] EXCEPT !.body = rows[LastApplied(rows, seq)].body,
                             !.hash = rows[LastApplied(rows, seq)].hash]

\* The DELETE takes every backup, the ones made since they were read included.
Restore(d) ==
    /\ drillers[d].pc = "restore"
    /\ events' = [seq \in DOMAIN events |-> RestoredEvent(drillers[d].rows, seq)]
    /\ backups' = << >>
    /\ drillers' = [drillers EXCEPT ![d] = IdleDriller]
    /\ crossed' = crossed \cup {drillers[e].seq : e \in Tamperers}
    /\ UNCHANGED <<written, writers, headEdited, spent>>

\* The process dies: the tables stay.
LedgerCrash ==
    /\ writers' = [w \in Writers |-> IdleWriter]
    /\ drillers' = [d \in Drillers |-> IdleDriller]
    /\ UNCHANGED <<events, written, backups, headEdited, crossed>>

Crash ==
    /\ spent.crashes < MaxCrashes
    /\ LedgerCrash
    /\ Spend1("crashes")
----------------------------------------------------------------------------
LedgerInit ==
    /\ events = << >> /\ written = << >> /\ backups = << >>
    /\ writers = [w \in Writers |-> IdleWriter]
    /\ drillers = [d \in Drillers |-> IdleDriller]
    /\ headEdited = FALSE /\ crossed = {}
    /\ spent = [changes |-> 0, drills |-> 0, crashes |-> 0]

Write(w) == MakeChange(w) \/ ReadHead(w) \/ InsertEvent(w) \/ InsertFails(w)

Drill(d) == \/ \E seq \in DOMAIN events : PickEvent(d, seq)
            \/ Tamper(d) \/ ReadBackups(d) \/ Restore(d)

LedgerStep ==
    \/ RecordRequest
    \/ \E w \in Writers : Write(w)
    \/ \E d \in Drillers : Drill(d)

LedgerIdle ==
    /\ \A w \in Writers : writers[w].pc = "idle"
    /\ \A d \in Drillers : drillers[d].pc = "idle"

\* Every thread waits for the next request.
Rest == LedgerIdle /\ UNCHANGED ledgerVars

LedgerNext == LedgerStep \/ Crash \/ Rest

LedgerSpec == LedgerInit /\ [][LedgerNext]_ledgerVars

Backup == [seq : Nat, body : Body, hash : HashSet]

HeadRead == [seq : Nat, hash : HashSet]

LedgerTypeOK ==
    /\ events \in Seq(Event)
    /\ written \in Seq(Body)
    /\ backups \in Seq(Backup)
    /\ writers \in [Writers -> [pc : {"idle", "read", "insert"}, change : Nat,
                                head : HeadRead]]
    /\ drillers \in [Drillers -> [pc : {"idle", "tamper", "restore"}, seq : Nat,
                                  row : Event, rows : Seq(Backup)]]
    /\ headEdited \in BOOLEAN
    /\ crossed \subseteq Nat
    /\ spent \in [changes : Nat, drills : Nat, crashes : Nat]
----------------------------------------------------------------------------
(***************************************************************************)
(* What the ledger promises.                                               *)
(***************************************************************************)
Altered == {s \in DOMAIN events : events[s].body # written[s]}

\* verify_chain reports the event after an altered one, for every altered event
\* and for no other, however appends, drills and restores interleave: so a ledger
\* nobody altered verifies.  The exception its docstring names: an edit of the
\* last event.
TamperLocated == ~headEdited => Breaks = {s + 1 : s \in Altered}

\* The undo log: every altered event can be put back, to its body as it was
\* written, whatever drills overlap drills and restores overlap restores.  What
\* can be lost is an event one of whose drills overlapped a restore: the drill
\* backs up what it read before the restore, or the restore deletes a backup it
\* has not read.
Restorable ==
    \A s \in Altered \ crossed : /\ BackedUp(backups, s) # {}
                       /\ backups[LastApplied(backups, s)].body = written[s]

\* The hash of the newest event commits to every event as it was written, the
\* altered ones included: it is what an anchor publishes.
History(seq) == [i \in 1 .. seq |-> <<i, written[i]>>]

HeadCommits == ~headEdited => ChainHead.hash = History(Len(events))

\* Every change a handler has made is in the ledger once the handler is done:
\* freeze_agent says that both directions land there.
ChangesLogged ==
    \A n \in 1 .. spent.changes :
       \/ \E w \in Writers : writers[w].change = n
       \/ \E s \in DOMAIN written : written[s].type = "change" /\ written[s].id = n
=============================================================================
