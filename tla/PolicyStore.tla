---------------------------- MODULE PolicyStore ----------------------------
(***************************************************************************)
(* policy_engine/policy_store.py: policy.json, the cached dict and its     *)
(* mtime, and the calls that read and edit them under _lock, while someone *)
(* edits the file by hand.                                                 *)
(*                                                                         *)
(* An edit changes the cached dict itself before it is written, and a      *)
(* write that fails leaves it changed.  The file is replaced by rename;    *)
(* an editor truncates it and fills it again, and what it writes after a   *)
(* rename goes to the file that is no longer there.  Every write of the    *)
(* file gives it an mtime of its own.                                      *)
(***************************************************************************)
EXTENDS Naturals, FiniteSets

CONSTANTS
    Agents,
    Settings,          \* what an agent's entry may hold, defaults filled in
    Missing,           \* the agent has no entry
    Threads, NoThread,
    MaxCalls, MaxSaves, MaxFailures, MaxCrashes

ASSUME PolicyAssumption ==
    /\ Missing \notin Settings
    /\ NoThread \notin Threads
    /\ {MaxCalls, MaxSaves, MaxFailures, MaxCrashes} \subseteq Nat

VARIABLES
    file,              \* policy.json: content, mtime, and whether it can be parsed
    editor,            \* the save by hand that is under way
    cache,             \* _cache; mtime 0 is None, before the first load
    lock,              \* who holds _lock
    threads,           \* the call each thread is in
    intended,          \* history: the policy that acknowledged edits and saves amount to
    unsaved,           \* history: agents with an edit in the dict that was not written
    carried,           \* history: agents whose failed edit a later edit wrote
    clashed,           \* history: a save by hand has overlapped a call that edits
    used               \* how much of each bound has been used

vars == <<file, editor, cache, lock, threads, intended, unsaved, carried, clashed, used>>

Contents == [Agents -> Settings \cup {Missing}]

Blank == [a \in Agents |-> Missing]

\* update_agent (set_frozen too), add_agent, remove_agent.
Edits == [kind : {"update", "add"}, agent : Agents, setting : Settings]
         \cup [kind : {"remove"}, agent : Agents, setting : {Missing}]

GetPolicy == [kind |-> "get"]

Calls == Edits \cup {GetPolicy}

\* A call's during is history: what the file has held since the call began; torn:
\* it fell back on the last good snapshot.
IdleThread == [pc |-> "idle", call |-> GetPolicy, mtime |-> 0, during |-> {}, torn |-> FALSE]

Use1(bound) == used' = [used EXCEPT ![bound] = @ + 1]

Editing == \E t \in Threads : threads[t].pc # "idle" /\ threads[t].call \in Edits

----------------------------------------------------------------------------
(***************************************************************************)
(* _load_locked.                                                           *)
(***************************************************************************)
Loaded == cache.mtime # 0

\* Wrong: what was loaded once is never looked at again.
UpToDate_OnceLoaded == Loaded

UpToDate == Loaded /\ cache.mtime = file.mtime

\* Wrong: nothing is locked.
Free_Always == TRUE

Free == lock = NoThread

\* A call takes the lock and stats the file.
Begin(t, call) ==
    /\ threads[t].pc = "idle" /\ Free
    /\ used.calls < MaxCalls /\ Use1("calls")
    /\ clashed' = (clashed \/ (call \in Edits /\ editor.pc = "filling"))
    /\ lock' = t
    /\ threads' = [threads EXCEPT ![t] =
          [pc |-> IF UpToDate THEN "use" ELSE "read", call |-> call, mtime |-> file.mtime,
           during |-> IF file.whole THEN {file.content} ELSE {}, torn |-> FALSE]]
    /\ UNCHANGED <<file, editor, cache, intended, carried, unsaved>>

Return(t) ==
    /\ lock' = NoThread
    /\ threads' = [threads EXCEPT ![t] = IdleThread]

Read(t) ==
    /\ threads[t].pc = "read" /\ file.whole
    /\ cache' = [data |-> file.content, mtime |-> threads[t].mtime]
    /\ unsaved' = {}
    /\ threads' = [threads EXCEPT ![t].pc = "use"]
    /\ UNCHANGED <<file, editor, lock, intended, carried, clashed, used>>

\* The file cannot be parsed: the last good snapshot, which keeps its mtime.
FallBack(t) ==
    /\ threads[t].pc = "read" /\ ~file.whole /\ Loaded
    /\ threads' = [threads EXCEPT ![t].pc = "use", ![t].torn = TRUE]
    /\ UNCHANGED <<file, editor, cache, lock, intended, carried, clashed, unsaved, used>>

ReadFails(t) ==
    /\ threads[t].pc = "read" /\ ~file.whole /\ ~Loaded
    /\ Return(t)
    /\ UNCHANGED <<file, editor, cache, intended, carried, clashed, unsaved, used>>

----------------------------------------------------------------------------
(***************************************************************************)
(* get_policy, and what the edits do with the dict they got.               *)
(***************************************************************************)
Get(t) ==
    /\ threads[t].pc = "use" /\ threads[t].call \notin Edits
    /\ Return(t)
    /\ UNCHANGED <<file, editor, cache, intended, carried, clashed, unsaved, used>>

Allowed(call) == (cache.data[call.agent] = Missing) <=> (call.kind = "add")

\* Wrong: the entry is set before the call finds that it may not be.
Refuse_TooLate(t) ==
    /\ threads[t].pc = "use" /\ threads[t].call \in Edits /\ ~Allowed(threads[t].call)
    /\ cache' = [cache EXCEPT !.data[threads[t].call.agent] = threads[t].call.setting]
    /\ Return(t)
    /\ UNCHANGED <<file, editor, intended, carried, clashed, unsaved, used>>

\* KeyError, or the agent exists already.
Refuse(t) ==
    /\ threads[t].pc = "use" /\ threads[t].call \in Edits /\ ~Allowed(threads[t].call)
    /\ Return(t)
    /\ UNCHANGED <<file, editor, cache, intended, carried, clashed, unsaved, used>>

Edited(call) == [cache EXCEPT !.data[call.agent] = call.setting]

Apply(t) ==
    /\ threads[t].pc = "use" /\ threads[t].call \in Edits /\ Allowed(threads[t].call)
    /\ cache' = Edited(threads[t].call)
    /\ threads' = [threads EXCEPT ![t].pc = "write"]
    /\ UNCHANGED <<file, editor, lock, intended, carried, clashed, unsaved, used>>

\* Disk full, or the directory is not writable.
WriteFails(t) ==
    /\ threads[t].pc = "write" /\ used.failures < MaxFailures
    /\ Use1("failures")
    /\ unsaved' = unsaved \cup {threads[t].call.agent}
    /\ Return(t)
    /\ UNCHANGED <<file, editor, cache, intended, carried, clashed>>

\* Every call that is under way has now seen this content.
Witnessed(content) ==
    [t \in Threads |-> IF threads[t].pc = "idle" THEN threads[t]
                       ELSE [threads[t] EXCEPT !.during = @ \cup {content}]]

\* Only update_agent leaves the rest of an entry as it is.
Replaced(call) == IF call.kind = "update" THEN {} ELSE {call.agent}

\* os.replace: the edit, and any earlier one that could not be written and whose
\* caller was told that it had failed.
Replace(t) ==
    /\ threads[t].pc = "write"
    /\ file' = [content |-> cache.data, whole |-> TRUE, mtime |-> file.mtime + 1]
    /\ editor' = [editor EXCEPT !.cutOff = (editor.pc = "filling")]
    /\ intended' = [intended EXCEPT ![threads[t].call.agent] = threads[t].call.setting]
    /\ carried' = (carried \cup unsaved) \ Replaced(threads[t].call)
    /\ unsaved' = {}
    /\ threads' = [Witnessed(cache.data) EXCEPT ![t].pc = "stamp"]
    /\ UNCHANGED <<cache, lock, clashed, used>>

\* The mtime, read after the rename.
Stamp(t) ==
    /\ threads[t].pc = "stamp"
    /\ cache' = [cache EXCEPT !.mtime = file.mtime]
    /\ Return(t)
    /\ UNCHANGED <<file, editor, intended, carried, clashed, unsaved, used>>

----------------------------------------------------------------------------
(***************************************************************************)
(* External: someone saves the file by hand.                               *)
(***************************************************************************)
Truncate(content) ==
    /\ editor.pc = "idle" /\ used.saves < MaxSaves /\ Use1("saves")
    /\ clashed' = (clashed \/ Editing)
    /\ editor' = [pc |-> "filling", content |-> content, cutOff |-> FALSE]
    /\ file' = [file EXCEPT !.whole = FALSE, !.mtime = @ + 1]
    /\ UNCHANGED <<cache, lock, threads, intended, carried, unsaved>>

Fill ==
    /\ editor.pc = "filling"
    /\ IF editor.cutOff
       THEN UNCHANGED <<file, threads>>
       ELSE /\ file' = [content |-> editor.content, whole |-> TRUE, mtime |-> file.mtime + 1]
            /\ threads' = Witnessed(editor.content)
    /\ intended' = editor.content /\ carried' = {}
    /\ editor' = [editor EXCEPT !.pc = "idle", !.cutOff = FALSE]
    /\ UNCHANGED <<cache, lock, unsaved, clashed, used>>

\* The engine dies; the file is as the last rename or save left it.
Crash ==
    /\ used.crashes < MaxCrashes /\ Use1("crashes")
    /\ cache' = [data |-> Blank, mtime |-> 0]
    /\ lock' = NoThread
    /\ threads' = [t \in Threads |-> IdleThread]
    /\ unsaved' = {}
    /\ UNCHANGED <<file, editor, intended, carried, clashed>>

Init ==
    /\ file \in [content : Contents, whole : {TRUE}, mtime : {1}]
    /\ intended = file.content
    /\ editor = [pc |-> "idle", content |-> file.content, cutOff |-> FALSE]
    /\ cache = [data |-> Blank, mtime |-> 0]
    /\ lock = NoThread
    /\ threads = [t \in Threads |-> IdleThread]
    /\ unsaved = {} /\ carried = {} /\ clashed = FALSE
    /\ used = [calls |-> 0, saves |-> 0, failures |-> 0, crashes |-> 0]

Rest == lock = NoThread /\ editor.pc = "idle" /\ UNCHANGED vars

Step(t) ==
    \/ Read(t) \/ FallBack(t) \/ ReadFails(t)
    \/ Get(t) \/ Refuse(t) \/ Apply(t) \/ WriteFails(t) \/ Replace(t) \/ Stamp(t)

Next ==
    \/ \E t \in Threads, call \in Calls : Begin(t, call)
    \/ \E t \in Threads : Step(t)
    \/ \E content \in Contents : Truncate(content)
    \/ Fill \/ Crash \/ Rest

Spec == Init /\ [][Next]_vars

\* The lock is held by the one thread that is in a call.
PolicyTypeOK ==
    /\ file \in [content : Contents, whole : BOOLEAN, mtime : Nat \ {0}]
    /\ editor \in [pc : {"idle", "filling"}, content : Contents, cutOff : BOOLEAN]
    /\ cache \in [data : Contents, mtime : Nat]
    /\ threads \in [Threads -> [pc : {"idle", "read", "use", "write", "stamp"}, call : Calls,
                                mtime : Nat, during : SUBSET Contents, torn : BOOLEAN]]
    /\ \A t \in Threads : threads[t].pc # "idle" <=> lock = t
    /\ lock \in Threads \cup {NoThread}
    /\ intended \in Contents
    /\ unsaved \subseteq Agents /\ carried \subseteq Agents
    /\ clashed \in BOOLEAN
----------------------------------------------------------------------------
(***************************************************************************)
(* What the store promises until a save by hand overlaps a call that       *)
(* edits: the lock is not the editor's.                                    *)
(***************************************************************************)
\* Between calls, a cache that will not be reloaded holds what the file holds, but
\* for edits that could not be written.
CacheIsFile ==
    (~clashed /\ lock = NoThread /\ UpToDate) =>
       file.whole /\ \A a \in Agents \ unsaved : cache.data[a] = file.content[a]

\* "Hand-editing the file takes effect on the next request": a call works on a
\* policy that the file held while the call ran, unless the file was half written
\* when it looked, or an edit is in force that could not be written.
ServedIsCurrent ==
    ~clashed => \A t \in Threads : threads[t].pc = "use" =>
       \/ cache.data \in threads[t].during
       \/ threads[t].torn \/ unsaved # {}

\* Edits persist: the file holds what the acknowledged edits and the saves by hand,
\* in their order, amount to; none of them undoes another, and a crash takes none.
\* The exception is an entry whose edit was reported as failed and went to the file
\* with a later edit.
NothingLost == ~clashed => \A a \in Agents \ carried : file.content[a] = intended[a]
=============================================================================
