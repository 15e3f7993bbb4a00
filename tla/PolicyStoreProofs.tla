------------------------- MODULE PolicyStoreProofs -------------------------
(***************************************************************************)
(* Proofs about PolicyStore, for any agents, settings and threads, and     *)
(* whatever the saves by hand do.                                          *)
(***************************************************************************)
EXTENDS PolicyStore, TLAPS

Agree(except) == \A a \in Agents \ except : cache.data[a] = file.content[a]

WholeBetweenSaves == (file.whole = TRUE <=> editor.pc = "idle") /\ editor.cutOff = FALSE

Times == cache.mtime <= file.mtime /\ \A t \in Threads : threads[t].mtime <= file.mtime

EditsAlone ==
    \A t \in Threads :
       /\ threads[t].pc # "idle" /\ threads[t].call \in Edits => editor.pc = "idle"
       /\ threads[t].pc \in {"write", "stamp"} => threads[t].call \in Edits

CacheFits ==
    UpToDate /\ (\A t \in Threads : threads[t].pc # "write") =>
       file.whole = TRUE /\ Agree(unsaved)

\* What an edit is about to write, or has written, is the file's content but for
\* its own agent and the edits that could not be written.
EditFits ==
    \A t \in Threads :
       /\ threads[t].pc = "use" /\ threads[t].call \in Edits => Agree(unsaved)
       /\ threads[t].pc = "write" =>
             /\ Agree(unsaved \cup {threads[t].call.agent})
             /\ cache.data[threads[t].call.agent] = threads[t].call.setting
       /\ threads[t].pc = "stamp" => Agree({}) /\ unsaved = {}

Seen ==
    \A t \in Threads :
       threads[t].pc # "idle" /\ file.whole = TRUE => file.content \in threads[t].during

StoreInv ==
    /\ clashed = FALSE /\ PolicyTypeOK /\ NothingLost /\ WholeBetweenSaves /\ Times /\ EditsAlone
    /\ CacheFits /\ EditFits /\ Seen /\ ServedIsCurrent
----------------------------------------------------------------------------
\* Two contents that agree everywhere are one.
LEMMA SameContent ==
    ASSUME NEW c \in Contents, NEW d \in Contents, \A a \in Agents : c[a] = d[a]
    PROVE  c = d
  BY DEF Contents

\* Only the holder of the lock is in a call.
LEMMA OneAtATime ==
    ASSUME PolicyTypeOK, NEW t \in Threads, threads[t].pc # "idle"
    PROVE  lock = t /\ \A u \in Threads \ {t} : threads[u].pc = "idle"
  BY DEF PolicyTypeOK

ThreadState == [pc : {"idle", "read", "use", "write", "stamp"}, call : Calls,
                mtime : Nat, during : SUBSET Contents, torn : BOOLEAN]

LEMMA IdleTyped ==
    /\ IdleThread \in ThreadState /\ IdleThread.pc = "idle" /\ IdleThread.mtime = 0
    /\ Blank \in Contents
  BY DEF IdleThread, ThreadState, Calls, Contents, Blank

LEMMA EditTyped ==
    ASSUME NEW call \in Edits
    PROVE  call.agent \in Agents /\ call.setting \in Settings \cup {Missing}
  BY DEF Edits

LEMMA StoreInit == Init => StoreInv
<1> SUFFICES ASSUME Init PROVE StoreInv
  OBVIOUS
<1>1. /\ file \in [content : Contents, whole : {TRUE}, mtime : {1}]
      /\ intended = file.content /\ lock = NoThread /\ unsaved = {}
      /\ carried = {} /\ clashed = FALSE
      /\ editor = [pc |-> "idle", content |-> file.content, cutOff |-> FALSE]
      /\ cache = [data |-> Blank, mtime |-> 0]
      /\ threads = [t \in Threads |-> IdleThread]
  BY DEF Init
<1>2. PolicyTypeOK
  <2>1. threads \in [Threads -> ThreadState]
    BY <1>1, IdleTyped
  <2>2. \A t \in Threads : threads[t].pc = "idle" /\ lock # t
    BY <1>1, IdleTyped, PolicyAssumption
  <2>3. /\ file \in [content : Contents, whole : BOOLEAN, mtime : Nat \ {0}]
        /\ file.content \in Contents
    <3>1. TRUE \in BOOLEAN /\ 1 \in Nat \ {0}
      OBVIOUS
    <3> QED
      BY <1>1, <3>1, Zenon
  <2>4. editor \in [pc : {"idle", "filling"}, content : Contents, cutOff : BOOLEAN]
    BY <1>1, <2>3
  <2>5. cache \in [data : Contents, mtime : Nat]
    BY <1>1, IdleTyped
  <2> QED
    BY <1>1, <2>1, <2>2, <2>3, <2>4, <2>5 DEF PolicyTypeOK, ThreadState
<1>3. NothingLost /\ WholeBetweenSaves /\ CacheFits
  BY <1>1 DEF NothingLost, WholeBetweenSaves, CacheFits, UpToDate, Loaded
<1>4. \A t \in Threads : threads[t].pc = "idle" /\ threads[t].mtime = 0
  BY <1>1, IdleTyped
<1>5. Times
  BY <1>1, <1>4 DEF Times
<1>6. EditsAlone /\ EditFits /\ Seen /\ ServedIsCurrent
  BY <1>4 DEF EditsAlone, EditFits, Seen, ServedIsCurrent
<1> QED
  BY <1>1, <1>2, <1>3, <1>5, <1>6 DEF StoreInv
----------------------------------------------------------------------------
(***************************************************************************)
(* A thread's step: it goes on as "next", or returns, and everyone else is *)
(* idle.  What has to hold of the thread afterwards is the hypothesis.     *)
(***************************************************************************)
LEMMA ThreadsTyped ==
    ASSUME PolicyTypeOK, NEW t \in Threads, threads[t].pc # "idle",
           NEW next \in ThreadState, threads' = [threads EXCEPT ![t] = next],
           lock' = IF next.pc = "idle" THEN NoThread ELSE t
    PROVE  /\ threads' \in [Threads -> ThreadState]
           /\ \A u \in Threads : threads'[u].pc # "idle" <=> lock' = u
           /\ lock' \in Threads \cup {NoThread}
           /\ threads'[t] = next
           /\ \A u \in Threads \ {t} : threads'[u] = threads[u] /\ threads'[u].pc = "idle"
<1>1. threads \in [Threads -> ThreadState]
  BY DEF PolicyTypeOK, ThreadState
<1>2. \A u \in Threads \ {t} : threads[u].pc = "idle"
  BY OneAtATime
<1>3. threads' \in [Threads -> ThreadState]
  BY <1>1
<1>4. threads'[t] = next /\ \A u \in Threads \ {t} : threads'[u] = threads[u]
  BY <1>1
<1> QED
  BY <1>2, <1>3, <1>4, PolicyAssumption

\* A call that returns leaves nothing to hold but the cache.
LEMMA ReturnKeeps ==
    ASSUME StoreInv, NEW t \in Threads, threads[t].pc # "idle", Return(t),
           UNCHANGED <<file, editor, intended, carried, clashed>>, cache' \in [data : Contents, mtime : Nat],
           unsaved' \subseteq Agents, cache'.mtime <= file.mtime,
           UpToDate' => file.whole = TRUE /\ Agree(unsaved)'
    PROVE  StoreInv'
<1> USE DEF StoreInv
<1>1. IdleThread \in ThreadState /\ IdleThread.pc = "idle" /\ IdleThread.mtime = 0
  BY IdleTyped
<1>2. threads' = [threads EXCEPT ![t] = IdleThread] /\ lock' = NoThread
  BY DEF Return
<1> HIDE DEF IdleThread
<1>3. /\ threads' \in [Threads -> ThreadState]
      /\ \A u \in Threads : threads'[u].pc # "idle" <=> lock' = u
      /\ lock' \in Threads \cup {NoThread}
      /\ threads'[t] = IdleThread
      /\ \A u \in Threads \ {t} : threads'[u] = threads[u] /\ threads'[u].pc = "idle"
  BY <1>1, <1>2, ThreadsTyped
<1>4. \A u \in Threads : threads'[u].pc = "idle"
  BY <1>1, <1>3
<1>5. PolicyTypeOK'
  BY <1>3 DEF PolicyTypeOK, ThreadState
<1>6. NothingLost' /\ WholeBetweenSaves' /\ CacheFits'
  BY DEF NothingLost, WholeBetweenSaves, CacheFits
<1>7. Times'
  <2>1. \A u \in Threads : threads'[u].mtime <= file.mtime
    BY <1>1, <1>3 DEF Times, PolicyTypeOK
  <2> QED
    BY <2>1 DEF Times
<1>8. EditsAlone' /\ EditFits' /\ Seen' /\ ServedIsCurrent'
  BY <1>4 DEF EditsAlone, EditFits, Seen, ServedIsCurrent
<1> QED
  BY <1>5, <1>6, <1>7, <1>8

\* What a call that goes on does to the thread's part of the invariant.
ThreadFits(t) ==
    /\ threads[t].mtime <= file.mtime
    /\ threads[t].call \in Edits => editor.pc = "idle"
    /\ threads[t].pc \in {"write", "stamp"} => threads[t].call \in Edits
    /\ threads[t].pc = "use" /\ threads[t].call \in Edits => Agree(unsaved)
    /\ threads[t].pc = "write" =>
          /\ Agree(unsaved \cup {threads[t].call.agent})
          /\ cache.data[threads[t].call.agent] = threads[t].call.setting
    /\ threads[t].pc = "stamp" => Agree({}) /\ unsaved = {}
    /\ file.whole = TRUE => file.content \in threads[t].during
    /\ threads[t].pc = "use" =>
          cache.data \in threads[t].during \/ threads[t].torn = TRUE \/ unsaved # {}

LEMMA HolderFits ==
    ASSUME StoreInv, NEW t \in Threads, threads[t].pc # "idle"
    PROVE  ThreadFits(t)
  BY DEF StoreInv, ThreadFits, Times, EditsAlone, EditFits, Seen, ServedIsCurrent,
         PolicyTypeOK

\* After a step, the invariant is about the thread that holds the lock.
LEMMA OnlyHolderMatters ==
    ASSUME clashed' = FALSE, PolicyTypeOK', NothingLost', WholeBetweenSaves', CacheFits',
           cache'.mtime <= file'.mtime, NEW t \in Threads, threads'[t].pc # "idle",
           \A u \in Threads : threads'[u].mtime <= file'.mtime, ThreadFits(t)'
    PROVE  StoreInv'
<1>1. \A u \in Threads \ {t} : threads'[u].pc = "idle"
  BY DEF PolicyTypeOK
<1>2. EditsAlone' /\ EditFits'
  <2>1. \A u \in Threads : threads'[u].pc \in {"write", "stamp", "use"} => u = t
    BY <1>1
  <2> QED
    BY <1>1, <2>1 DEF EditsAlone, EditFits, ThreadFits
<1>3. Seen' /\ ServedIsCurrent'
  <2>1. threads'[t].torn \in BOOLEAN
    BY DEF PolicyTypeOK
  <2> QED
    BY <1>1, <2>1 DEF Seen, ServedIsCurrent, ThreadFits
<1> QED
  BY <1>2, <1>3 DEF StoreInv, Times
----------------------------------------------------------------------------
(***************************************************************************)
(* The steps.                                                              *)
(***************************************************************************)
LEMMA BeginKeeps ==
    ASSUME StoreInv, clashed' = FALSE, NEW t \in Threads, NEW call \in Calls, Begin(t, call)
    PROVE  StoreInv'
<1> USE DEF StoreInv
<1> DEFINE seen == IF file.whole THEN {file.content} ELSE {}
           entered == [pc |-> IF UpToDate THEN "use" ELSE "read", call |-> call,
                       mtime |-> file.mtime, during |-> seen, torn |-> FALSE]
<1>1. /\ threads' = [threads EXCEPT ![t] = entered] /\ lock' = t /\ lock = NoThread
      /\ UNCHANGED <<file, editor, cache, intended, carried, unsaved>>
  BY DEF Begin, Free
<1>0. call \in Edits => editor.pc = "idle"
  <2>1. editor.pc \in {"idle", "filling"}
    BY DEF PolicyTypeOK
  <2>2. ~(call \in Edits /\ editor.pc = "filling")
    BY Zenon DEF Begin
  <2> QED
    BY <2>1, <2>2
<1>2. /\ file.content \in Contents /\ file.mtime \in Nat /\ file.whole \in BOOLEAN
      /\ cache.data \in Contents /\ cache.mtime \in Nat
      /\ threads \in [Threads -> ThreadState]
  BY DEF PolicyTypeOK, ThreadState
<1>3. seen \in SUBSET Contents /\ (file.whole = TRUE => file.content \in seen)
  BY <1>2
<1> HIDE DEF seen
<1>4. /\ entered \in ThreadState /\ entered.call = call /\ entered.mtime = file.mtime
      /\ entered.during = seen /\ entered.pc = IF UpToDate THEN "use" ELSE "read"
  BY <1>2, <1>3 DEF ThreadState
<1> HIDE DEF entered
<1>5. \A u \in Threads : threads[u].pc = "idle"
  BY <1>1, PolicyAssumption DEF PolicyTypeOK
<1>6. /\ threads' \in [Threads -> ThreadState] /\ threads'[t] = entered
      /\ \A u \in Threads \ {t} : threads'[u] = threads[u]
  BY <1>1, <1>2, <1>4
<1>7. PolicyTypeOK'
  BY <1>1, <1>4, <1>5, <1>6, PolicyAssumption DEF PolicyTypeOK, ThreadState
<1>8. NothingLost' /\ WholeBetweenSaves'
  BY <1>1 DEF NothingLost, WholeBetweenSaves
<1>9. UpToDate' <=> UpToDate
  BY <1>1 DEF UpToDate, Loaded
<1>10. UpToDate => file.whole = TRUE /\ Agree(unsaved)
  BY <1>5 DEF CacheFits
<1>11. CacheFits'
  BY <1>1, <1>9, <1>10 DEF CacheFits, Agree
<1>12. UpToDate /\ unsaved = {} => cache.data = file.content
  BY <1>2, <1>10, SameContent DEF Agree
<1>13. ThreadFits(t)'
  BY <1>0, <1>1, <1>3, <1>4, <1>6, <1>10, <1>12, <1>2 DEF ThreadFits, Agree
<1>14. cache'.mtime <= file'.mtime /\ \A u \in Threads : threads'[u].mtime <= file'.mtime
  BY <1>1, <1>2, <1>4, <1>6 DEF Times
<1>15. threads'[t].pc # "idle"
  BY <1>4, <1>6
<1> QED
  BY <1>7, <1>8, <1>11, <1>13, <1>14, <1>15, OnlyHolderMatters

\* A call that goes on, with the file as it is.
LEMMA GoesOnKeeps ==
    ASSUME StoreInv, NEW t \in Threads, threads[t].pc # "idle",
           NEW next \in ThreadState, next.pc # "idle",
           threads' = [threads EXCEPT ![t] = next], UNCHANGED lock,
           UNCHANGED <<file, editor, intended, carried, clashed>>, cache' \in [data : Contents, mtime : Nat],
           unsaved' \subseteq Agents, cache'.mtime <= file.mtime,
           next.mtime = threads[t].mtime, next.call = threads[t].call,
           next.during = threads[t].during,
           next.pc \in {"write", "stamp"} => next.call \in Edits,
           next.pc = "use" /\ next.call \in Edits => Agree(unsaved)',
           next.pc = "write" => \A a \in Agents \ (unsaved' \cup {next.call.agent}) :
                                   cache'.data[a] = file.content[a],
           next.pc = "write" => cache'.data[next.call.agent] = next.call.setting,
           next.pc # "stamp",
           next.pc = "use" =>
              cache'.data \in next.during \/ next.torn = TRUE \/ unsaved' # {},
           UpToDate' /\ next.pc # "write" => file.whole = TRUE /\ Agree(unsaved)'
    PROVE  StoreInv'
<1> USE DEF StoreInv
<1>1. lock = t
  BY OneAtATime
<1>2. /\ threads' \in [Threads -> ThreadState]
      /\ \A u \in Threads : threads'[u].pc # "idle" <=> lock' = u
      /\ lock' \in Threads \cup {NoThread}
      /\ threads'[t] = next
      /\ \A u \in Threads \ {t} : threads'[u] = threads[u] /\ threads'[u].pc = "idle"
  BY <1>1, ThreadsTyped
<1>3. PolicyTypeOK'
  BY <1>2 DEF PolicyTypeOK, ThreadState
<1>4. NothingLost' /\ WholeBetweenSaves'
  BY DEF NothingLost, WholeBetweenSaves
<1>5. CacheFits'
  BY <1>2 DEF CacheFits
<1>6. ThreadFits(t)
  BY HolderFits
<1>7. ThreadFits(t)'
  BY <1>2, <1>6 DEF ThreadFits, Agree
<1>8. cache'.mtime <= file'.mtime /\ \A u \in Threads : threads'[u].mtime <= file'.mtime
  BY <1>2 DEF Times
<1> QED
  BY <1>2, <1>3, <1>4, <1>5, <1>7, <1>8, OnlyHolderMatters

\* Types of a thread, the file and the cache, for the steps below.
LEMMA Typed ==
    ASSUME PolicyTypeOK, NEW t \in Threads
    PROVE  /\ threads[t] \in ThreadState
           /\ file.content \in Contents /\ file.mtime \in Nat
           /\ cache \in [data : Contents, mtime : Nat]
           /\ unsaved \subseteq Agents
  BY DEF PolicyTypeOK, ThreadState

LEMMA ReadKeeps ==
    ASSUME StoreInv, NEW t \in Threads, Read(t)
    PROVE  StoreInv'
<1> USE DEF StoreInv
<1> DEFINE next == [threads[t] EXCEPT !.pc = "use"]
<1>1. /\ threads[t].pc = "read" /\ file.whole
      /\ cache' = [data |-> file.content, mtime |-> threads[t].mtime]
      /\ unsaved' = {} /\ threads' = [threads EXCEPT ![t] = next]
      /\ UNCHANGED <<file, editor, lock, intended, carried, clashed>>
  BY DEF Read
<1>2. threads[t] \in ThreadState /\ file.content \in Contents
  BY Typed
<1>3. /\ next \in ThreadState /\ next.pc = "use" /\ next.mtime = threads[t].mtime
      /\ next.call = threads[t].call /\ next.during = threads[t].during
      /\ threads[t].mtime \in Nat
  BY <1>2 DEF ThreadState
<1> HIDE DEF next
<1>4. ThreadFits(t)
  BY <1>1, HolderFits
<1>5. file.whole = TRUE
  BY <1>1 DEF PolicyTypeOK
<1>6. /\ cache' \in [data : Contents, mtime : Nat] /\ cache'.mtime <= file.mtime
      /\ cache'.data = file.content /\ file.content \in threads[t].during
  BY <1>1, <1>2, <1>3, <1>4, <1>5 DEF ThreadFits
<1>7. Agree(unsaved)'
  BY <1>1, <1>6 DEF Agree
<1> QED
  BY <1>1, <1>3, <1>5, <1>6, <1>7, GoesOnKeeps

\* An edit does not get here: while it runs the file is whole.
LEMMA FallBackKeeps ==
    ASSUME StoreInv, NEW t \in Threads, FallBack(t)
    PROVE  StoreInv'
<1> USE DEF StoreInv
<1> DEFINE next == [threads[t] EXCEPT !.pc = "use", !.torn = TRUE]
<1>1. /\ threads[t].pc = "read" /\ ~file.whole
      /\ threads' = [threads EXCEPT ![t] = next]
      /\ UNCHANGED <<file, editor, cache, lock, intended, carried, clashed, unsaved>>
  BY DEF FallBack
<1>2. threads[t] \in ThreadState /\ cache \in [data : Contents, mtime : Nat]
      /\ unsaved \subseteq Agents
  BY Typed
<1>3. /\ next \in ThreadState /\ next.pc = "use" /\ next.mtime = threads[t].mtime
      /\ next.call = threads[t].call /\ next.during = threads[t].during
      /\ next.torn = TRUE
  BY <1>2 DEF ThreadState
<1> HIDE DEF next
<1>4. threads[t].call \notin Edits
  BY <1>1 DEF EditsAlone, WholeBetweenSaves
<1>5. UpToDate' => FALSE
  <2>1. \A u \in Threads : threads[u].pc # "write"
    BY <1>1, OneAtATime
  <2>2. UpToDate' <=> UpToDate
    BY <1>1 DEF UpToDate, Loaded
  <2> QED
    BY <1>1, <2>1, <2>2 DEF CacheFits
<1>6. cache'.mtime <= file.mtime
  BY <1>1 DEF Times
<1> QED
  BY <1>1, <1>2, <1>3, <1>4, <1>5, <1>6, GoesOnKeeps

\* The calls that end without having changed the cache.
LEMMA UnchangedReturns ==
    ASSUME StoreInv, NEW t \in Threads, threads[t].pc \in {"read", "use"}, Return(t),
           UNCHANGED <<file, editor, cache, intended, carried, clashed, unsaved>>
    PROVE  StoreInv'
<1> USE DEF StoreInv
<1>1. cache \in [data : Contents, mtime : Nat] /\ unsaved \subseteq Agents
  BY Typed
<1>2. \A u \in Threads : threads[u].pc # "write"
  BY OneAtATime
<1>3. UpToDate' <=> UpToDate
  BY DEF UpToDate, Loaded
<1>4. UpToDate' => file.whole = TRUE /\ Agree(unsaved)'
  BY <1>2, <1>3 DEF CacheFits, Agree
<1>5. cache'.mtime <= file.mtime
  BY DEF Times
<1> QED
  BY <1>1, <1>4, <1>5, ReturnKeeps

LEMMA ApplyKeeps ==
    ASSUME StoreInv, NEW t \in Threads, Apply(t)
    PROVE  StoreInv'
<1> USE DEF StoreInv
<1> DEFINE next == [threads[t] EXCEPT !.pc = "write"]
           call == threads[t].call
<1>1. /\ threads[t].pc = "use" /\ call \in Edits
      /\ cache' = Edited(call) /\ threads' = [threads EXCEPT ![t] = next]
      /\ UNCHANGED <<file, editor, lock, intended, carried, clashed, unsaved>>
  BY DEF Apply
<1>2. threads[t] \in ThreadState /\ cache \in [data : Contents, mtime : Nat]
      /\ unsaved \subseteq Agents /\ file.content \in Contents
  BY Typed
<1>3. /\ next \in ThreadState /\ next.pc = "write" /\ next.mtime = threads[t].mtime
      /\ next.call = threads[t].call /\ next.during = threads[t].during
  BY <1>2 DEF ThreadState
<1>4. call.agent \in Agents /\ call.setting \in Settings \cup {Missing}
  BY <1>1, EditTyped
<1> HIDE DEF next, call
<1>5. /\ cache' \in [data : Contents, mtime : Nat] /\ cache'.mtime = cache.mtime
      /\ \A a \in Agents \ {call.agent} : cache'.data[a] = cache.data[a]
      /\ cache'.data[call.agent] = call.setting
  BY <1>1, <1>2, <1>4 DEF Edited, Contents
<1>6. Agree(unsaved)
  BY <1>1 DEF EditFits, call
<1>7. \A a \in Agents \ (unsaved' \cup {next.call.agent}) :
         cache'.data[a] = file.content[a]
  BY <1>1, <1>3, <1>5, <1>6 DEF Agree, call
<1>8. cache'.mtime <= file.mtime
  BY <1>5 DEF Times
<1> QED
  BY <1>1, <1>2, <1>3, <1>5, <1>7, <1>8, GoesOnKeeps DEF call

LEMMA WriteFailsKeeps ==
    ASSUME StoreInv, NEW t \in Threads, WriteFails(t)
    PROVE  StoreInv'
<1> USE DEF StoreInv
<1>1. /\ threads[t].pc = "write" /\ unsaved' = unsaved \cup {threads[t].call.agent}
      /\ Return(t) /\ UNCHANGED <<file, editor, cache, intended, carried, clashed>>
  BY DEF WriteFails
<1>2. threads[t].call \in Edits /\ editor.pc = "idle"
  BY <1>1 DEF EditsAlone
<1>3. threads[t].call.agent \in Agents
  BY <1>2, EditTyped
<1>4. cache \in [data : Contents, mtime : Nat] /\ unsaved \subseteq Agents
  BY Typed
<1>5. file.whole = TRUE /\ Agree(unsaved \cup {threads[t].call.agent})
  BY <1>1, <1>2 DEF WholeBetweenSaves, EditFits
<1>6. Agree(unsaved)'
  BY <1>1, <1>5 DEF Agree
<1>7. cache'.mtime <= file.mtime
  BY <1>1 DEF Times
<1> QED
  BY <1>1, <1>3, <1>4, <1>5, <1>6, <1>7, ReturnKeeps

LEMMA StampKeeps ==
    ASSUME StoreInv, NEW t \in Threads, Stamp(t)
    PROVE  StoreInv'
<1> USE DEF StoreInv
<1>1. /\ threads[t].pc = "stamp" /\ cache' = [cache EXCEPT !.mtime = file.mtime]
      /\ Return(t) /\ UNCHANGED <<file, editor, intended, carried, clashed, unsaved>>
  BY DEF Stamp
<1>2. cache \in [data : Contents, mtime : Nat] /\ unsaved \subseteq Agents
      /\ file.mtime \in Nat
  BY Typed
<1>3. threads[t].call \in Edits /\ editor.pc = "idle"
  BY <1>1 DEF EditsAlone
<1>4. file.whole = TRUE /\ Agree({}) /\ unsaved = {}
  BY <1>1, <1>3 DEF WholeBetweenSaves, EditFits
<1>5. /\ cache' \in [data : Contents, mtime : Nat] /\ cache'.data = cache.data
      /\ cache'.mtime <= file.mtime
  BY <1>1, <1>2
<1>6. Agree(unsaved)'
  BY <1>1, <1>4, <1>5 DEF Agree
<1> QED
  BY <1>1, <1>2, <1>4, <1>5, <1>6, ReturnKeeps

LEMMA WitnessedIs ==
    ASSUME PolicyTypeOK, NEW content \in Contents
    PROVE  /\ Witnessed(content) \in [Threads -> ThreadState]
           /\ \A u \in Threads :
                 /\ Witnessed(content)[u].pc = threads[u].pc
                 /\ Witnessed(content)[u].call = threads[u].call
                 /\ Witnessed(content)[u].mtime = threads[u].mtime
                 /\ Witnessed(content)[u].torn = threads[u].torn
                 /\ threads[u].during \subseteq Witnessed(content)[u].during
                 /\ threads[u].pc # "idle" => content \in Witnessed(content)[u].during
<1> DEFINE told(u) == [threads[u] EXCEPT !.during = @ \cup {content}]
<1>1. ASSUME NEW u \in Threads
      PROVE  /\ told(u) \in ThreadState /\ told(u).pc = threads[u].pc
             /\ told(u).call = threads[u].call /\ told(u).mtime = threads[u].mtime
             /\ told(u).torn = threads[u].torn
             /\ told(u).during = threads[u].during \cup {content}
  <2>1. threads[u] \in ThreadState
    BY Typed
  <2> QED
    BY <2>1 DEF ThreadState
<1>2. \A u \in Threads : threads[u] \in ThreadState
  BY Typed
<1>3. Witnessed(content) = [u \in Threads |-> IF threads[u].pc = "idle" THEN threads[u]
                                              ELSE told(u)]
  BY DEF Witnessed
<1> HIDE DEF told
<1> QED
  BY <1>1, <1>2, <1>3

\* The file takes the edit, with every edit that could not be written before.
LEMMA ReplaceKeeps ==
    ASSUME StoreInv, NEW t \in Threads, Replace(t)
    PROVE  StoreInv'
<1> USE DEF StoreInv
<1> DEFINE content == cache.data
           told == Witnessed(content)
           next == [told[t] EXCEPT !.pc = "stamp"]
           call == threads[t].call
<1>1. /\ threads[t].pc = "write"
      /\ file' = [content |-> content, whole |-> TRUE, mtime |-> file.mtime + 1]
      /\ editor' = [editor EXCEPT !.cutOff = (editor.pc = "filling")]
      /\ intended' = [intended EXCEPT ![call.agent] = call.setting]
      /\ carried' = (carried \cup unsaved) \ Replaced(call)
      /\ unsaved' = {} /\ threads' = [told EXCEPT ![t] = next]
      /\ UNCHANGED <<cache, lock, clashed>>
  BY DEF Replace
<1>2. /\ content \in Contents /\ file.content \in Contents /\ file.mtime \in Nat
      /\ cache \in [data : Contents, mtime : Nat]
  BY Typed
<1>3. /\ told \in [Threads -> ThreadState]
      /\ \A u \in Threads : told[u].pc = threads[u].pc /\ told[u].mtime = threads[u].mtime
      /\ told[t].call = threads[t].call /\ content \in told[t].during
  BY <1>1, <1>2, WitnessedIs
<1> HIDE DEF told
<1>4. /\ next \in ThreadState /\ next.pc = "stamp" /\ next.call = threads[t].call
      /\ next.mtime = threads[t].mtime /\ next.during = told[t].during
  BY <1>3 DEF ThreadState
<1> HIDE DEF next
<1>5. threads[t].call \in Edits /\ editor.pc = "idle"
  BY <1>1 DEF EditsAlone
<1>6. editor' = editor
  BY <1>1, <1>5 DEF WholeBetweenSaves, PolicyTypeOK
<1>7. /\ file'.content = content /\ file'.whole = TRUE /\ file'.mtime = file.mtime + 1
      /\ file' \in [content : Contents, whole : BOOLEAN, mtime : Nat \ {0}]
  BY <1>1, <1>2
<1>8. /\ intended' \in Contents /\ carried' \subseteq Agents
      /\ \A a \in Agents \ carried' : content[a] = intended'[a]
  <2>1. \A a \in Agents \ (unsaved \cup {call.agent}) : content[a] = file.content[a]
    BY <1>1 DEF EditFits, Agree
  <2>2. content[call.agent] = call.setting
    BY <1>1 DEF EditFits
  <2>3. \A a \in Agents \ carried : file.content[a] = intended[a]
    BY Zenon DEF NothingLost
  <2>4. /\ intended \in Contents /\ carried \subseteq Agents /\ unsaved \subseteq Agents
        /\ call.agent \in Agents /\ call.setting \in Settings \cup {Missing}
    BY <1>5, EditTyped DEF PolicyTypeOK
  <2>5. /\ intended' \in Contents /\ intended'[call.agent] = call.setting
        /\ \A a \in Agents \ {call.agent} : intended'[a] = intended[a]
    BY <1>1, <2>4 DEF Contents
  <2>6. Replaced(call) \subseteq {call.agent}
    BY DEF Replaced
  <2> HIDE DEF content, call
  <2> QED
    BY <1>1, <2>1, <2>2, <2>3, <2>4, <2>5, <2>6
<1> HIDE DEF content, call
<1>9. /\ threads' \in [Threads -> ThreadState] /\ threads'[t] = next
      /\ \A u \in Threads \ {t} : threads'[u] = told[u]
  BY <1>1, <1>3, <1>4
<1>10. PolicyTypeOK'
  <2>1. \A u \in Threads : threads'[u].pc # "idle" <=> lock' = u
    BY <1>1, <1>3, <1>4, <1>9, OneAtATime, PolicyAssumption DEF PolicyTypeOK
  <2> QED
    BY <1>1, <1>2, <1>6, <1>7, <1>8, <1>9, <2>1 DEF PolicyTypeOK, ThreadState
<1>11. NothingLost' /\ WholeBetweenSaves'
  BY <1>5, <1>6, <1>7, <1>8 DEF NothingLost, WholeBetweenSaves
<1>12. Agree({})' /\ cache.data = content
  BY <1>1, <1>7 DEF Agree, content
<1>13. CacheFits'
  BY <1>1, <1>7, <1>12 DEF CacheFits, Agree
<1>14. cache'.mtime <= file'.mtime /\ \A u \in Threads : threads'[u].mtime <= file'.mtime
  <2>1. \A u \in Threads : threads'[u].mtime = threads[u].mtime /\ threads[u].mtime \in Nat
    BY <1>3, <1>4, <1>9 DEF PolicyTypeOK
  <2> QED
    BY <1>1, <1>2, <1>7, <2>1 DEF Times
<1>15. ThreadFits(t)'
  BY <1>1, <1>3, <1>4, <1>5, <1>6, <1>7, <1>9, <1>12, <1>14 DEF ThreadFits
<1> QED
  BY <1>1, <1>4, <1>9, <1>10, <1>11, <1>13, <1>14, <1>15, OnlyHolderMatters

\* A save by hand begins: no edit is under way, and no mtime is the file's now.
LEMMA TruncateKeeps ==
    ASSUME StoreInv, clashed' = FALSE, NEW content \in Contents, Truncate(content)
    PROVE  StoreInv'
<1> USE DEF StoreInv
<1>1. /\ editor' = [pc |-> "filling", content |-> content, cutOff |-> FALSE]
      /\ file' = [file EXCEPT !.whole = FALSE, !.mtime = @ + 1]
      /\ UNCHANGED <<cache, lock, threads, intended, carried, unsaved>>
  BY DEF Truncate
<1>0. ~Editing
  BY Zenon DEF Truncate
<1>2. file \in [content : Contents, whole : BOOLEAN, mtime : Nat \ {0}]
      /\ cache \in [data : Contents, mtime : Nat]
  BY DEF PolicyTypeOK
<1>3. /\ file' \in [content : Contents, whole : BOOLEAN, mtime : Nat \ {0}]
      /\ file'.content = file.content /\ file'.whole = FALSE
      /\ file'.mtime = file.mtime + 1 /\ file.mtime \in Nat
  <2> DEFINE m == file.mtime + 1
  <2>1. file.mtime \in Nat /\ m \in Nat \ {0}
    BY <1>2
  <2>2. file' = [file EXCEPT !.whole = FALSE, !.mtime = m]
    BY <1>1
  <2> HIDE DEF m
  <2>3. /\ file' \in [content : Contents, whole : BOOLEAN, mtime : Nat \ {0}]
        /\ file'.content = file.content /\ file'.whole = FALSE /\ file'.mtime = m
    BY <1>2, <2>1, <2>2, Zenon
  <2> QED
    BY <2>1, <2>3 DEF m
<1>4. editor' \in [pc : {"idle", "filling"}, content : Contents, cutOff : BOOLEAN]
      /\ editor'.pc = "filling" /\ editor'.cutOff = FALSE
  BY <1>1
<1>5. PolicyTypeOK'
  BY <1>1, <1>3, <1>4 DEF PolicyTypeOK
<1>6. NothingLost' /\ WholeBetweenSaves'
  BY <1>1, <1>3, <1>4 DEF NothingLost, WholeBetweenSaves
<1>7. Times'
  BY <1>1, <1>2, <1>3, Typed DEF Times, PolicyTypeOK
<1>8. CacheFits'
  BY <1>1, <1>2, <1>3 DEF CacheFits, UpToDate, Times
<1>9. \A t \in Threads : threads[t].pc # "idle" => threads[t].call \notin Edits
  BY <1>0 DEF Editing
<1>10. EditsAlone' /\ EditFits' /\ Seen' /\ ServedIsCurrent'
  BY <1>1, <1>3, <1>9 DEF EditsAlone, EditFits, Seen, ServedIsCurrent
<1> QED
  BY <1>5, <1>6, <1>7, <1>8, <1>10

LEMMA FillKeeps ==
    ASSUME StoreInv, Fill
    PROVE  StoreInv'
<1> USE DEF StoreInv
<1> DEFINE content == editor.content
<1>1. /\ editor.pc = "filling" /\ editor.cutOff = FALSE
      /\ editor \in [pc : {"idle", "filling"}, content : Contents, cutOff : BOOLEAN]
      /\ content \in Contents
  BY DEF Fill, WholeBetweenSaves, PolicyTypeOK
<1>2. /\ file' = [content |-> content, whole |-> TRUE, mtime |-> file.mtime + 1]
      /\ threads' = Witnessed(content) /\ intended' = content
      /\ carried' = {}
      /\ editor' = [editor EXCEPT !.pc = "idle", !.cutOff = FALSE]
      /\ UNCHANGED <<cache, lock, unsaved, clashed>>
  BY <1>1 DEF Fill
<1>3. /\ editor' \in [pc : {"idle", "filling"}, content : Contents, cutOff : BOOLEAN]
      /\ editor'.pc = "idle" /\ editor'.cutOff = FALSE
  BY <1>1, <1>2
<1> HIDE DEF content
<1>4. cache \in [data : Contents, mtime : Nat] /\ file.mtime \in Nat
  BY DEF PolicyTypeOK
<1>5. /\ file' \in [content : Contents, whole : BOOLEAN, mtime : Nat \ {0}]
      /\ file'.content = content /\ file'.whole = TRUE /\ file'.mtime = file.mtime + 1
  BY <1>1, <1>2, <1>4
<1>6. /\ threads' \in [Threads -> ThreadState]
      /\ \A u \in Threads :
            /\ threads'[u].pc = threads[u].pc
            /\ threads'[u].call = threads[u].call
            /\ threads'[u].mtime = threads[u].mtime
            /\ threads'[u].torn = threads[u].torn
            /\ threads[u].during \subseteq threads'[u].during
            /\ threads[u].pc # "idle" => content \in threads'[u].during
  BY <1>1, <1>2, WitnessedIs
<1>7. PolicyTypeOK'
  BY <1>1, <1>2, <1>3, <1>5, <1>6 DEF PolicyTypeOK, ThreadState
<1>8. NothingLost' /\ WholeBetweenSaves'
  BY <1>2, <1>3, <1>5 DEF NothingLost, WholeBetweenSaves
<1>9. Times'
  <2>1. \A u \in Threads : threads[u].mtime \in Nat
    BY DEF PolicyTypeOK
  <2> QED
    BY <1>2, <1>4, <1>5, <1>6, <2>1 DEF Times
<1>10. CacheFits'
  BY <1>2, <1>4, <1>5 DEF CacheFits, UpToDate, Times
<1>11. \A t \in Threads : threads[t].pc # "idle" => threads[t].call \notin Edits
  BY <1>1 DEF EditsAlone
<1>12. \A t \in Threads : threads[t].pc \notin {"write", "stamp"}
  BY <1>11 DEF EditsAlone
<1>13. EditsAlone' /\ EditFits'
  BY <1>6, <1>11, <1>12 DEF EditsAlone, EditFits
<1>14. Seen' /\ ServedIsCurrent'
  BY <1>2, <1>5, <1>6 DEF Seen, ServedIsCurrent
<1> QED
  BY <1>2, <1>7, <1>8, <1>9, <1>10, <1>13, <1>14

LEMMA CrashKeeps == StoreInv /\ Crash => StoreInv'
<1> SUFFICES ASSUME StoreInv, Crash PROVE StoreInv'
  OBVIOUS
<1> USE DEF StoreInv
<1>1. /\ cache' = [data |-> Blank, mtime |-> 0] /\ lock' = NoThread
      /\ threads' = [t \in Threads |-> IdleThread] /\ unsaved' = {}
      /\ UNCHANGED <<file, editor, intended, carried, clashed>>
  BY DEF Crash
<1>2. /\ IdleThread \in ThreadState /\ IdleThread.pc = "idle" /\ IdleThread.mtime = 0
      /\ Blank \in Contents /\ file.mtime \in Nat
  BY IdleTyped DEF PolicyTypeOK
<1> HIDE DEF IdleThread, Blank
<1>3. /\ threads' \in [Threads -> ThreadState]
      /\ \A t \in Threads : threads'[t].pc = "idle" /\ threads'[t].mtime = 0
  BY <1>1, <1>2
<1>4. cache' \in [data : Contents, mtime : Nat] /\ cache'.mtime = 0
  BY <1>1, <1>2
<1>5. PolicyTypeOK'
  BY <1>1, <1>3, <1>4, PolicyAssumption DEF PolicyTypeOK, ThreadState
<1>6. NothingLost' /\ WholeBetweenSaves' /\ CacheFits'
  BY <1>1, <1>4 DEF NothingLost, WholeBetweenSaves, CacheFits, UpToDate, Loaded
<1>7. Times'
  BY <1>1, <1>2, <1>3, <1>4 DEF Times
<1>8. EditsAlone' /\ EditFits' /\ Seen' /\ ServedIsCurrent'
  BY <1>3 DEF EditsAlone, EditFits, Seen, ServedIsCurrent
<1> QED
  BY <1>1, <1>5, <1>6, <1>7, <1>8

LEMMA StutterKeeps == StoreInv /\ UNCHANGED vars => StoreInv'
  BY DEF StoreInv, PolicyTypeOK, NothingLost, WholeBetweenSaves, Times, EditsAlone,
         CacheFits, EditFits, Seen, ServedIsCurrent, Agree, UpToDate, Loaded, vars

\* Until a save by hand overlaps an edit.
LEMMA StoreStep == clashed' = FALSE /\ StoreInv /\ [Next]_vars => StoreInv'
<1> SUFFICES ASSUME clashed' = FALSE, StoreInv, [Next]_vars PROVE StoreInv'
  OBVIOUS
<1>1. CASE \E t \in Threads, call \in Calls : Begin(t, call)
  BY <1>1, BeginKeeps
<1>2. ASSUME NEW t \in Threads, Step(t) PROVE StoreInv'
  <2>1. CASE Read(t)
    BY <2>1, ReadKeeps
  <2>2. CASE FallBack(t)
    BY <2>2, FallBackKeeps
  <2>3. CASE ReadFails(t) \/ Get(t) \/ Refuse(t)
    BY <2>3, UnchangedReturns DEF ReadFails, Get, Refuse
  <2>4. CASE Apply(t)
    BY <2>4, ApplyKeeps
  <2>5. CASE WriteFails(t) \/ Stamp(t)
    BY <2>5, WriteFailsKeeps, StampKeeps
  <2>6. CASE Replace(t)
    BY <2>6, ReplaceKeeps
  <2> QED
    BY <1>2, <2>1, <2>2, <2>3, <2>4, <2>5, <2>6 DEF Step
<1>3. CASE \E content \in Contents : Truncate(content)
  BY <1>3, TruncateKeeps
<1>4. CASE Fill \/ Crash
  BY <1>4, FillKeeps, CrashKeeps
<1>5. CASE Rest \/ UNCHANGED vars
  BY <1>5, StutterKeeps DEF Rest
<1> QED
  BY <1>1, <1>2, <1>3, <1>4, <1>5 DEF Next

----------------------------------------------------------------------------
(***************************************************************************)
(* Types, and that only an edit writes, whatever the saves by hand do.     *)
(***************************************************************************)
TypedInv ==
    /\ PolicyTypeOK
    /\ \A t \in Threads : threads[t].pc \in {"write", "stamp"} => threads[t].call \in Edits

LEMMA TypedReturns ==
    ASSUME TypedInv, NEW t \in Threads, threads[t].pc # "idle", Return(t),
           UNCHANGED <<file, editor, intended, carried, clashed>>, cache' \in [data : Contents, mtime : Nat],
           unsaved' \subseteq Agents
    PROVE  TypedInv'
<1>1. PolicyTypeOK /\ IdleThread \in ThreadState /\ IdleThread.pc = "idle"
  BY IdleTyped DEF TypedInv
<1>2. threads' = [threads EXCEPT ![t] = IdleThread] /\ lock' = NoThread
  BY DEF Return
<1> HIDE DEF IdleThread
<1>3. /\ threads' \in [Threads -> ThreadState]
      /\ \A u \in Threads : threads'[u].pc # "idle" <=> lock' = u
      /\ threads'[t] = IdleThread
      /\ \A u \in Threads \ {t} : threads'[u].pc = "idle"
  BY <1>1, <1>2, ThreadsTyped
<1>4. \A u \in Threads : threads'[u].pc = "idle"
  BY <1>1, <1>3
<1>5. PolicyTypeOK'
  BY <1>1, <1>2, <1>3 DEF PolicyTypeOK, ThreadState
<1> QED
  BY <1>4, <1>5 DEF TypedInv

LEMMA TypedGoesOn ==
    ASSUME TypedInv, NEW t \in Threads, threads[t].pc # "idle",
           NEW next \in ThreadState, next.pc # "idle",
           next.pc \in {"write", "stamp"} => next.call \in Edits,
           threads' = [threads EXCEPT ![t] = next],
           UNCHANGED <<file, editor, lock, intended, carried, clashed>>,
           cache' \in [data : Contents, mtime : Nat], unsaved' \subseteq Agents
    PROVE  TypedInv'
<1>1. PolicyTypeOK
  BY DEF TypedInv
<1>2. lock = t
  BY <1>1, OneAtATime
<1>3. /\ threads' \in [Threads -> ThreadState]
      /\ \A u \in Threads : threads'[u].pc # "idle" <=> lock' = u
      /\ threads'[t] = next
      /\ \A u \in Threads \ {t} : threads'[u].pc = "idle"
  BY <1>1, <1>2, ThreadsTyped
<1>4. PolicyTypeOK'
  BY <1>1, <1>3 DEF PolicyTypeOK, ThreadState
<1> QED
  BY <1>3, <1>4 DEF TypedInv

LEMMA TypedBegin ==
    ASSUME TypedInv, NEW t \in Threads, NEW call \in Calls, Begin(t, call)
    PROVE  TypedInv'
<1> DEFINE seen == IF file.whole THEN {file.content} ELSE {}
           entered == [pc |-> IF UpToDate THEN "use" ELSE "read", call |-> call,
                       mtime |-> file.mtime, during |-> seen, torn |-> FALSE]
<1>1. /\ threads' = [threads EXCEPT ![t] = entered] /\ lock' = t /\ lock = NoThread
      /\ UNCHANGED <<file, editor, cache, intended, carried, unsaved>>
  BY DEF Begin, Free
<1>0. clashed' \in BOOLEAN
  BY Zenon DEF Begin
<1>2. PolicyTypeOK /\ threads \in [Threads -> ThreadState]
  BY DEF TypedInv, PolicyTypeOK, ThreadState
<1>3. seen \in SUBSET Contents /\ file.mtime \in Nat
  BY <1>2 DEF PolicyTypeOK
<1> HIDE DEF seen
<1>4. entered \in ThreadState /\ entered.pc \in {"use", "read"}
  BY <1>3 DEF ThreadState
<1> HIDE DEF entered
<1>5. \A u \in Threads : threads[u].pc = "idle"
  BY <1>1, <1>2, PolicyAssumption DEF PolicyTypeOK
<1>6. /\ threads' \in [Threads -> ThreadState] /\ threads'[t] = entered
      /\ \A u \in Threads \ {t} : threads'[u] = threads[u]
  BY <1>1, <1>2, <1>4
<1>7. \A u \in Threads : threads'[u].pc # "idle" <=> lock' = u
  BY <1>1, <1>4, <1>5, <1>6
<1>8. PolicyTypeOK'
  BY <1>0, <1>1, <1>2, <1>6, <1>7 DEF PolicyTypeOK, ThreadState
<1> QED
  BY <1>4, <1>5, <1>6, <1>8 DEF TypedInv

LEMMA TypedStep ==
    ASSUME TypedInv, NEW t \in Threads, Step(t)
    PROVE  TypedInv'
<1>1. PolicyTypeOK
  BY DEF TypedInv
<1>2. /\ threads[t] \in ThreadState /\ file.content \in Contents /\ file.mtime \in Nat
      /\ cache \in [data : Contents, mtime : Nat] /\ unsaved \subseteq Agents
  BY <1>1, Typed
<1>3. CASE Read(t)
  <2> DEFINE next == [threads[t] EXCEPT !.pc = "use"]
  <2>1. next \in ThreadState /\ next.pc = "use" /\ threads[t].mtime \in Nat
    BY <1>2 DEF ThreadState
  <2>2. threads' = [threads EXCEPT ![t] = next] /\ threads[t].pc = "read"
    BY <1>3 DEF Read
  <2>3. /\ cache' \in [data : Contents, mtime : Nat] /\ unsaved' \subseteq Agents
        /\ UNCHANGED <<file, editor, lock, intended, carried, clashed>>
    BY <1>2, <1>3, <2>1 DEF Read
  <2> HIDE DEF next
  <2> QED
    BY <2>1, <2>2, <2>3, TypedGoesOn
<1>4. CASE FallBack(t)
  <2> DEFINE next == [threads[t] EXCEPT !.pc = "use", !.torn = TRUE]
  <2>1. next \in ThreadState /\ next.pc = "use"
    BY <1>2 DEF ThreadState
  <2>2. /\ threads' = [threads EXCEPT ![t] = next] /\ threads[t].pc = "read"
        /\ UNCHANGED <<file, editor, cache, lock, intended, carried, clashed, unsaved>>
    BY <1>4 DEF FallBack
  <2> HIDE DEF next
  <2> QED
    BY <1>2, <2>1, <2>2, TypedGoesOn
<1>5. CASE ReadFails(t) \/ Get(t) \/ Refuse(t)
  BY <1>2, <1>5, TypedReturns DEF ReadFails, Get, Refuse
<1>6. CASE Apply(t)
  <2> DEFINE next == [threads[t] EXCEPT !.pc = "write"]
             call == threads[t].call
  <2>1. next \in ThreadState /\ next.pc = "write" /\ next.call = call
    BY <1>2 DEF ThreadState
  <2>2. /\ threads' = [threads EXCEPT ![t] = next] /\ threads[t].pc = "use"
        /\ call \in Edits /\ cache' = Edited(call)
        /\ UNCHANGED <<file, editor, lock, intended, carried, clashed, unsaved>>
    BY <1>6 DEF Apply
  <2> HIDE DEF next, call
  <2>3. cache' \in [data : Contents, mtime : Nat]
    BY <1>2, <2>2, EditTyped DEF Edited, Contents
  <2> QED
    BY <1>2, <2>1, <2>2, <2>3, TypedGoesOn
<1>7. CASE WriteFails(t)
  <2>1. threads[t].pc = "write" /\ threads[t].call.agent \in Agents
    BY <1>7, EditTyped DEF WriteFails, TypedInv
  <2> QED
    BY <1>2, <1>7, <2>1, TypedReturns DEF WriteFails
<1>8. CASE Stamp(t)
  <2>1. cache' \in [data : Contents, mtime : Nat]
    BY <1>2, <1>8 DEF Stamp
  <2> QED
    BY <1>2, <1>8, <2>1, TypedReturns DEF Stamp
<1>9. CASE Replace(t)
  <2> DEFINE told == Witnessed(cache.data)
             next == [told[t] EXCEPT !.pc = "stamp"]
  <2>1. /\ told \in [Threads -> ThreadState]
        /\ \A u \in Threads : told[u].pc = threads[u].pc /\ told[u].call = threads[u].call
    BY <1>1, <1>2, WitnessedIs
  <2>2. /\ threads[t].pc = "write" /\ threads' = [told EXCEPT ![t] = next]
        /\ editor' = [editor EXCEPT !.cutOff = (editor.pc = "filling")]
        /\ UNCHANGED <<cache, lock, clashed>> /\ unsaved' = {}
        /\ carried' = (carried \cup unsaved) \ Replaced(threads[t].call)
    BY <1>9 DEF Replace
  <2> HIDE DEF told
  <2>3. next \in ThreadState /\ next.pc = "stamp" /\ next.call = threads[t].call
    BY <2>1 DEF ThreadState
  <2> HIDE DEF next
  <2>4. /\ threads' \in [Threads -> ThreadState] /\ threads'[t] = next
        /\ \A u \in Threads \ {t} : threads'[u] = told[u]
    BY <2>1, <2>2, <2>3
  <2>5. \A u \in Threads : threads'[u].pc # "idle" <=> lock' = u
    BY <1>1, <2>1, <2>2, <2>3, <2>4 DEF PolicyTypeOK
  <2>6. file' \in [content : Contents, whole : BOOLEAN, mtime : Nat \ {0}]
    BY <1>2, <1>9 DEF Replace
  <2>7. intended' \in Contents /\ carried' \subseteq Agents
    <3>1. threads[t].call \in Edits
      BY <2>2 DEF TypedInv
    <3>2. /\ threads[t].call.agent \in Agents
          /\ threads[t].call.setting \in Settings \cup {Missing}
      BY <3>1, EditTyped
    <3> QED
      BY <1>1, <1>2, <1>9, <3>2 DEF Replace, Contents, PolicyTypeOK
  <2>8. editor' \in [pc : {"idle", "filling"}, content : Contents, cutOff : BOOLEAN]
    BY <1>1, <2>2 DEF PolicyTypeOK
  <2>9. PolicyTypeOK'
    BY <1>1, <2>2, <2>4, <2>5, <2>6, <2>7, <2>8 DEF PolicyTypeOK, ThreadState
  <2> QED
    BY <2>1, <2>2, <2>3, <2>4, <2>9 DEF TypedInv
<1> QED
  BY <1>3, <1>4, <1>5, <1>6, <1>7, <1>8, <1>9 DEF Step

LEMMA TypedSave ==
    ASSUME TypedInv, (\E content \in Contents : Truncate(content)) \/ Fill
    PROVE  TypedInv'
<1>1. /\ file \in [content : Contents, whole : BOOLEAN, mtime : Nat \ {0}]
      /\ editor \in [pc : {"idle", "filling"}, content : Contents, cutOff : BOOLEAN]
      /\ PolicyTypeOK
  BY DEF TypedInv, PolicyTypeOK
<1>2. CASE \E content \in Contents : Truncate(content)
  <2>1. PICK content \in Contents : Truncate(content)
    BY <1>2
  <2>2. editor' \in [pc : {"idle", "filling"}, content : Contents, cutOff : BOOLEAN]
    BY <2>1 DEF Truncate
  <2>3. file' \in [content : Contents, whole : BOOLEAN, mtime : Nat \ {0}]
    <3> DEFINE m == file.mtime + 1
    <3>1. m \in Nat \ {0}
      BY <1>1
    <3>2. file' = [file EXCEPT !.whole = FALSE, !.mtime = m]
      BY <2>1 DEF Truncate
    <3> HIDE DEF m
    <3> QED
      BY <1>1, <3>1, <3>2, Zenon
  <2> QED
    BY <2>1, <2>2, <2>3 DEF Truncate, TypedInv, PolicyTypeOK
<1>3. CASE Fill
  <2>1. editor' \in [pc : {"idle", "filling"}, content : Contents, cutOff : BOOLEAN]
        /\ editor.content \in Contents
    BY <1>1, <1>3 DEF Fill
  <2>2. file' \in [content : Contents, whole : BOOLEAN, mtime : Nat \ {0}]
    <3>1. [content |-> editor.content, whole |-> TRUE, mtime |-> file.mtime + 1]
             \in [content : Contents, whole : BOOLEAN, mtime : Nat \ {0}]
      BY <1>1, <2>1
    <3> QED
      BY <1>1, <1>3, <3>1 DEF Fill
  <2>3. /\ threads' \in [Threads -> ThreadState]
        /\ \A u \in Threads : /\ threads'[u].pc = threads[u].pc
                              /\ threads'[u].call = threads[u].call
    <3>1. threads' = threads \/ threads' = Witnessed(editor.content)
      BY <1>3 DEF Fill
    <3> QED
      BY <1>1, <2>1, <3>1, WitnessedIs DEF PolicyTypeOK, ThreadState
  <2>4. /\ UNCHANGED <<cache, lock, unsaved, clashed>>
        /\ intended' = editor.content /\ carried' = {}
    BY <1>3 DEF Fill
  <2>5. PolicyTypeOK'
    BY <1>1, <2>1, <2>2, <2>3, <2>4 DEF PolicyTypeOK, ThreadState
  <2> QED
    BY <2>3, <2>5 DEF TypedInv
<1> QED
  BY <1>2, <1>3

LEMMA TypedCrash == TypedInv /\ Crash => TypedInv'
<1> SUFFICES ASSUME TypedInv, Crash PROVE TypedInv'
  OBVIOUS
<1>1. IdleThread \in ThreadState /\ IdleThread.pc = "idle" /\ Blank \in Contents
  BY IdleTyped
<1>2. /\ cache' = [data |-> Blank, mtime |-> 0] /\ lock' = NoThread
      /\ threads' = [t \in Threads |-> IdleThread] /\ unsaved' = {}
      /\ UNCHANGED <<file, editor, intended, carried, clashed>>
  BY DEF Crash
<1> HIDE DEF IdleThread, Blank
<1>3. /\ threads' \in [Threads -> ThreadState]
      /\ \A t \in Threads : threads'[t].pc = "idle"
  BY <1>1, <1>2
<1>4. cache' \in [data : Contents, mtime : Nat]
  BY <1>1, <1>2
<1>5. PolicyTypeOK'
  BY <1>2, <1>3, <1>4, PolicyAssumption DEF TypedInv, PolicyTypeOK, ThreadState
<1> QED
  BY <1>3, <1>5 DEF TypedInv

LEMMA TypedNext == TypedInv /\ [Next]_vars => TypedInv'
<1> SUFFICES ASSUME TypedInv, [Next]_vars PROVE TypedInv'
  OBVIOUS
<1>1. CASE \E t \in Threads, call \in Calls : Begin(t, call)
  BY <1>1, TypedBegin
<1>2. CASE \E t \in Threads : Step(t)
  BY <1>2, TypedStep
<1>3. CASE (\E content \in Contents : Truncate(content)) \/ Fill
  BY <1>3, TypedSave
<1>4. CASE Crash
  BY <1>4, TypedCrash
<1>5. CASE Rest \/ UNCHANGED vars
  BY <1>5 DEF Rest, vars, TypedInv, PolicyTypeOK
<1> QED
  BY <1>1, <1>2, <1>3, <1>4, <1>5 DEF Next

LEMMA TypedStart == Init => TypedInv
  BY StoreInit, IdleTyped DEF Init, StoreInv, TypedInv

\* Every variable of the policy store keeps its type, and the lock its holder, whoever
\* saves the file by hand and whenever.
THEOREM StoreTypeCorrect == Spec => []PolicyTypeOK
<1>1. TypedInv => PolicyTypeOK
  BY DEF TypedInv
<1> QED
  BY <1>1, TypedStart, TypedNext, PTL DEF Spec
----------------------------------------------------------------------------
(***************************************************************************)
(* The promises, for every behaviour: what they ask for holds until a save *)
(* by hand overlaps a call that edits, and a clash is never forgotten.     *)
(***************************************************************************)
CalmInv == TypedInv /\ (clashed = FALSE => StoreInv)

\* What has clashed stays so.
LEMMA ClashStays == TypedInv /\ [Next]_vars /\ clashed' = FALSE => clashed = FALSE
<1> SUFFICES ASSUME TypedInv, [Next]_vars, clashed' = FALSE PROVE clashed = FALSE
  OBVIOUS
<1>1. clashed \in BOOLEAN
  BY DEF TypedInv, PolicyTypeOK
<1>2. CASE \E t \in Threads, call \in Calls : Begin(t, call)
  BY <1>1, <1>2, Zenon DEF Begin
<1>3. CASE \E content \in Contents : Truncate(content)
  BY <1>1, <1>3, Zenon DEF Truncate
<1>4. CASE \E t \in Threads : Step(t)
  BY <1>4 DEF Step, Read, FallBack, ReadFails, Get, Refuse, Apply, WriteFails, Replace,
       Stamp
<1>5. CASE Fill \/ Crash \/ Rest \/ UNCHANGED vars
  BY <1>5 DEF Fill, Crash, Rest, vars
<1> QED
  BY <1>2, <1>3, <1>4, <1>5 DEF Next

THEOREM StoreInvariant == Spec => []CalmInv
<1>1. Init => CalmInv
  BY StoreInit, TypedStart DEF CalmInv
<1>2. CalmInv /\ [Next]_vars => CalmInv'
  BY TypedNext, ClashStays, StoreStep DEF CalmInv
<1> QED
  BY <1>1, <1>2, PTL DEF Spec

LEMMA ClashedOrCalm == CalmInv => clashed = TRUE \/ StoreInv
  BY DEF CalmInv, TypedInv, PolicyTypeOK

\* Between calls the cache holds what the file holds, or will be reloaded.
THEOREM CacheCoherent == Spec => []CacheIsFile
<1>1. StoreInv => CacheIsFile
  BY PolicyAssumption DEF StoreInv, CacheFits, CacheIsFile, PolicyTypeOK, Agree
<1>2. clashed = TRUE => CacheIsFile
  BY Zenon DEF CacheIsFile
<1> QED
  BY <1>1, <1>2, ClashedOrCalm, StoreInvariant, PTL

\* Every call works on a policy the file held while the call ran.
THEOREM ServedCurrent == Spec => []ServedIsCurrent
<1>1. StoreInv => ServedIsCurrent
  BY DEF StoreInv
<1>2. clashed = TRUE => ServedIsCurrent
  BY Zenon DEF ServedIsCurrent
<1> QED
  BY <1>1, <1>2, ClashedOrCalm, StoreInvariant, PTL

\* No acknowledged edit and no save by hand is undone by another, or by a crash.
THEOREM EditsPersist == Spec => []NothingLost
<1>1. StoreInv => NothingLost
  BY DEF StoreInv
<1>2. clashed = TRUE => NothingLost
  BY Zenon DEF NothingLost
<1> QED
  BY <1>1, <1>2, ClashedOrCalm, StoreInvariant, PTL
=============================================================================
