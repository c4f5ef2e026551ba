-------------------------- MODULE ReadIndexedProofs --------------------------
(***************************************************************************)
(* Proofs about ReadIndexed for every number of chunks and all files: main *)
(* never fails an assert of its own, the threads enter everything the      *)
(* merge needs, main merges alone, and the chain it reports holds no       *)
(* dummy.  So far it does not matter what the balances of a block are.  It *)
(* does in the last part: if the file is a chain of valid blocks cut into  *)
(* chunks with the right maps, the report is the sequential reader's.      *)
(***************************************************************************)
EXTENDS ReadIndexed, LedgerProofs

\* The facts proved about the thread manager hold for the one main uses.  The
\* older readers, which that module is about too, are given no file.
TMP == INSTANCE ThreadManagerProofs
        WITH NumThreads <- NumChunks, Secure <- FALSE,
             NumChunks <- 1, Files <- {}, reader <- "day3"

\* The chunks of a file are sequences of blocks.
LEMMA BlocksAreCounted ==
    \A f \in Files : \A c \in 1 .. NumChunks : Len(f[c].blocks) \in Nat
<1>1. \A S, s : s \in Seq(S) => Len(s) \in Nat
  OBVIOUS
<1>2. QED
  BY <1>1, FilesAssumption

-----------------------------------------------------------------------------
(* The inductive invariant.                                                 *)

MainTypes ==
    /\ file \in Files
    /\ mainPc \in {"create", "launch", "wait", "delete", "link", "scan",
                   "done", "aborted"}
    /\ chunk \in Chunks \cup {1}
    /\ linked \subseteq heads
    /\ scanned \subseteq DOMAIN tails
    /\ valid \in BOOLEAN

ThreadTypes ==
    /\ pc \in [Chunks -> {"none", "parse", "lockHead", "insertHead",
                          "lockTail", "insertTail", "exit"}]
    /\ DOMAIN pos = Chunks /\ DOMAIN tip = Chunks /\ DOMAIN bmap = Chunks
    /\ \A c \in Chunks : pos[c] \in 1 .. Len(file[c].blocks) + 1
    /\ mutex \in Chunks \cup {0}

\* A chunk whose thread main has not launched yet, and one whose thread main
\* has joined.
Unlaunched(c) == mainPc \in {"create", "launch"} /\ chunk <= c

Collected(c) ==
    \/ mainPc \in {"delete", "link", "scan", "done"}
    \/ mainPc = "wait" /\ c < chunk

\* The manager is where main thinks it is.
ManagerInStep ==
    Running =>
        /\ chunk \in Chunks
        /\ mainPc \in {"create", "launch", "wait"} => phase = "open"
        /\ mainPc = "delete" => phase \in {"open", "destroying"}
        /\ mainPc \in {"link", "scan", "done"} => phase = "closed"

\* The slot of a chunk: free, created by the last create, running, joined.
SlotInStep(c) ==
    /\ Unlaunched(c) => ~slots[Tid(c)].running
    /\ Unlaunched(c) =>
          (slots[Tid(c)].used <=> mainPc = "launch" /\ c = chunk)
    /\ (mainPc = "launch" /\ c = chunk) => slots[Tid(c)].thfunc
    /\ Collected(c) => ~slots[Tid(c)].running
    /\ (~Unlaunched(c) /\ ~Collected(c)) =>
          slots[Tid(c)].running /\ slots[Tid(c)].used

SlotsInStep == Running => \A c \in Chunks : SlotInStep(c)

\* A thread is somewhere in readChunk exactly while the system runs it.
ThreadsAreAlive ==
    Running =>
        \A c \in Chunks : pc[c] # "none" <=> life[Tid(c)] = "alive"

Untouched(c) == pos[c] = 1 /\ tip[c] = NoBlock /\ bmap[c] = NoMap

UnlaunchedUntouched ==
    Running => \A c \in Chunks : Unlaunched(c) => Untouched(c)

\* The mutex is held exactly inside the two critical sections.
MutexHeld ==
    \A c \in Chunks : pc[c] \in {"insertHead", "insertTail"} <=> mutex = c

\* What a thread points to was built by it, from the blocks it has passed.
Built(c) == {<<c, n>> : n \in 1 .. pos[c] - 1} \cap DOMAIN heap

ObjectsOwned ==
    \A c \in Chunks :
        /\ tip[c] # NoBlock => tip[c] \in Built(c)
        /\ \A h \in DOMAIN bmap[c] : bmap[c][h] \in Built(c)
        /\ pc[c] \in {"lockHead", "insertHead"} => <<c, 1>> \in DOMAIN heap
        /\ pc[c] \in {"lockTail", "insertTail"} => tip[c] # NoBlock

ContainersHoldObjects ==
    /\ heads \subseteq DOMAIN heap
    /\ \A h \in DOMAIN tails : tails[h] \in DOMAIN heap

\* Until main changes the first object.
Unmerged ==
    \/ mainPc \in {"create", "launch", "wait", "delete"}
    \/ mainPc = "link" /\ linked = {}

Through(c) == ~Unlaunched(c) /\ pc[c] \in {"exit", "none"}

\* A thread that is about to enter its last block should.
TailsDue ==
    Unmerged => \A c \in Chunks :
        pc[c] \in {"lockTail", "insertTail"} => TipMatchesMap(c)

\* A tail is the last block of a thread that is through, under its hash, and
\* has the balances of the map.
TailsAreTips ==
    Unmerged => \A h \in DOMAIN tails : \E d \in Chunks :
        /\ TipMatchesMap(d)
        /\ pc[d] \in {"exit", "none"}
        /\ tails[h] = tip[d]
        /\ heap[tip[d]].blk.hash = h

\* A thread that is through has entered its last block, if it should.
TailsEntered ==
    Unmerged => \A c \in Chunks :
        (Through(c) /\ TipMatchesMap(c)) =>
            heap[tip[c]].blk.hash \in DOMAIN tails

\* A thread that has accepted its first block has entered it or is about to.
HeadsEntered ==
    Unmerged => \A c \in Chunks : \A h \in DOMAIN bmap[c] :
        (bmap[c][h] = <<c, 1>> /\ heap[<<c, 1>>].blk.prev # Zero) =>
            <<c, 1>> \in heads \/ pc[c] \in {"lockHead", "insertHead"}

IInv ==
    /\ TMP!IInv
    /\ MainTypes /\ ThreadTypes
    /\ ManagerInStep /\ SlotsInStep /\ ThreadsAreAlive /\ UnlaunchedUntouched
    /\ MutexHeld
    /\ ObjectsOwned /\ ContainersHoldObjects
    /\ TailsDue /\ TailsAreTips /\ TailsEntered /\ HeadsEntered

(* End of the invariant. *)
-----------------------------------------------------------------------------
(* The thread manager.                                                      *)

\* The slot and the thread of a chunk.
LEMMA ManagerFacts ==
    ASSUME IInv
    PROVE  /\ slots \in [0 .. NumChunks - 1 ->
                            [used : BOOLEAN, running : BOOLEAN,
                             thfunc : BOOLEAN, stack : BOOLEAN]]
           /\ life \in [0 .. NumChunks - 1 -> {"none", "alive", "exited"}]
           /\ \A c \in Chunks :
                 /\ Tid(c) \in 0 .. NumChunks - 1
                 /\ slots[Tid(c)].running <=> life[Tid(c)] # "none"
<1> USE ChunkAssumption
<1>1. TMP!TypeOK /\ TMP!RunningMeansUnjoined
  BY DEF IInv, TMP!IInv
<1>2. \A c \in Chunks : Tid(c) \in 0 .. NumChunks - 1
  BY DEF Chunks, Tid
<1>3. QED
  BY <1>1, <1>2 DEF TMP!TypeOK, TMP!RunningMeansUnjoined, TMP!Tids

\* main creates the slot of its chunk: the slots before it are used, and it
\* is free, so find_free_thread returns it.
LEMMA CreateEffect ==
    ASSUME IInv, CreateThread
    PROVE  /\ chunk \in Chunks
           /\ result' = Tid(chunk)
           /\ mainPc' = "launch"
           /\ slots' = [slots EXCEPT ![Tid(chunk)] =
                            TM!Created(slots[Tid(chunk)])]
           /\ UNCHANGED <<life, phase, cursor>>
<1> USE ChunkAssumption
<1>1. chunk \in Chunks /\ mainPc = "create"
  BY DEF IInv, ManagerInStep, Running, CreateThread
<1>2. \A c \in Chunks : slots[Tid(c)].used <=> c < chunk
  <2> SUFFICES ASSUME NEW c \in Chunks PROVE slots[Tid(c)].used <=> c < chunk
    OBVIOUS
  <2>1. SlotInStep(c)
    BY <1>1 DEF IInv, SlotsInStep, Running
  <2>2. ~Collected(c)
    BY <1>1 DEF Collected
  <2>3. CASE chunk <= c
    <3>1. Unlaunched(c)
      BY <1>1, <2>3 DEF Unlaunched
    <3>2. ~slots[Tid(c)].used
      BY <1>1, <2>1, <3>1 DEF SlotInStep
    <3>3. QED
      BY <1>1, <2>3, <3>2 DEF Chunks
  <2>4. CASE ~(chunk <= c)
    <3>1. ~Unlaunched(c)
      BY <2>4 DEF Unlaunched
    <3>2. slots[Tid(c)].used
      BY <2>1, <2>2, <3>1 DEF SlotInStep
    <3>3. QED
      BY <1>1, <2>4, <3>2 DEF Chunks
  <2>5. QED
    BY <2>3, <2>4
<1>3. TM!Free = {t \in 0 .. NumChunks - 1 : t >= Tid(chunk)}
  <2>1. \A t \in 0 .. NumChunks - 1 : t + 1 \in Chunks /\ Tid(t + 1) = t
    BY DEF Chunks, Tid
  <2>2. \A t \in 0 .. NumChunks - 1 : ~slots[t].used <=> t >= Tid(chunk)
    <3> SUFFICES ASSUME NEW t \in 0 .. NumChunks - 1
                 PROVE  ~slots[t].used <=> t >= Tid(chunk)
      OBVIOUS
    <3>1. slots[t].used <=> t + 1 < chunk
      BY <1>2, <2>1
    <3>2. t + 1 < chunk <=> ~(t >= Tid(chunk))
      BY <1>1 DEF Tid, Chunks
    <3>3. QED
      BY <3>1, <3>2
  <2>3. QED
    BY <2>2 DEF TM!Free, TM!Tids
<1>4. Tid(chunk) \in TM!Free /\ \A t \in TM!Free : Tid(chunk) <= t
  BY <1>1, <1>3 DEF Chunks, Tid
<1>5. TM!CreateSlot(Tid(chunk))
  <2>1. PICK tid \in TM!Free : TM!CreateSlot(tid)
    BY <1>4 DEF CreateThread, TM!Create, TM!CreateBusy
  <2>2. tid <= Tid(chunk) /\ Tid(chunk) <= tid /\ tid \in Int
    BY <1>3, <1>4, <2>1 DEF TM!CreateSlot
  <2>3. tid = Tid(chunk)
    BY <1>1, <2>2 DEF Tid, Chunks
  <2>4. QED
    BY <2>1, <2>3
<1>6. QED
  BY <1>1, <1>5 DEF TM!CreateSlot, CreateThread

\* launch finds the slot main has just created.
LEMMA LaunchEffect ==
    ASSUME IInv, LaunchThread
    PROVE  /\ chunk \in Chunks
           /\ slots' = [slots EXCEPT ![Tid(chunk)].running = TRUE]
           /\ life' = [life EXCEPT ![Tid(chunk)] = "alive"]
           /\ phase' = phase
           /\ chunk' = IF chunk = NumChunks THEN 1 ELSE chunk + 1
           /\ chunk' \in Chunks
           /\ mainPc' = IF chunk = NumChunks THEN "wait" ELSE "create"
<1> USE ChunkAssumption
<1>1. chunk \in Chunks
  BY DEF IInv, ManagerInStep, Running, LaunchThread
<1>2. QED
  BY <1>1 DEF LaunchThread, TM!Launch, Chunks

\* wait(tid) joins the thread of the chunk.
LEMMA WaitEffect ==
    ASSUME IInv, WaitThread
    PROVE  /\ chunk \in Chunks
           /\ slots' = [slots EXCEPT ![Tid(chunk)] =
                            TM!Joined(slots[Tid(chunk)])]
           /\ life[Tid(chunk)] = "exited"
           /\ life' = [life EXCEPT ![Tid(chunk)] = "none"]
           /\ phase' = phase
           /\ chunk' = IF chunk = NumChunks THEN 1 ELSE chunk + 1
           /\ chunk' \in Chunks
           /\ mainPc' = IF chunk = NumChunks THEN "delete" ELSE "wait"
<1> USE ChunkAssumption
<1>1. chunk \in Chunks
  BY DEF IInv, ManagerInStep, Running, WaitThread
<1>2. QED
  BY <1>1 DEF WaitThread, TM!Wait, Chunks

\* The destructor finds nothing to join.
LEMMA DeleteEffect ==
    ASSUME IInv, DeleteManager
    PROVE  /\ UNCHANGED <<slots, life>>
           /\ phase' \in {"destroying", "closed"}
           /\ mainPc' = IF phase' = "closed" THEN "link" ELSE "delete"
<1> USE ChunkAssumption
<1>1. mainPc = "delete" /\ phase \in {"open", "destroying"}
  BY DEF IInv, ManagerInStep, Running, DeleteManager
<1>2. ~TM!WaitAllJoin
  <2> SUFFICES ASSUME TM!WaitAllJoin PROVE FALSE
    OBVIOUS
  <2>1. cursor \in 0 .. NumChunks - 1 /\ slots[cursor].running
    BY DEF TM!WaitAllJoin, TM!Tids
  <2>2. cursor + 1 \in Chunks /\ Tid(cursor + 1) = cursor
    BY <2>1 DEF Chunks, Tid
  <2>3. SlotInStep(cursor + 1)
    BY <1>1, <2>2 DEF IInv, SlotsInStep, Running
  <2>4. QED
    BY <1>1, <2>1, <2>2, <2>3 DEF SlotInStep, Collected
<1>3. QED
  BY <1>1, <1>2
  DEF DeleteManager, TM!Destroy, TM!WaitAll, TM!WaitAllSkip, TM!WaitAllEnd

\* The thread of a chunk ends.
LEMMA ExitEffect ==
    ASSUME NEW c \in Chunks, ExitThread(c)
    PROVE  /\ life[Tid(c)] = "alive"
           /\ life' = [life EXCEPT ![Tid(c)] = "exited"]
           /\ UNCHANGED <<slots, phase>>
BY Zenon DEF ExitThread, TM!ThreadExit

\* What a step does to the manager is an operation of the manager.
LEMMA ManagerNext == IInv /\ [Next]_vars => [TM!Next]_(TM!managerVars)
<1> USE ChunkAssumption
<1> SUFFICES ASSUME IInv, [Next]_vars PROVE [TM!Next]_(TM!managerVars)
  OBVIOUS
<1>1. CASE UNCHANGED <<slots, life, phase, cursor, result>>
  BY <1>1 DEF TM!managerVars
<1>2. CASE CreateThread
  BY <1>2 DEF CreateThread, TM!Next
<1>3. CASE LaunchThread
  <2>1. Tid(chunk) \in TM!Tids
    BY <1>3, LaunchEffect, ManagerFacts DEF TM!Tids
  <2>2. QED
    BY <1>3, <2>1 DEF LaunchThread, TM!Next
<1>4. CASE WaitThread
  <2>1. Tid(chunk) \in TM!Tids
    BY <1>4, WaitEffect, ManagerFacts DEF TM!Tids
  <2>2. QED
    BY <1>4, <2>1 DEF WaitThread, TM!Next
<1>5. CASE DeleteManager
  BY <1>5 DEF DeleteManager, TM!Next
<1>6. ASSUME NEW c \in Chunks, ExitThread(c) PROVE TM!Next
  <2>1. Tid(c) \in TM!Tids
    BY <1>6, ManagerFacts DEF TM!Tids
  <2>2. QED
    BY <1>6, <2>1 DEF ExitThread, TM!Next
<1>7. QED
  BY <1>1, <1>2, <1>3, <1>4, <1>5, <1>6, Zenon
  DEF Next, Main, ReadChunk, Ended, vars, ParseBlock, ParseAborts, Lock,
      InsertHead, FinishChunk, InsertTail, LinkHead, NoPredecessor, AllLinked,
      ScanTail, PrintReport

\* TMP is the manager TM with the proofs about it.
LEMMA SameManager ==
    /\ TM!Init <=> TMP!Init
    /\ [TM!Next]_(TM!managerVars) <=> [TMP!Next]_(TMP!managerVars)
<1>1. TM!Init <=> TMP!Init
  BY DEF TM!Init, TM!Tids, TM!FreeSlot, TMP!Init, TMP!Tids, TMP!FreeSlot
<1>2. TM!Tids = TMP!Tids /\ TM!Free = TMP!Free
  BY DEF TM!Tids, TMP!Tids, TM!Free, TMP!Free
<1>3. TM!Create <=> TMP!Create
  BY <1>2 DEF TM!Create, TM!CreateBusy, TM!CreateSlot, TM!Created,
              TMP!Create, TMP!CreateBusy, TMP!CreateSlot, TMP!Created
<1>4. TM!CreateAborts <=> TMP!CreateAborts
  BY <1>2 DEF TM!CreateAborts, TM!Abort, TMP!CreateAborts, TMP!Abort
<1>5. ASSUME NEW tid \in TM!Tids
      PROVE  /\ TM!Launch(tid) <=> TMP!Launch(tid)
             /\ TM!LaunchAborts(tid) <=> TMP!LaunchAborts(tid)
             /\ TM!Wait(tid) <=> TMP!Wait(tid)
             /\ TM!WaitAborts(tid) <=> TMP!WaitAborts(tid)
             /\ TM!ThreadExit(tid) <=> TMP!ThreadExit(tid)
  BY DEF TM!Launch, TM!MayLaunch, TM!LaunchAborts, TM!Wait, TM!Joined,
         TM!WaitAborts, TM!Abort, TM!ThreadExit, TMP!Launch, TMP!MayLaunch,
         TMP!LaunchAborts, TMP!Wait, TMP!Joined, TMP!WaitAborts, TMP!Abort,
         TMP!ThreadExit
<1>6. /\ TM!WaitAllStart <=> TMP!WaitAllStart
      /\ TM!Destroy <=> TMP!Destroy
      /\ TM!Gone <=> TMP!Gone
  BY DEF TM!WaitAllStart, TM!Destroy, TM!Gone, TM!managerVars,
         TMP!WaitAllStart, TMP!Destroy, TMP!Gone, TMP!managerVars
<1>7. TM!WaitAll <=> TMP!WaitAll
  BY <1>2 DEF TM!WaitAll, TM!WaitAllSkip, TM!WaitAllJoin, TM!WaitAllEnd,
              TM!Joined, TMP!WaitAll, TMP!WaitAllSkip, TMP!WaitAllJoin,
              TMP!WaitAllEnd, TMP!Joined
<1>8. TM!Next <=> TMP!Next
  BY <1>2, <1>3, <1>4, <1>5, <1>6, <1>7 DEF TM!Next, TMP!Next
<1>9. QED
  BY <1>1, <1>8 DEF TM!managerVars, TMP!managerVars

\* The inductive invariant of the manager is kept.
LEMMA ManagerStep == IInv /\ [Next]_vars => TMP!IInv'
<1>1. IInv => TMP!IInv
  BY DEF IInv
<1>2. QED
  BY <1>1, ChunkAssumption, LedgerAssumption, ManagerNext, SameManager,
     TMP!TypeStep, TMP!RunningStep, TMP!SlotsStep, TMP!JoiningStep
  DEF TMP!IInv

-----------------------------------------------------------------------------
(* Types and control.                                                       *)

LEMMA MainTypesStep == IInv /\ [Next]_vars => MainTypes'
<1> SUFFICES ASSUME IInv, [Next]_vars PROVE MainTypes'
  OBVIOUS
<1> USE DEF MainTypes
<1>1. MainTypes
  BY DEF IInv
<1>2. CASE UNCHANGED vars
  BY <1>1, <1>2 DEF vars, mergeVars
<1>3. ASSUME NEW c \in Chunks, ReadChunk(c) PROVE MainTypes'
  <2>1. CASE InsertHead(c)
    BY <1>1, <2>1 DEF InsertHead, mergeVars
  <2>2. CASE InsertTail(c)
    BY <1>1, <2>2 DEF InsertTail, mergeVars, Put
  <2>3. CASE ParseAborts(c)
    BY <1>1, <2>3 DEF ParseAborts, mergeVars
  <2>4. CASE UNCHANGED <<file, mainPc, chunk, heads, tails, mergeVars>>
    BY <1>1, <2>4 DEF mergeVars
  <2>5. QED
    BY <1>3, <2>1, <2>2, <2>3, <2>4
    DEF ReadChunk, ParseBlock, Lock, FinishChunk, ExitThread
<1>4. CASE CreateThread
  BY <1>1, <1>4, CreateEffect DEF CreateThread, mergeVars
<1>5. CASE LaunchThread
  BY <1>1, <1>5, LaunchEffect DEF LaunchThread, mergeVars
<1>6. CASE WaitThread
  BY <1>1, <1>6, WaitEffect DEF WaitThread, mergeVars
<1>7. CASE DeleteManager
  BY <1>1, <1>7, DeleteEffect DEF DeleteManager, mergeVars
<1>8. CASE LinkHead
  BY <1>1, <1>8 DEF LinkHead
<1>9. CASE NoPredecessor
  BY <1>1, <1>9 DEF NoPredecessor
<1>10. CASE AllLinked
  BY <1>1, <1>10 DEF AllLinked, mergeVars
<1>11. CASE ScanTail
  BY <1>1, <1>11 DEF ScanTail
<1>12. CASE PrintReport
  BY <1>1, <1>12 DEF PrintReport, mergeVars
<1>13. QED
  BY <1>2, <1>3, <1>4, <1>5, <1>6, <1>7, <1>8, <1>9, <1>10, <1>11, <1>12
  DEF Next, Main, Ended

\* The steps of main leave the threads alone, but for the launch.
LEMMA MainFrame ==
    ASSUME Main \/ Ended \/ UNCHANGED vars
    PROVE  /\ UNCHANGED <<file, pos, bmap, tip, mutex, heads, tails>>
           /\ LaunchThread \/ UNCHANGED pc
<1> USE DEF Main, Ended, vars, threadVars, mergeVars
<1>1. CASE LaunchThread
  BY <1>1, Zenon DEF LaunchThread
<1>2. CASE ~LaunchThread
  BY <1>2, Zenon DEF CreateThread, WaitThread, DeleteManager, LinkHead,
              NoPredecessor, AllLinked, ScanTail, PrintReport
<1>3. QED
  BY <1>1, <1>2

LEMMA ThreadTypesStep == IInv /\ [Next]_vars => ThreadTypes'
<1> SUFFICES ASSUME IInv, [Next]_vars PROVE ThreadTypes'
  OBVIOUS
<1> USE DEF ThreadTypes
<1>1. ThreadTypes /\ file \in Files
  BY DEF IInv, MainTypes
<1>2. \A c \in Chunks : Len(file[c].blocks) \in Nat
  BY <1>1, BlocksAreCounted DEF Chunks
<1>3. CASE LaunchThread
  BY <1>1, <1>3, MainFrame, LaunchEffect DEF Main, LaunchThread
<1>4. CASE (Main \/ Ended \/ UNCHANGED vars) /\ ~LaunchThread
  BY <1>1, <1>4, MainFrame
<1>5. ASSUME NEW c \in Chunks, ReadChunk(c) PROVE ThreadTypes'
  <2>1. CASE ParseBlock(c)
    <3>1. pos' = [pos EXCEPT ![c] = @ + 1] /\ file' = file /\ mutex' = mutex
      BY <2>1 DEF ParseBlock
    <3>2. pos[c] <= Len(file[c].blocks)
      BY <2>1 DEF ParseBlock, HasBlock
    <3>3. \A d \in Chunks : pos'[d] \in 1 .. Len(file[d].blocks) + 1
      BY <1>1, <1>2, <3>1, <3>2
    <3>4. pc' \in [Chunks -> {"none", "parse", "lockHead", "insertHead",
                              "lockTail", "insertTail", "exit"}]
      BY <1>1, <2>1 DEF ParseBlock, Move
    <3>5. DOMAIN tip' = Chunks /\ DOMAIN bmap' = Chunks /\ DOMAIN pos' = Chunks
      BY <1>1, <2>1 DEF ParseBlock
    <3>6. QED
      BY <1>1, <3>1, <3>3, <3>4, <3>5
  <2>2. CASE ParseAborts(c)
    BY <1>1, <2>2 DEF ParseAborts, threadVars
  <2>3. CASE Lock(c, "lockHead", "insertHead") \/ Lock(c, "lockTail", "insertTail")
    BY <1>1, <2>3 DEF Lock, Move
  <2>4. CASE InsertHead(c) \/ InsertTail(c)
    BY <1>1, <2>4 DEF InsertHead, InsertTail, Move
  <2>5. CASE FinishChunk(c) \/ ExitThread(c)
    BY <1>1, <2>5, Zenon DEF FinishChunk, ExitThread, Move
  <2>6. QED
    BY <1>5, <2>1, <2>2, <2>3, <2>4, <2>5 DEF ReadChunk
<1>6. QED
  BY <1>3, <1>4, <1>5 DEF Next

\* The manager is open until main deletes it, and closed when main merges.
LEMMA ManagerInStepStep == IInv /\ [Next]_vars => ManagerInStep'
<1> SUFFICES ASSUME IInv, [Next]_vars PROVE ManagerInStep'
  OBVIOUS
<1> USE ChunkAssumption DEF ManagerInStep, Running
<1>1. ManagerInStep
  BY DEF IInv
<1>2. CASE UNCHANGED <<mainPc, chunk, phase>> \/ mainPc' = "aborted"
  BY <1>1, <1>2 DEF Chunks
<1>3. CASE CreateThread
  BY <1>1, <1>3, CreateEffect DEF CreateThread, Chunks
<1>4. CASE LaunchThread
  BY <1>1, <1>4, LaunchEffect DEF LaunchThread, Chunks
<1>5. CASE WaitThread
  BY <1>1, <1>5, WaitEffect DEF WaitThread, Chunks
<1>6. CASE DeleteManager
  BY <1>1, <1>6, DeleteEffect DEF DeleteManager, Chunks
<1>7. CASE NoPredecessor
  BY <1>1, <1>7 DEF NoPredecessor, Chunks
<1>8. CASE AllLinked
  BY <1>1, <1>8 DEF AllLinked, Chunks
<1>9. CASE PrintReport
  BY <1>1, <1>9 DEF PrintReport, Chunks
<1>10. ASSUME NEW c \in Chunks, ExitThread(c) PROVE ManagerInStep'
  BY <1>1, <1>10, ExitEffect, Zenon DEF ExitThread, Chunks
<1>11. QED
  BY <1>2, <1>3, <1>4, <1>5, <1>6, <1>7, <1>8, <1>9, <1>10, Zenon
  DEF Next, Main, Ended, ReadChunk, vars, ParseBlock, ParseAborts, Lock,
      InsertHead, FinishChunk, InsertTail, LinkHead, ScanTail

\* The slots follow main's counter.
LEMMA SlotsInStepStep == IInv /\ [Next]_vars => SlotsInStep'
<1> SUFFICES ASSUME IInv, [Next]_vars, Running', NEW d \in Chunks
             PROVE  SlotInStep(d)'
  BY DEF SlotsInStep, Chunks
<1> USE ChunkAssumption DEF SlotInStep, Unlaunched, Collected
<1>0. Tid(d)' = Tid(d)
  BY DEF Tid
<1>1. ManagerInStep
  BY DEF IInv
<1>2. CASE UNCHANGED <<mainPc, chunk, slots>>
  <2>1. SlotInStep(d)
    BY <1>2 DEF IInv, SlotsInStep, Running
  <2>2. QED
    BY <1>0, <1>2, <2>1
<1>3. CASE CreateThread
  <2>1. SlotInStep(d) /\ mainPc = "create"
    BY <1>3 DEF IInv, SlotsInStep, Running, CreateThread
  <2>2. chunk' = chunk
    BY <1>3 DEF CreateThread
  <2>3. CASE d = chunk
    <3>1. slots'[Tid(d)] = TM!Created(slots[Tid(d)])
      BY <1>3, <2>3, CreateEffect, ManagerFacts
    <3>2. /\ slots'[Tid(d)].used
          /\ slots'[Tid(d)].thfunc
          /\ slots'[Tid(d)].running <=> slots[Tid(d)].running
      BY <3>1, ManagerFacts DEF TM!Created
    <3>3. QED
      BY <1>0, <1>3, <2>1, <2>2, <2>3, <3>2, CreateEffect DEF Chunks
  <2>4. CASE d # chunk
    <3>1. Tid(d) # Tid(chunk)
      BY <1>3, <2>4, CreateEffect DEF Tid, Chunks
    <3>2. slots'[Tid(d)] = slots[Tid(d)]
      BY <1>3, <3>1, CreateEffect, ManagerFacts
    <3>3. QED
      BY <1>0, <1>3, <2>1, <2>2, <2>4, <3>2, CreateEffect
  <2>5. QED
    BY <2>3, <2>4
<1>4. CASE LaunchThread
  <2>1. SlotInStep(d) /\ mainPc = "launch" /\ chunk \in Chunks
    BY <1>4, LaunchEffect DEF IInv, SlotsInStep, Running, LaunchThread
  <2>2. ~Unlaunched(d)' <=> ~Unlaunched(d) \/ d = chunk
    BY <1>4, <2>1, LaunchEffect DEF Chunks
  <2>3. ~Collected(d)' /\ ~Collected(d)
    BY <1>4, <2>1, LaunchEffect DEF Chunks
  <2>4. mainPc' # "launch"
    BY <1>4, LaunchEffect
  <2>5. CASE d = chunk
    <3>1. slots'[Tid(d)].running /\ slots'[Tid(d)].used
      BY <1>4, <2>1, <2>5, LaunchEffect, ManagerFacts
    <3>2. QED
      BY <1>0, <2>2, <2>3, <2>4, <2>5, <3>1
  <2>6. CASE d # chunk
    <3>1. Tid(d) # Tid(chunk)
      BY <2>1, <2>6 DEF Tid, Chunks
    <3>2. slots'[Tid(d)] = slots[Tid(d)]
      BY <1>4, <3>1, LaunchEffect, ManagerFacts
    <3>3. QED
      BY <1>0, <2>1, <2>2, <2>3, <2>4, <2>6, <3>2
  <2>7. QED
    BY <2>5, <2>6
<1>5. CASE WaitThread
  <2>1. SlotInStep(d) /\ mainPc = "wait" /\ chunk \in Chunks
    BY <1>5, WaitEffect DEF IInv, SlotsInStep, Running, WaitThread
  <2>2. Collected(d)' <=> Collected(d) \/ d = chunk
    BY <1>5, <2>1, WaitEffect DEF Chunks
  <2>3. ~Unlaunched(d)' /\ ~Unlaunched(d) /\ mainPc' # "launch"
    BY <1>5, <2>1, WaitEffect
  <2>4. CASE d = chunk
    <3>1. ~slots'[Tid(d)].running
      BY <1>5, <2>1, <2>4, WaitEffect, ManagerFacts, ZenonT(60) DEF TM!Joined
    <3>2. QED
      BY <1>0, <2>2, <2>3, <2>4, <3>1
  <2>5. CASE d # chunk
    <3>1. Tid(d) # Tid(chunk)
      BY <2>1, <2>5 DEF Tid, Chunks
    <3>2. slots'[Tid(d)] = slots[Tid(d)]
      BY <1>5, <3>1, WaitEffect, ManagerFacts
    <3>3. QED
      BY <1>0, <2>1, <2>2, <2>3, <2>5, <3>2
  <2>6. QED
    BY <2>4, <2>5
<1>6. ASSUME mainPc \in {"delete", "link", "scan", "done"},
             mainPc' \in {"delete", "link", "scan", "done"},
             UNCHANGED slots
      PROVE  SlotInStep(d)'
  <2>1. SlotInStep(d)
    BY <1>6 DEF IInv, SlotsInStep, Running
  <2>2. QED
    BY <1>0, <1>6, <2>1
<1>7. CASE DeleteManager
  BY <1>6, <1>7, DeleteEffect DEF DeleteManager
<1>8. CASE NoPredecessor
  BY <1>6, <1>8 DEF NoPredecessor
<1>9. CASE AllLinked
  BY <1>6, <1>9 DEF AllLinked
<1>10. CASE PrintReport
  BY <1>6, <1>10 DEF PrintReport
<1>11. ASSUME NEW c \in Chunks, ExitThread(c) PROVE UNCHANGED <<mainPc, chunk, slots>>
  BY <1>11, ExitEffect DEF ExitThread
<1>12. ASSUME NEW c \in Chunks, ParseAborts(c) PROVE FALSE
  BY <1>12, Zenon DEF ParseAborts, Running
<1>13. QED
  BY <1>2, <1>3, <1>4, <1>5, <1>7, <1>8, <1>9, <1>10, <1>11, <1>12, Zenon
  DEF Next, Main, Ended, ReadChunk, vars, ParseBlock, Lock,
      InsertHead, FinishChunk, InsertTail, LinkHead, ScanTail

\* Threads start and end together with what the model says of them.
LEMMA ThreadsAreAliveStep == IInv /\ [Next]_vars => ThreadsAreAlive'
<1> SUFFICES ASSUME IInv, [Next]_vars, Running', NEW d \in Chunks
             PROVE  (pc[d] # "none" <=> life[Tid(d)] = "alive")'
  BY Zenon DEF ThreadsAreAlive, Chunks
<1> USE ChunkAssumption
<1>0. Tid(d)' = Tid(d)
  BY DEF Tid
<1>1. Running
  BY Zenon DEF Next, Main, ReadChunk, Ended, Running, vars, CreateThread,
         LaunchThread, WaitThread, DeleteManager, LinkHead, NoPredecessor,
         AllLinked, ScanTail, PrintReport, ParseBlock, ParseAborts, Lock,
         InsertHead, FinishChunk, InsertTail, ExitThread
<1>2. ThreadTypes /\ (pc[d] # "none" <=> life[Tid(d)] = "alive")
  BY <1>1 DEF IInv, ThreadsAreAlive
<1>3. CASE UNCHANGED <<pc, life>>
  BY <1>0, <1>2, <1>3
<1>4. CASE LaunchThread
  <2>1. pc' = [pc EXCEPT ![chunk] = "parse"]
    BY <1>4 DEF LaunchThread
  <2>2. CASE d = chunk
    BY <1>0, <1>2, <1>4, <2>1, <2>2, LaunchEffect, ManagerFacts DEF ThreadTypes
  <2>3. CASE d # chunk
    <3>1. Tid(d) # Tid(chunk)
      BY <1>4, <2>3, LaunchEffect DEF Tid, Chunks
    <3>2. QED
      BY <1>0, <1>2, <1>4, <2>1, <2>3, <3>1, LaunchEffect, ManagerFacts
      DEF ThreadTypes
  <2>4. QED
    BY <2>2, <2>3
<1>5. CASE WaitThread
  <2>1. pc' = pc
    BY <1>5 DEF WaitThread, threadVars
  <2>2. CASE d = chunk
    BY <1>0, <1>2, <1>5, <2>1, <2>2, WaitEffect, ManagerFacts
  <2>3. CASE d # chunk
    <3>1. Tid(d) # Tid(chunk)
      BY <1>5, <2>3, WaitEffect DEF Tid, Chunks
    <3>2. QED
      BY <1>0, <1>2, <1>5, <2>1, <3>1, WaitEffect, ManagerFacts
  <2>4. QED
    BY <2>2, <2>3
<1>6. ASSUME NEW c \in Chunks, ExitThread(c)
      PROVE  (pc[d] # "none" <=> life[Tid(d)] = "alive")'
  <2>1. pc' = [pc EXCEPT ![c] = "none"]
    BY <1>6 DEF ExitThread, Move
  <2>2. CASE d = c
    BY <1>0, <1>2, <1>6, <2>1, <2>2, ExitEffect, ManagerFacts DEF ThreadTypes
  <2>3. CASE d # c
    <3>1. Tid(d) # Tid(c)
      BY <2>3 DEF Tid, Chunks
    <3>2. QED
      BY <1>0, <1>2, <1>6, <2>1, <2>3, <3>1, ExitEffect, ManagerFacts
      DEF ThreadTypes
  <2>4. QED
    BY <2>2, <2>3
<1>7. ASSUME NEW c \in Chunks, life' = life, NEW from, NEW to,
             from # "none", to # "none", Move(c, from, to)
      PROVE  (pc[d] # "none" <=> life[Tid(d)] = "alive")'
  BY <1>0, <1>2, <1>7 DEF Move, ThreadTypes
<1>8. CASE CreateThread
  BY <1>3, <1>8, CreateEffect DEF CreateThread, threadVars
<1>9. CASE DeleteManager
  BY <1>3, <1>9, DeleteEffect DEF DeleteManager, threadVars
<1>10. ASSUME NEW c \in Chunks, ParseBlock(c)
       PROVE  (pc[d] # "none" <=> life[Tid(d)] = "alive")'
  <2>1. PICK to \in {"lockHead", "parse"} : Move(c, "parse", to)
    BY <1>10 DEF ParseBlock
  <2>2. life' = life
    BY <1>10 DEF ParseBlock
  <2>3. QED
    BY <1>7, <2>1, <2>2
<1>11. ASSUME NEW c \in Chunks, ReadChunk(c), ~ExitThread(c), ~ParseBlock(c)
       PROVE  (pc[d] # "none" <=> life[Tid(d)] = "alive")'
  <2>1. CASE ParseAborts(c)
    BY <1>3, <2>1 DEF ParseAborts, threadVars
  <2>2. CASE Lock(c, "lockHead", "insertHead")
    BY <1>7, <2>2 DEF Lock
  <2>3. CASE Lock(c, "lockTail", "insertTail")
    BY <1>7, <2>3 DEF Lock
  <2>4. CASE InsertHead(c)
    BY <1>7, <2>4 DEF InsertHead
  <2>5. CASE InsertTail(c)
    BY <1>7, <2>5 DEF InsertTail
  <2>6. CASE FinishChunk(c)
    BY <1>7, <2>6 DEF FinishChunk
  <2>7. QED
    BY <1>11, <2>1, <2>2, <2>3, <2>4, <2>5, <2>6 DEF ReadChunk
<1>12. QED
  BY <1>3, <1>4, <1>5, <1>6, <1>8, <1>9, <1>10, <1>11, Zenon
  DEF Next, Main, Ended, vars, LinkHead, NoPredecessor, AllLinked, ScanTail,
      PrintReport, threadVars

\* A thread takes steps only between its launch and its join.
LEMMA ThreadIsOut ==
    ASSUME IInv, NEW c \in Chunks, ReadChunk(c)
    PROVE  /\ Running
           /\ pc[c] # "none"
           /\ ~Unlaunched(c) /\ ~Collected(c)
           /\ mainPc \in {"create", "launch", "wait"}
<1>1. Running /\ pc[c] # "none"
  BY DEF ReadChunk, Running, ParseBlock, ParseAborts, Lock, InsertHead,
         FinishChunk, InsertTail, ExitThread, Move
<1>2. life[Tid(c)] = "alive"
  BY <1>1 DEF IInv, ThreadsAreAlive
<1>3. slots[Tid(c)].running
  BY <1>2, ManagerFacts
<1>4. ~Unlaunched(c) /\ ~Collected(c)
  BY <1>1, <1>3 DEF IInv, SlotsInStep, SlotInStep
<1>5. QED
  BY <1>1, <1>4 DEF IInv, MainTypes, Collected, Running

LEMMA UntouchedStep == IInv /\ [Next]_vars => UnlaunchedUntouched'
<1> SUFFICES ASSUME IInv, [Next]_vars, Running', NEW d \in Chunks,
                    Unlaunched(d)'
             PROVE  Untouched(d)'
  BY DEF UnlaunchedUntouched, Chunks
<1> USE ChunkAssumption
<1>1. ASSUME Unlaunched(d), Running, UNCHANGED <<pos, tip, bmap>>
      PROVE  Untouched(d)'
  BY <1>1 DEF IInv, UnlaunchedUntouched, Untouched
<1>2. CASE UNCHANGED <<mainPc, chunk, pos, tip, bmap>>
  BY <1>1, <1>2 DEF Unlaunched, Running
<1>3. CASE Main
  <2>1. UNCHANGED <<pos, tip, bmap>>
    BY <1>3, MainFrame
  <2>2. Unlaunched(d) /\ Running
    <3>1. CASE CreateThread
      BY <3>1, CreateEffect DEF CreateThread, Unlaunched, Running
    <3>2. CASE LaunchThread
      BY <3>2, LaunchEffect, SMTT(30) DEF LaunchThread, Unlaunched, Running, Chunks
    <3>3. CASE LinkHead \/ ScanTail
      BY <3>3, Zenon DEF LinkHead, ScanTail, Unlaunched, Running
    <3>4. CASE WaitThread
      BY <3>4, WaitEffect DEF Unlaunched
    <3>5. CASE DeleteManager
      BY <3>5, DeleteEffect DEF Unlaunched
    <3>6. QED
      BY <1>3, <3>1, <3>2, <3>3, <3>4, <3>5
      DEF Main, NoPredecessor, AllLinked, PrintReport, Unlaunched
  <2>3. QED
    BY <1>1, <2>1, <2>2
<1>4. ASSUME NEW c \in Chunks, ReadChunk(c) PROVE Untouched(d)'
  <2>1. mainPc' = mainPc /\ chunk' = chunk
    BY <1>4 DEF ReadChunk, ParseBlock, ParseAborts, Lock, InsertHead,
                FinishChunk, InsertTail, ExitThread, Running
  <2>2. Unlaunched(d) /\ c # d /\ Running
    BY <1>4, <2>1, ThreadIsOut DEF Unlaunched
  <2>3. CASE ParseBlock(c)
    <3>1. pos'[d] = pos[d] /\ tip'[d] = tip[d] /\ bmap'[d] = bmap[d]
      BY <2>2, <2>3 DEF ParseBlock, IInv, ThreadTypes
    <3>2. QED
      BY <2>2, <3>1 DEF IInv, UnlaunchedUntouched, Untouched
  <2>4. CASE UNCHANGED <<pos, tip, bmap>>
    BY <1>1, <2>2, <2>4
  <2>5. QED
    BY <1>4, <2>3, <2>4
    DEF ReadChunk, ParseAborts, Lock, InsertHead, FinishChunk, InsertTail,
        ExitThread, threadVars
<1>5. QED
  BY <1>2, <1>3, <1>4 DEF Next, Ended, vars, threadVars

LEMMA MutexStep == IInv /\ [Next]_vars => MutexHeld'
<1> SUFFICES ASSUME IInv, [Next]_vars, NEW d \in Chunks
             PROVE  (pc[d] \in {"insertHead", "insertTail"} <=> mutex = d)'
  BY DEF MutexHeld, Chunks
<1> USE ChunkAssumption
<1>1. /\ ThreadTypes /\ \A c \in Chunks : c # 0
      /\ \A c \in Chunks : pc[c] \in {"insertHead", "insertTail"} <=> mutex = c
  BY DEF IInv, MutexHeld, Chunks
<1>2. CASE UNCHANGED <<pc, mutex>>
  BY <1>1, <1>2
<1>3. CASE LaunchThread
  <2>1. pc' = [pc EXCEPT ![chunk] = "parse"] /\ mutex' = mutex
    BY <1>3 DEF LaunchThread
  <2>2. chunk \in Chunks /\ pc[chunk] = "none"
    <3>1. chunk \in Chunks /\ Running /\ mainPc = "launch"
      BY <1>3, LaunchEffect DEF LaunchThread, Running
    <3>2. ~slots[Tid(chunk)].running
      BY <3>1 DEF IInv, SlotsInStep, SlotInStep, Unlaunched, Chunks
    <3>3. QED
      BY <3>1, <3>2, ManagerFacts DEF IInv, ThreadsAreAlive
  <2>3. QED
    BY <1>1, <2>1, <2>2 DEF ThreadTypes
<1>4. ASSUME NEW c \in Chunks, ReadChunk(c)
      PROVE  (pc[d] \in {"insertHead", "insertTail"} <=> mutex = d)'
  <2>1. CASE ParseBlock(c) \/ FinishChunk(c) \/ ExitThread(c)
    <3>1. PICK from \in {"parse", "exit"},
               to \in {"lockHead", "parse", "lockTail", "exit", "none"} :
                   Move(c, from, to)
      BY <2>1 DEF ParseBlock, FinishChunk, ExitThread
    <3>2. mutex' = mutex
      BY <2>1 DEF ParseBlock, FinishChunk, ExitThread
    <3>3. QED
      BY <1>1, <3>1, <3>2 DEF Move, ThreadTypes
  <2>2. CASE ParseAborts(c)
    BY <1>2, <2>2 DEF ParseAborts, threadVars
  <2>3. CASE Lock(c, "lockHead", "insertHead") \/ Lock(c, "lockTail", "insertTail")
    BY <1>1, <2>3 DEF Lock, Move, ThreadTypes
  <2>4. CASE InsertHead(c) \/ InsertTail(c)
    BY <1>1, <2>4 DEF InsertHead, InsertTail, Move, ThreadTypes
  <2>5. QED
    BY <1>4, <2>1, <2>2, <2>3, <2>4 DEF ReadChunk
<1>5. QED
  BY <1>2, <1>3, <1>4, MainFrame DEF Next

-----------------------------------------------------------------------------
(* The objects.                                                             *)

\* An object read into the heap is new: the heap of the other threads, and
\* of the blocks this thread has passed, is as it was.
LEMMA ParseHeap ==
    ASSUME NEW c \in Chunks, ParseBlock(c)
    PROVE  /\ DOMAIN heap \cup {<<c, pos[c]>>} \subseteq DOMAIN heap'
           /\ heap'[<<c, pos[c]>>].blk = BlockAt(c)
           /\ \A x \in DOMAIN heap :
                 (x # <<c, 0>> /\ x # <<c, pos[c]>>) => heap'[x] = heap[x]
<1> DEFINE id == <<c, pos[c]>>
           h  == HeapFor(c)
<1>1. heap' = Put(h, id, NewBlock(h, BlockAt(c), PrevFor(c)))
  BY DEF ParseBlock
<1>2. /\ DOMAIN heap \subseteq DOMAIN h
      /\ \A x \in DOMAIN heap : x # <<c, 0>> => h[x] = heap[x]
  BY DEF HeapFor, Put
<1>3. heap'[id].blk = BlockAt(c)
  BY <1>1 DEF Put, NewBlock
<1>4. QED
  BY <1>1, <1>2, <1>3 DEF Put

\* No object is ever taken out of the heap.
LEMMA HeapGrows == [Next]_vars => DOMAIN heap \subseteq DOMAIN heap'
<1> SUFFICES ASSUME [Next]_vars PROVE DOMAIN heap \subseteq DOMAIN heap'
  OBVIOUS
<1>1. ASSUME NEW c \in Chunks, ParseBlock(c)
      PROVE  DOMAIN heap \subseteq DOMAIN heap'
  BY <1>1, ParseHeap
<1>2. CASE LinkHead
  BY <1>2 DEF LinkHead
<1>3. CASE ScanTail
  BY <1>3 DEF ScanTail, Recomputed
<1>4. QED
  BY <1>1, <1>2, <1>3
  DEF Next, Main, Ended, ReadChunk, vars, CreateThread, LaunchThread,
      WaitThread, DeleteManager, NoPredecessor, AllLinked, PrintReport,
      ParseAborts, Lock, InsertHead, FinishChunk, InsertTail, ExitThread

\* What a turn of the loop does to its own chunk.
LEMMA ParseOwn ==
    ASSUME IInv, NEW c \in Chunks, ParseBlock(c)
    PROVE  /\ pc[c] = "parse" /\ pos[c] \in Nat /\ pos[c] >= 1
           /\ pos'[c] = pos[c] + 1
           /\ pc'[c] \in {"parse", "lockHead"}
           /\ \/ /\ tip'[c] = <<c, pos[c]>>
                 /\ bmap'[c] = Put(bmap[c], BlockAt(c).hash, <<c, pos[c]>>)
                 /\ (pos[c] = 1 /\ BlockAt(c).prev # Zero)
                        => pc'[c] = "lockHead"
              \/ tip'[c] = tip[c] /\ bmap'[c] = bmap[c]
           /\ pc'[c] = "lockHead" => pos[c] = 1
           /\ \A d \in Chunks \ {c} : /\ pos'[d] = pos[d] /\ tip'[d] = tip[d]
                                      /\ bmap'[d] = bmap[d] /\ pc'[d] = pc[d]
           /\ UNCHANGED <<mainPc, chunk, file, heads, tails, linked>>
<1>1. ThreadTypes /\ Len(file[c].blocks) \in Nat
  BY BlocksAreCounted DEF IInv, MainTypes, Chunks
<1>2. pos[c] \in Nat /\ pos[c] >= 1
  BY <1>1 DEF ThreadTypes
<1>3. /\ pc[c] = "parse"
      /\ pc'[c] \in {"parse", "lockHead"}
      /\ pc'[c] = "lockHead" => pos[c] = 1
      /\ \A d \in Chunks \ {c} : pc'[d] = pc[d]
  BY <1>1 DEF ParseBlock, Move, ThreadTypes
<1>4. pos'[c] = pos[c] + 1 /\ \A d \in Chunks \ {c} : pos'[d] = pos[d]
  BY <1>1 DEF ParseBlock, ThreadTypes
<1>5. UNCHANGED <<mainPc, chunk, file, heads, tails, linked>>
  BY DEF ParseBlock, mergeVars
<1>6. CASE IsValid(HeapFor(c), BlockAt(c), PrevFor(c))
  <2>1. /\ tip' = [tip EXCEPT ![c] = <<c, pos[c]>>]
        /\ bmap' = [bmap EXCEPT ![c] =
                        Put(@, BlockAt(c).hash, <<c, pos[c]>>)]
    BY <1>6 DEF ParseBlock
  <2>2. (pos[c] = 1 /\ BlockAt(c).prev # Zero) => pc'[c] = "lockHead"
    BY <1>1, <1>6 DEF ParseBlock, Move, ThreadTypes
  <2>3. QED
    BY <1>1, <1>2, <1>3, <1>4, <1>5, <2>1, <2>2 DEF ThreadTypes
<1>7. CASE ~IsValid(HeapFor(c), BlockAt(c), PrevFor(c))
  <2>1. tip' = tip /\ bmap' = bmap
    BY <1>7 DEF ParseBlock
  <2>2. QED
    BY <1>2, <1>3, <1>4, <1>5, <2>1
<1>8. QED
  BY <1>6, <1>7

LEMMA ObjectsStep == IInv /\ [Next]_vars => ObjectsOwned'
<1> DEFINE Own(d) ==
        /\ tip[d] # NoBlock => tip[d] \in Built(d)
        /\ \A h \in DOMAIN bmap[d] : bmap[d][h] \in Built(d)
        /\ pc[d] \in {"lockHead", "insertHead"} => <<d, 1>> \in DOMAIN heap
        /\ pc[d] \in {"lockTail", "insertTail"} => tip[d] # NoBlock
<1> SUFFICES ASSUME IInv, [Next]_vars, NEW d \in Chunks PROVE Own(d)'
  BY DEF ObjectsOwned, Chunks
<1>1. Own(d) /\ ThreadTypes
  BY DEF IInv, ObjectsOwned
<1>2. DOMAIN heap \subseteq DOMAIN heap'
  BY HeapGrows
<1>3. ASSUME pos'[d] = pos[d], tip'[d] = tip[d], bmap'[d] = bmap[d],
             pc'[d] = pc[d] \/ pc'[d] \in {"none", "parse", "exit"}
      PROVE  Own(d)'
  BY <1>1, <1>2, <1>3 DEF Built
<1>4. CASE Main \/ Ended \/ UNCHANGED vars
  <2>1. pos' = pos /\ tip' = tip /\ bmap' = bmap
    BY <1>4, MainFrame
  <2>2. pc'[d] = pc[d] \/ pc'[d] = "parse"
    BY <1>1, <1>4, MainFrame DEF LaunchThread, ThreadTypes
  <2>3. QED
    BY <1>3, <2>1, <2>2
<1>5. ASSUME NEW c \in Chunks, ReadChunk(c) PROVE Own(d)'
  <2>1. CASE ParseBlock(c)
    <3>1. CASE c # d
      BY <1>3, <2>1, <3>1, ParseOwn
    <3>2. CASE c = d
      <4>1. pos[d] \in Nat /\ pos[d] >= 1 /\ pos'[d] = pos[d] + 1
        BY <2>1, <3>2, ParseOwn
      <4>2. <<d, pos[d]>> \in Built(d)'
        BY <2>1, <3>2, <4>1, ParseHeap DEF Built
      <4>3. Built(d) \subseteq Built(d)'
        BY <1>2, <4>1 DEF Built
      <4>4. pc'[d] \in {"lockHead", "insertHead"} => <<d, 1>> \in DOMAIN heap'
        BY <2>1, <3>2, ParseOwn, ParseHeap
      <4>5. pc'[d] \notin {"lockTail", "insertTail"}
        BY <2>1, <3>2, ParseOwn
      <4>6. tip'[d] # NoBlock => tip'[d] \in Built(d)'
        BY <1>1, <2>1, <3>2, <4>2, <4>3, ParseOwn
      <4>7. \A h \in DOMAIN bmap'[d] : bmap'[d][h] \in Built(d)'
        <5>1. \/ bmap'[d] = Put(bmap[d], BlockAt(d).hash, <<d, pos[d]>>)
              \/ bmap'[d] = bmap[d]
          BY <2>1, <3>2, ParseOwn
        <5>2. CASE bmap'[d] = bmap[d]
          BY <1>1, <4>3, <5>2
        <5>3. CASE bmap'[d] = Put(bmap[d], BlockAt(d).hash, <<d, pos[d]>>)
          <6> TAKE h \in DOMAIN bmap'[d]
          <6>1. \/ h \in DOMAIN bmap[d] /\ bmap'[d][h] = bmap[d][h]
                \/ bmap'[d][h] = <<d, pos[d]>>
            BY <5>3 DEF Put
          <6>2. QED
            BY <1>1, <4>2, <4>3, <6>1
        <5>4. QED
          BY <5>1, <5>2, <5>3
      <4>8. QED
        BY <4>4, <4>5, <4>6, <4>7
    <3>3. QED
      BY <3>1, <3>2
  <2>2. CASE Lock(c, "lockHead", "insertHead") \/ Lock(c, "lockTail", "insertTail")
    <3>1. UNCHANGED <<pos, tip, bmap>>
      BY <2>2 DEF Lock
    <3>2. \/ pc'[d] = pc[d]
          \/ pc[d] = "lockHead" /\ pc'[d] = "insertHead"
          \/ pc[d] = "lockTail" /\ pc'[d] = "insertTail"
      BY <1>1, <2>2 DEF Lock, Move, ThreadTypes
    <3>3. QED
      BY <1>1, <1>2, <3>1, <3>2 DEF Built
  <2>3. CASE FinishChunk(c)
    <3>1. UNCHANGED <<pos, tip, bmap>>
      BY <2>3 DEF FinishChunk
    <3>2. \/ pc'[d] = pc[d]
          \/ pc'[d] = "lockTail" /\ tip[d] # NoBlock
          \/ pc'[d] = "exit"
      BY <1>1, <2>3 DEF FinishChunk, Move, ThreadTypes, TipMatchesMap
    <3>3. QED
      BY <1>1, <1>2, <3>1, <3>2 DEF Built
  <2>4. CASE InsertHead(c) \/ InsertTail(c) \/ ExitThread(c)
    <3>1. UNCHANGED <<pos, tip, bmap>>
      BY <2>4 DEF InsertHead, InsertTail, ExitThread
    <3>2. pc'[d] = pc[d] \/ pc'[d] \in {"none", "parse", "exit"}
      BY <1>1, <2>4 DEF InsertHead, InsertTail, ExitThread, Move, ThreadTypes
    <3>3. QED
      BY <1>3, <3>1, <3>2
  <2>5. CASE ParseAborts(c)
    BY <1>3, <2>5 DEF ParseAborts, threadVars
  <2>6. QED
    BY <1>5, <2>1, <2>2, <2>3, <2>4, <2>5 DEF ReadChunk
<1>6. QED
  BY <1>4, <1>5 DEF Next

\* heads and tails hold objects of the heap.
LEMMA ContainersStep == IInv /\ [Next]_vars => ContainersHoldObjects'
<1> SUFFICES ASSUME IInv, [Next]_vars PROVE ContainersHoldObjects'
  OBVIOUS
<1> USE DEF ContainersHoldObjects
<1>1. ContainersHoldObjects /\ DOMAIN heap \subseteq DOMAIN heap'
  BY HeapGrows DEF IInv
<1>2. CASE UNCHANGED <<heads, tails>>
  BY <1>1, <1>2
<1>3. ASSUME NEW c \in Chunks, InsertHead(c) PROVE ContainersHoldObjects'
  <2>1. <<c, 1>> \in DOMAIN heap
    BY <1>3 DEF InsertHead, Move, IInv, ObjectsOwned
  <2>2. QED
    BY <1>1, <1>3, <2>1 DEF InsertHead
<1>4. ASSUME NEW c \in Chunks, InsertTail(c) PROVE ContainersHoldObjects'
  <2>1. tip[c] \in DOMAIN heap
    BY <1>4 DEF InsertTail, Move, IInv, ObjectsOwned, Built
  <2>2. QED
    BY <1>1, <1>4, <2>1 DEF InsertTail, Put
<1>5. QED
  BY <1>2, <1>3, <1>4, MainFrame
  DEF Next, ReadChunk, ParseBlock, ParseAborts, Lock, FinishChunk, ExitThread

\* A step up to the merge that reads no block leaves the objects as they are.
LEMMA MergeFrame ==
    ASSUME IInv, [Next]_vars, Unmerged',
           ~ \E c \in Chunks : ParseBlock(c)
    PROVE  /\ Unmerged
           /\ UNCHANGED <<file, heap, tip, bmap, pos>>
<1>1. CASE Main \/ Ended \/ UNCHANGED vars
  <2>1. UNCHANGED <<file, tip, bmap, pos>>
    BY <1>1, MainFrame
  <2>2. Unmerged /\ heap' = heap
    <3>1. CASE CreateThread \/ LaunchThread \/ WaitThread \/ DeleteManager
      BY <3>1 DEF CreateThread, LaunchThread, WaitThread, DeleteManager,
                  Unmerged
    <3>2. CASE LinkHead
      BY <3>2 DEF LinkHead, Unmerged
    <3>3. CASE NoPredecessor \/ AllLinked \/ ScanTail \/ PrintReport
      BY <3>3 DEF NoPredecessor, AllLinked, ScanTail, PrintReport, Unmerged
    <3>4. CASE UNCHANGED vars
      BY <3>4 DEF vars, mergeVars, Unmerged
    <3>5. QED
      BY <1>1, <3>1, <3>2, <3>3, <3>4 DEF Main, Ended
  <2>3. QED
    BY <2>1, <2>2
<1>2. ASSUME NEW c \in Chunks, ReadChunk(c), ~ParseBlock(c)
      PROVE  Unmerged /\ UNCHANGED <<file, heap, tip, bmap, pos>>
  <2>1. Unmerged
    BY <1>2, ThreadIsOut DEF Unmerged
  <2>2. QED
    BY <1>2, <2>1
    DEF ReadChunk, ParseAborts, Lock, InsertHead, FinishChunk, InsertTail,
        ExitThread, threadVars
<1>3. QED
  BY <1>1, <1>2 DEF Next

\* While a thread reads on, the last blocks of the threads that have left
\* the loop stay where they are and what they are.
LEMMA ThroughStays ==
    ASSUME IInv, NEW c \in Chunks, ParseBlock(c),
           NEW d \in Chunks, pc[d] # "parse", tip[d] # NoBlock
    PROVE  c # d /\ heap'[tip[d]] = heap[tip[d]]
<1>1. c # d
  BY ParseOwn
<1>2. tip[d] \in DOMAIN heap /\ \E n \in 1 .. pos[d] - 1 : tip[d] = <<d, n>>
  BY DEF IInv, ObjectsOwned, Built
<1>3. tip[d] # <<c, 0>> /\ tip[d] # <<c, pos[c]>>
  BY <1>1, <1>2
<1>4. QED
  BY <1>1, <1>2, <1>3, ParseHeap

\* The steps a thread takes on its way out: which chunks are through.
LEMMA ThroughStep ==
    ASSUME IInv, [Next]_vars, Unmerged', NEW d \in Chunks
    PROVE  /\ (pc[d] \in {"exit", "none"} /\ ~Unlaunched(d)) =>
                  pc'[d] \in {"exit", "none"}
           /\ (Through(d)' /\ ~Through(d)) =>
                  InsertTail(d) \/ FinishChunk(d)
<1> USE ChunkAssumption
<1>1. ThreadTypes /\ Unmerged
  <2>1. ASSUME NEW c \in Chunks, ParseBlock(c) PROVE Unmerged
    BY <2>1, ThreadIsOut DEF Unmerged, ReadChunk
  <2>2. QED
    BY <2>1, MergeFrame DEF IInv
<1>2. CASE UNCHANGED <<pc, mainPc, chunk>>
  BY <1>2 DEF Through, Unlaunched
<1>3. CASE Main
  <2>1. CASE LaunchThread
    <3>1. pc' = [pc EXCEPT ![chunk] = "parse"] /\ Unlaunched(chunk)
      BY <2>1, LaunchEffect DEF LaunchThread, Unlaunched, Chunks
    <3>2. d # chunk => (Unlaunched(d)' <=> Unlaunched(d))
      BY <2>1, LaunchEffect DEF LaunchThread, Unlaunched, Chunks
    <3>3. d # chunk => pc'[d] = pc[d]
      BY <1>1, <3>1 DEF ThreadTypes
    <3>4. d = chunk => pc'[d] = "parse"
      BY <1>1, <3>1 DEF ThreadTypes
    <3>5. QED
      BY <3>1, <3>2, <3>3, <3>4 DEF Through
  <2>2. CASE ~LaunchThread
    <3>1. pc' = pc
      BY <1>3, <2>2, MainFrame, Zenon
    <3>2. Unlaunched(d)' <=> Unlaunched(d)
      BY <1>3, <2>2, <1>1, CreateEffect, WaitEffect, DeleteEffect, Zenon
      DEF Main, CreateThread, WaitThread, DeleteManager, LinkHead,
          NoPredecessor, AllLinked, ScanTail, PrintReport, Unlaunched
    <3>3. QED
      BY <3>1, <3>2 DEF Through
  <2>3. QED
    BY <2>1, <2>2
<1>4. ASSUME NEW c \in Chunks, ReadChunk(c)
      PROVE  /\ (pc[d] \in {"exit", "none"} /\ ~Unlaunched(d)) =>
                    pc'[d] \in {"exit", "none"}
             /\ (Through(d)' /\ ~Through(d)) => InsertTail(d) \/ FinishChunk(d)
  <2>1. ~Unlaunched(c) /\ mainPc \in {"create", "launch", "wait"}
    BY <1>4, ThreadIsOut
  <2>2. CASE ParseAborts(c)
    BY <2>2 DEF ParseAborts, Unmerged
  <2>3. CASE ~ParseAborts(c)
    <3>1. UNCHANGED <<mainPc, chunk>>
      BY <1>4, <2>3 DEF ReadChunk, ParseBlock, Lock, InsertHead, FinishChunk,
                        InsertTail, ExitThread
    <3>2. Unlaunched(d)' <=> Unlaunched(d)
      BY <3>1 DEF Unlaunched
    <3>3. CASE c = d
      BY <1>1, <1>4, <2>1, <2>3, <3>2, <3>3
      DEF ReadChunk, ParseBlock, Lock, InsertHead, FinishChunk, InsertTail,
          ExitThread, Move, Through, ThreadTypes
    <3>4. CASE c # d
      <4>1. pc'[d] = pc[d]
        BY <1>1, <1>4, <2>3, <3>4
        DEF ReadChunk, ParseBlock, Lock, InsertHead, FinishChunk, InsertTail,
            ExitThread, Move, ThreadTypes
      <4>2. QED
        BY <3>2, <4>1 DEF Through
    <3>5. QED
      BY <3>3, <3>4
  <2>4. QED
    BY <2>2, <2>3
<1>5. QED
  BY <1>2, <1>3, <1>4 DEF Next, Ended, vars, threadVars

\* A thread that has left the loop keeps its last block, and that block its
\* content.
LEMMA TipStays ==
    ASSUME IInv, [Next]_vars, Unmerged', NEW d \in Chunks, pc[d] # "parse"
    PROVE  /\ Unmerged
           /\ tip'[d] = tip[d] /\ file' = file
           /\ TipMatchesMap(d)' <=> TipMatchesMap(d)
           /\ tip[d] # NoBlock => heap'[tip[d]] = heap[tip[d]]
<1>1. CASE \E c \in Chunks : ParseBlock(c)
  <2>1. PICK c \in Chunks : ParseBlock(c)
    BY <1>1
  <2>2. Unmerged
    BY <2>1, ThreadIsOut DEF Unmerged, ReadChunk
  <2>3. c # d /\ file' = file
    BY <2>1, ParseOwn
  <2>4. tip'[d] = tip[d]
    BY <2>1, <2>3, ParseOwn
  <2>5. tip[d] # NoBlock => heap'[tip[d]] = heap[tip[d]]
    BY <2>1, ThroughStays
  <2>6. QED
    BY <2>2, <2>3, <2>4, <2>5 DEF TipMatchesMap
<1>2. CASE ~ \E c \in Chunks : ParseBlock(c)
  BY <1>2, MergeFrame DEF TipMatchesMap
<1>3. QED
  BY <1>1, <1>2

LEMMA TailsDueStep == IInv /\ [Next]_vars => TailsDue'
<1> SUFFICES ASSUME IInv, [Next]_vars, Unmerged', NEW d \in Chunks,
                    pc'[d] \in {"lockTail", "insertTail"}
             PROVE  TipMatchesMap(d)'
  BY DEF TailsDue, Chunks
<1>1. CASE pc[d] \in {"lockTail", "insertTail"}
  <2>1. Unmerged /\ (TipMatchesMap(d)' <=> TipMatchesMap(d))
    BY <1>1, TipStays
  <2>2. QED
    BY <1>1, <2>1 DEF IInv, TailsDue
<1>2. CASE pc[d] \notin {"lockTail", "insertTail"}
  <2>1. FinishChunk(d)
    <3>1. ThreadTypes
      BY DEF IInv
    <3>2. ~(Main \/ Ended \/ UNCHANGED vars)
      BY <1>2, <3>1, MainFrame DEF LaunchThread, ThreadTypes
    <3>3. PICK c \in Chunks : ReadChunk(c)
      BY <3>2 DEF Next
    <3>4. QED
      BY <1>2, <3>1, <3>3
      DEF ReadChunk, ParseBlock, ParseAborts, Lock, InsertHead, FinishChunk,
          InsertTail, ExitThread, Move, ThreadTypes, threadVars
  <2>2. UNCHANGED <<file, tip, heap>>
    BY <2>1 DEF FinishChunk
  <2>3. TipMatchesMap(d)
    BY <1>2, <2>1 DEF FinishChunk, Move, IInv, ThreadTypes
  <2>4. QED
    BY <2>2, <2>3 DEF TipMatchesMap
<1>3. QED
  BY <1>1, <1>2

\* tails changes in InsertTail only.
LEMMA TailsFrame ==
    ASSUME [Next]_vars, ~ \E c \in Chunks : InsertTail(c)
    PROVE  tails' = tails
BY MainFrame
DEF Next, ReadChunk, ParseBlock, ParseAborts, Lock, InsertHead, FinishChunk,
    ExitThread

LEMMA TailsAreTipsStep == IInv /\ [Next]_vars => TailsAreTips'
<1> DEFINE IsTail(h, d) == /\ TipMatchesMap(d)
                           /\ pc[d] \in {"exit", "none"}
                           /\ tails[h] = tip[d]
                           /\ heap[tip[d]].blk.hash = h
<1> SUFFICES ASSUME IInv, [Next]_vars, Unmerged', NEW h \in DOMAIN tails'
             PROVE  \E d \in Chunks : IsTail(h, d)'
  BY DEF TailsAreTips, Chunks
<1>1. ASSUME h \in DOMAIN tails, tails'[h] = tails[h]
      PROVE  \E d \in Chunks : IsTail(h, d)'
  <2>1. Unmerged
    <3>1. CASE \E c \in Chunks : ParseBlock(c)
      BY <3>1, ThreadIsOut DEF Unmerged, ReadChunk
    <3>2. QED
      BY <3>1, MergeFrame
  <2>2. PICK d \in Chunks : IsTail(h, d)
    BY <1>1, <2>1 DEF IInv, TailsAreTips
  <2>3. ~Unlaunched(d)
    BY <2>2 DEF IInv, UnlaunchedUntouched, Untouched, Unlaunched, Running,
                TipMatchesMap
  <2>4. pc'[d] \in {"exit", "none"}
    BY <2>2, <2>3, ThroughStep
  <2>5. /\ tip'[d] = tip[d] /\ heap'[tip[d]] = heap[tip[d]]
        /\ TipMatchesMap(d)'
    BY <2>2, TipStays DEF TipMatchesMap
  <2>6. IsTail(h, d)'
    BY <1>1, <2>2, <2>4, <2>5
  <2>7. QED
    BY <2>6
<1>2. ASSUME NEW c \in Chunks, InsertTail(c)
      PROVE  \E d \in Chunks : IsTail(h, d)'
  <2>1. /\ tails' = Put(tails, heap[tip[c]].blk.hash, tip[c])
        /\ tip' = tip /\ heap' = heap /\ pc[c] = "insertTail"
        /\ pc' = [pc EXCEPT ![c] = "exit"]
    BY <1>2 DEF InsertTail, Move
  <2>2. CASE h = heap[tip[c]].blk.hash
    <3>1. TipMatchesMap(c)'
      <4>1. Unmerged
        BY <1>2, ThreadIsOut DEF Unmerged, ReadChunk
      <4>2. TipMatchesMap(c)
        BY <2>1, <4>1 DEF IInv, TailsDue
      <4>3. QED
        BY <2>1, <4>2, TipStays
    <3>2. pc'[c] = "exit"
      BY <2>1 DEF IInv, ThreadTypes
    <3>3. tails'[h] = tip[c]
      BY <2>1, <2>2 DEF Put
    <3>4. IsTail(h, c)'
      BY <2>1, <2>2, <3>1, <3>2, <3>3
    <3>5. QED
      BY <3>4
  <2>3. CASE h # heap[tip[c]].blk.hash
    <3>1. h \in DOMAIN tails /\ tails'[h] = tails[h]
      BY <2>1, <2>3 DEF Put
    <3>2. QED
      BY <1>1, <3>1
  <2>4. QED
    BY <2>2, <2>3
<1>3. QED
  BY <1>1, <1>2, TailsFrame

LEMMA TailsEnteredStep == IInv /\ [Next]_vars => TailsEntered'
<1> SUFFICES ASSUME IInv, [Next]_vars, Unmerged', NEW c \in Chunks,
                    Through(c)', TipMatchesMap(c)'
             PROVE  (heap[tip[c]].blk.hash \in DOMAIN tails)'
  BY DEF TailsEntered, Chunks
<1>1. CASE Through(c)
  <2>1. pc[c] \in {"exit", "none"} /\ Unmerged
    BY <1>1, TipStays DEF Through
  <2>2. tip'[c] = tip[c] /\ tip[c] # NoBlock /\ file' = file
    BY <2>1, TipStays DEF TipMatchesMap
  <2>3. heap'[tip[c]] = heap[tip[c]]
    BY <2>1, <2>2, TipStays
  <2>4. TipMatchesMap(c)
    BY <2>2, <2>3 DEF TipMatchesMap
  <2>5. heap[tip[c]].blk.hash \in DOMAIN tails
    BY <1>1, <2>1, <2>4 DEF IInv, TailsEntered
  <2>6. DOMAIN tails \subseteq DOMAIN tails'
    BY TailsFrame DEF InsertTail, Put
  <2>7. QED
    BY <2>2, <2>3, <2>5, <2>6
<1>2. CASE InsertTail(c)
  BY <1>2 DEF InsertTail, Put
<1>3. CASE FinishChunk(c)
  <2>1. UNCHANGED <<file, tip, heap>>
    BY <1>3 DEF FinishChunk
  <2>2. TipMatchesMap(c)
    BY <2>1 DEF TipMatchesMap
  <2>3. pc'[c] = "lockTail"
    BY <1>3, <2>2 DEF FinishChunk, Move, IInv, ThreadTypes
  <2>4. QED
    BY <2>3 DEF Through
<1>4. QED
  BY <1>1, <1>2, <1>3, ThroughStep

LEMMA HeadsEnteredStep == IInv /\ [Next]_vars => HeadsEntered'
<1> DEFINE Entered(d) ==
        \A h \in DOMAIN bmap[d] :
            (bmap[d][h] = <<d, 1>> /\ heap[<<d, 1>>].blk.prev # Zero) =>
                <<d, 1>> \in heads \/ pc[d] \in {"lockHead", "insertHead"}
<1> SUFFICES ASSUME IInv, [Next]_vars, Unmerged', NEW d \in Chunks
             PROVE  Entered(d)'
  BY DEF HeadsEntered, Chunks
<1>1. ThreadTypes /\ Unmerged
  <2>1. CASE \E c \in Chunks : ParseBlock(c)
    BY <2>1, ThreadIsOut DEF Unmerged, ReadChunk, IInv
  <2>2. QED
    BY <2>1, MergeFrame DEF IInv
<1>2. Entered(d)
  BY <1>1 DEF IInv, HeadsEntered
<1>3. ASSUME NEW c \in Chunks, ParseBlock(c) PROVE Entered(d)'
  <2>1. c # d => pc'[d] = pc[d] /\ bmap'[d] = bmap[d]
    BY <1>3, ParseOwn
  <2>2. heads' = heads
    BY <1>3, ParseOwn
  <2>3. \A h \in DOMAIN bmap[d] : bmap[d][h] = <<d, 1>> =>
            <<d, 1>> \in DOMAIN heap /\ pos[d] # 1
    BY DEF IInv, ObjectsOwned, Built
  <2>4. ASSUME bmap'[d] = bmap[d], c # d \/ pos[d] # 1 PROVE Entered(d)'
    <3> SUFFICES ASSUME NEW h \in DOMAIN bmap'[d],
                        bmap'[d][h] = <<d, 1>>, heap'[<<d, 1>>].blk.prev # Zero
                 PROVE  <<d, 1>> \in heads' \/ pc'[d] \in {"lockHead", "insertHead"}
      OBVIOUS
    <3>1. h \in DOMAIN bmap[d] /\ bmap[d][h] = <<d, 1>>
      BY <2>4
    <3>2. heap'[<<d, 1>>] = heap[<<d, 1>>]
      <4>1. <<d, 1>> \in DOMAIN heap /\ pos[d] # 1
        BY <2>3, <3>1
      <4>2. <<d, 1>> # <<c, 0>> /\ <<d, 1>> # <<c, pos[c]>>
        BY <2>4, <4>1
      <4>3. QED
        BY <1>3, <4>1, <4>2, ParseHeap
    <3>3. <<d, 1>> \in heads \/ pc[d] \in {"lockHead", "insertHead"}
      BY <1>2, <3>1, <3>2
    <3>4. pc[d] \in {"lockHead", "insertHead"} => c # d
      BY <1>3, ParseOwn
    <3>5. QED
      BY <2>1, <2>2, <3>3, <3>4
  <2>5. CASE c # d
    BY <2>1, <2>2, <2>4, <2>5
  <2>6. CASE c = d /\ bmap'[d] = bmap[d]
    <3>1. CASE pos[d] # 1
      BY <2>4, <2>6, <3>1
    <3>2. CASE pos[d] = 1
      BY <2>3, <2>6, <3>2
    <3>3. QED
      BY <3>1, <3>2
  <2>7. CASE /\ c = d
             /\ bmap'[d] = Put(bmap[d], BlockAt(d).hash, <<d, pos[d]>>)
             /\ (pos[d] = 1 /\ BlockAt(d).prev # Zero) => pc'[d] = "lockHead"
    <3>1. CASE pos[d] = 1
      <4>1. heap'[<<d, 1>>].blk = BlockAt(d)
        BY <1>3, <2>7, <3>1, ParseHeap
      <4>2. heap'[<<d, 1>>].blk.prev # Zero => pc'[d] = "lockHead"
        BY <2>7, <3>1, <4>1
      <4>3. QED
        BY <4>2
    <3>2. CASE pos[d] # 1
      <4> SUFFICES ASSUME NEW h \in DOMAIN bmap'[d],
                          bmap'[d][h] = <<d, 1>>,
                          heap'[<<d, 1>>].blk.prev # Zero
                   PROVE  <<d, 1>> \in heads'
        OBVIOUS
      <4>1. h \in DOMAIN bmap[d] /\ bmap[d][h] = <<d, 1>>
        BY <2>7, <3>2 DEF Put
      <4>2. heap'[<<d, 1>>] = heap[<<d, 1>>]
        <5>1. <<d, 1>> \in DOMAIN heap
          BY <2>3, <4>1
        <5>2. <<d, 1>> # <<c, 0>> /\ <<d, 1>> # <<c, pos[c]>>
          BY <2>7, <3>2
        <5>3. QED
          BY <1>3, <5>1, <5>2, ParseHeap
      <4>3. <<d, 1>> \in heads \/ pc[d] \in {"lockHead", "insertHead"}
        BY <1>2, <4>1, <4>2
      <4>4. pc[d] = "parse"
        BY <1>3, <2>7, ParseOwn
      <4>5. QED
        BY <2>2, <4>3, <4>4
    <3>3. QED
      BY <3>1, <3>2
  <2>8. QED
    BY <1>3, <2>5, <2>6, <2>7, ParseOwn
<1>4. ASSUME ~ \E c \in Chunks : ParseBlock(c) PROVE Entered(d)'
  <2>1. UNCHANGED <<heap, bmap>>
    BY <1>4, MergeFrame
  <2>2. CASE Main \/ Ended \/ UNCHANGED vars
    <3>1. heads' = heads /\ (pc' = pc \/ LaunchThread)
      BY <2>2, MainFrame
    <3>2. CASE pc' = pc
      BY <1>2, <2>1, <3>1, <3>2
    <3>3. CASE LaunchThread
      <4>1. pc' = [pc EXCEPT ![chunk] = "parse"] /\ chunk \in Chunks
        BY <3>3, LaunchEffect DEF LaunchThread
      <4>2. CASE d = chunk
        <5>1. bmap[d] = NoMap
          BY <3>3, <4>1, <4>2 DEF LaunchThread, IInv, UnlaunchedUntouched,
                                  Untouched, Unlaunched, Running, Chunks
        <5>2. QED
          BY <2>1, <5>1 DEF NoMap
      <4>3. CASE d # chunk
        <5>1. pc'[d] = pc[d]
          BY <1>1, <4>1, <4>3 DEF ThreadTypes
        <5>2. QED
          BY <1>2, <2>1, <3>1, <5>1
      <4>4. QED
        BY <4>2, <4>3
    <3>4. QED
      BY <3>1, <3>2, <3>3
  <2>3. ASSUME NEW c \in Chunks, ReadChunk(c) PROVE Entered(d)'
    <3>1. heads \subseteq heads'
      BY <1>4, <2>3
      DEF ReadChunk, ParseAborts, Lock, InsertHead, FinishChunk, InsertTail,
          ExitThread
    <3>2. pc[d] \in {"lockHead", "insertHead"} =>
              pc'[d] \in {"lockHead", "insertHead"} \/ <<d, 1>> \in heads'
      BY <1>1, <1>4, <2>3
      DEF ReadChunk, ParseAborts, Lock, InsertHead, FinishChunk, InsertTail,
          ExitThread, Move, ThreadTypes, threadVars
    <3>3. QED
      BY <1>2, <2>1, <3>1, <3>2
  <2>4. QED
    BY <2>2, <2>3 DEF Next
<1>5. QED
  BY <1>3, <1>4

-----------------------------------------------------------------------------
(* The invariant holds in every reachable state.                            *)

LEMMA InitInv == Init => IInv
<1> SUFFICES ASSUME Init PROVE IInv
  OBVIOUS
<1> USE ChunkAssumption DEF Init
<1>1. TMP!IInv
  BY LedgerAssumption, SameManager, TMP!InitInv
<1>2. /\ slots = [t \in 0 .. NumChunks - 1 |-> TM!FreeSlot]
      /\ life = [t \in 0 .. NumChunks - 1 |-> "none"]
      /\ phase = IF NumChunks \in 1 .. MAX_THREADS THEN "open" ELSE "aborted"
  BY DEF TM!Init, TM!Tids
<1>3. \A c \in Chunks : /\ Tid(c) \in 0 .. NumChunks - 1
                        /\ ~slots[Tid(c)].running
                        /\ ~slots[Tid(c)].used
                        /\ life[Tid(c)] = "none"
  BY <1>2 DEF Chunks, Tid, TM!FreeSlot
<1>4. mainPc \in {"create", "aborted"} /\ (mainPc = "create" <=> phase = "open")
  OBVIOUS
<1>5. MainTypes
  BY <1>4 DEF MainTypes, NoMap
<1>6. ThreadTypes
  <2>1. \A c \in Chunks : Len(file[c].blocks) \in Nat
    BY BlocksAreCounted DEF Chunks
  <2>2. QED
    BY <2>1 DEF ThreadTypes
<1>7. ManagerInStep
  BY <1>2, <1>4 DEF ManagerInStep, Running, Chunks
<1>8. SlotsInStep
  <2> SUFFICES ASSUME NEW c \in Chunks, Running PROVE SlotInStep(c)
    BY DEF SlotsInStep
  <2>1. Unlaunched(c) /\ ~Collected(c) /\ mainPc # "launch"
    BY <1>4 DEF Unlaunched, Collected, Chunks, Running
  <2>2. QED
    BY <1>3, <2>1 DEF SlotInStep
<1>9. ThreadsAreAlive
  BY <1>3 DEF ThreadsAreAlive
<1>10. UnlaunchedUntouched /\ MutexHeld
  BY DEF UnlaunchedUntouched, Untouched, MutexHeld, Chunks
<1>11. ObjectsOwned /\ ContainersHoldObjects
  BY DEF ObjectsOwned, ContainersHoldObjects, NoMap
<1>12. TailsDue /\ TailsAreTips /\ TailsEntered /\ HeadsEntered
  BY DEF TailsDue, TailsAreTips, TailsEntered, HeadsEntered, TipMatchesMap, NoMap
<1>13. QED
  BY <1>1, <1>5, <1>6, <1>7, <1>8, <1>9, <1>10, <1>11, <1>12 DEF IInv

\* The invariant holds in every reachable state.
THEOREM Invariance == Spec => []IInv
<1>1. IInv /\ [Next]_vars => IInv'
  BY ManagerStep, MainTypesStep, ThreadTypesStep, ManagerInStepStep,
     SlotsInStepStep, ThreadsAreAliveStep, UntouchedStep, MutexStep,
     ObjectsStep, ContainersStep, TailsDueStep, TailsAreTipsStep, TailsEnteredStep,
     HeadsEnteredStep
  DEF IInv
<1>2. QED
  BY InitInv, <1>1, PTL DEF Spec

-----------------------------------------------------------------------------

\* main and the threads use the manager as its interface allows: every step
\* of the program is an operation of thmgr_t, or none (readindexed.cpp:196-241).
THEOREM UsesManager == Spec => TM!Spec
<1>1. Init => TM!Init
  BY DEF Init
<1>2. QED
  BY Invariance, ManagerNext, <1>1, PTL DEF Spec, TM!Spec

\* heads and tails are complete when main starts to merge, and main is then
\* alone with them, whatever the files hold and however the threads run
\* (readindexed.cpp:111-132, 236-264).
THEOREM MergeSound == Spec => []MergeIsSound
<1>1. IInv => TypeOK
  <2> SUFFICES ASSUME IInv PROVE TypeOK
    OBVIOUS
  <2>1. TM!TypeOK
    BY DEF IInv, TMP!IInv, TMP!TypeOK, TMP!Tids, TM!TypeOK, TM!Tids
  <2>2. heads \subseteq DOMAIN heap /\ Range(tails) \subseteq DOMAIN heap
    BY DEF IInv, ContainersHoldObjects, Range
  <2>3. QED
    BY <2>1, <2>2 DEF IInv, MainTypes, ThreadTypes, TypeOK
<1>2. IInv => MergeIsAlone
  <2> SUFFICES ASSUME IInv, mainPc \in {"link", "scan", "done"},
                      NEW c \in Chunks
               PROVE  pc[c] = "none" /\ life[Tid(c)] = "none"
    BY DEF MergeIsAlone
  <2>1. ~slots[Tid(c)].running
    BY DEF IInv, SlotsInStep, SlotInStep, Collected, Running
  <2>2. life[Tid(c)] = "none"
    BY <2>1, ManagerFacts
  <2>3. QED
    BY <2>2 DEF IInv, ThreadsAreAlive, Running
<1>3. IInv /\ MergeIsAlone => NoInsertionLost
  <2> SUFFICES ASSUME IInv, MergeIsAlone, mainPc = "link", linked = {},
                      NEW c \in Chunks
               PROVE  /\ TipMatchesMap(c) =>
                            heap[tip[c]].blk.hash \in DOMAIN tails
                      /\ (<<c, 1>> \in Range(bmap[c])
                              /\ heap[<<c, 1>>].blk.prev # Zero) =>
                            <<c, 1>> \in heads
    BY DEF NoInsertionLost
  <2>1. Unmerged /\ pc[c] = "none" /\ ~Unlaunched(c)
    BY DEF MergeIsAlone, Unmerged, Unlaunched
  <2>2. TipMatchesMap(c) => heap[tip[c]].blk.hash \in DOMAIN tails
    BY <2>1 DEF IInv, TailsEntered, Through
  <2>3. (<<c, 1>> \in Range(bmap[c]) /\ heap[<<c, 1>>].blk.prev # Zero) =>
            <<c, 1>> \in heads
    BY <2>1 DEF IInv, HeadsEntered, Range
  <2>4. QED
    BY <2>2, <2>3
<1>4. IInv => TailsAreTrusted
  <2> SUFFICES ASSUME IInv, Unmerged
               PROVE  \A h \in DOMAIN tails : \E d \in Chunks :
                          /\ TipMatchesMap(d)
                          /\ tails[h] = tip[d]
                          /\ heap[tip[d]].blk.hash = h
    BY DEF TailsAreTrusted, Unmerged
  <2>1. QED
    BY DEF IInv, TailsAreTips
<1>5. IInv => MergeIsSound
  BY <1>1, <1>2, <1>3, <1>4 DEF MergeIsSound
<1>6. QED
  BY Invariance, <1>5, PTL

\* Two threads are never in the critical sections together
\* (readindexed.cpp:116-118, 130-132).
THEOREM MutexExcludes ==
    Spec => [](\A c, d \in Chunks :
                   (/\ pc[c] \in {"insertHead", "insertTail"}
                    /\ pc[d] \in {"insertHead", "insertTail"}) => c = d)
<1>1. IInv => \A c, d \in Chunks :
                  (/\ pc[c] \in {"insertHead", "insertTail"}
                   /\ pc[d] \in {"insertHead", "insertTail"}) => c = d
  BY DEF IInv, MutexHeld
<1>2. QED
  BY Invariance, <1>1, PTL

\* What main asks of the manager is granted: its slot is not running and has
\* a function when main launches it, and is running when main waits for it
\* (os.cpp:220-221, 253).
ManagerGrants ==
    /\ mainPc = "launch" => TM!MayLaunch(Tid(chunk))
    /\ mainPc = "wait" => slots[Tid(chunk)].running

THEOREM MainIsGranted == Spec => []ManagerGrants
<1>1. IInv => ManagerGrants
  <2> SUFFICES ASSUME IInv, mainPc \in {"launch", "wait"}
               PROVE  ManagerGrants
    BY DEF ManagerGrants
  <2>1. chunk \in Chunks /\ SlotInStep(chunk)
    BY DEF IInv, ManagerInStep, SlotsInStep, Running
  <2>2. chunk \in Int
    BY <2>1 DEF Chunks
  <2>3. QED
    BY <2>1, <2>2
    DEF ManagerGrants, SlotInStep, Unlaunched, Collected, TM!MayLaunch
<1>2. QED
  BY Invariance, <1>1, PTL

\* Once the manager stands, no assert of main fails: only a thread can end
\* the process, when it accepts a coinbase as the first block of a chunk that
\* is not the first (readindexed.cpp:203-215, blockchain.cpp:23-33).
THEOREM OnlyCoinbaseAborts ==
    Spec => [][mainPc' = "aborted" => \E c \in Chunks : ParseAborts(c)]_vars
<1>1. IInv /\ [Next]_vars =>
          [mainPc' = "aborted" => \E c \in Chunks : ParseAborts(c)]_vars
  <2> SUFFICES ASSUME IInv, Next, mainPc' = "aborted", vars' # vars
               PROVE  \E c \in Chunks : ParseAborts(c)
    OBVIOUS
  <2>1. ~Ended
    BY Zenon DEF Ended
  <2>2. ~Main
    BY CreateEffect, LaunchEffect, WaitEffect, DeleteEffect, Zenon
    DEF Main, LinkHead, NoPredecessor, AllLinked, ScanTail, PrintReport
  <2>3. PICK c \in Chunks : ReadChunk(c)
    BY <2>1, <2>2 DEF Next
  <2>4. mainPc # "aborted"
    BY <2>3, ThreadIsOut DEF Running
  <2>5. ParseAborts(c)
    BY <2>3, <2>4
    DEF ReadChunk, ParseBlock, Lock, InsertHead, FinishChunk, InsertTail,
        ExitThread
  <2>6. QED
    BY <2>5
<1>2. QED
  BY Invariance, <1>1, PTL DEF Spec

-----------------------------------------------------------------------------
(* The chains that main makes out of the objects.                           *)

\* The first block of a chunk is among the heads, or on its way there.
Settled(c) == <<c, 1>> \in heads \/ pc[c] \in {"lockHead", "insertHead"}

\* An object that others may follow: a block, and if it was validated after a
\* dummy, then one that main will link.
Followed(x) ==
    /\ x \in DOMAIN heap
    /\ \E c \in Chunks : \E n \in 1 .. pos[c] - 1 :
          x = <<c, n>> /\ (n = 1 /\ c > 1 => Settled(c))

\* The objects are the dummies and the blocks that the threads have passed.
Members == {"blk", "prev", "length", "balances"}

ObjectsRead ==
    \A x \in DOMAIN heap :
        /\ DOMAIN heap[x] = Members
        /\ \E c \in Chunks :
              \/ x = <<c, 0>> /\ pos[c] > 1 /\ heap[x].prev = NoBlock
              \/ \E n \in 1 .. pos[c] - 1 :
                    /\ x = <<c, n>>
                    /\ file[c].blocks[n] # Truncated
                    /\ heap[x].blk = file[c].blocks[n]

\* Only first blocks follow dummies; other objects follow the block that their
\* own names by its hash.
PrevsFollowed ==
    \A x \in DOMAIN heap :
        \/ heap[x].prev = NoBlock
        \/ \E c \in Chunks \ {1} :
              x = <<c, 1>> /\ heap[x].prev = <<c, 0>> /\ <<c, 0>> \in DOMAIN heap
        \/ /\ Followed(heap[x].prev)
           /\ heap[x].blk.prev # Zero
           /\ heap[heap[x].prev].blk.hash = heap[x].blk.prev

MapsFollowed ==
    \A c \in Chunks :
        /\ tip[c] # NoBlock => Followed(tip[c])
        /\ \A h \in DOMAIN bmap[c] :
              Followed(bmap[c][h]) /\ heap[bmap[c][h]].blk.hash = h

TailsFollowed ==
    \A h \in DOMAIN tails : Followed(tails[h]) /\ heap[tails[h]].blk.hash = h

HeadsAreFirst ==
    /\ heads \subseteq Chunks \X {1}
    /\ \A c \in Chunks : Settled(c) => heap[<<c, 1>>].blk.prev # Zero

\* What main has linked follows a tail, and main leaves the loop with heads
\* that are not linked only after it has cleared the flag.
LinkedToTails ==
    /\ linked # {} => mainPc \in {"link", "scan", "done"}
    /\ (mainPc \in {"scan", "done"} /\ valid) => linked = heads
    /\ \A p \in linked : /\ heap[p].blk.prev \in DOMAIN tails
                         /\ heap[p].prev = tails[heap[p].blk.prev]

BestIsTail ==
    best.id # NoBlock =>
        /\ mainPc \in {"scan", "done"}
        /\ Followed(best.id)
        /\ best.length = Cardinality(Path(heap, best.id))

ChainInv ==
    /\ IInv
    /\ ObjectsRead /\ PrevsFollowed /\ MapsFollowed /\ TailsFollowed
    /\ HeadsAreFirst /\ LinkedToTails /\ BestIsTail

(* End of the invariant. *)
-----------------------------------------------------------------------------

\* A block is parsed into new objects: itself and, if it is the first of a
\* chunk that is not the first, the dummy.
LEMMA ParseNew ==
    ASSUME IInv, ObjectsRead, NEW c \in Chunks, ParseBlock(c)
    PROVE  /\ <<c, pos[c]>> \notin DOMAIN heap
           /\ UsesDummy(c) => <<c, 0>> \notin DOMAIN heap
           /\ DOMAIN heap' = DOMAIN heap \cup {<<c, pos[c]>>}
                                \cup (IF UsesDummy(c) THEN {<<c, 0>>} ELSE {})
           /\ heap'[<<c, pos[c]>>].blk = BlockAt(c)
           /\ heap'[<<c, pos[c]>>].prev = PrevFor(c)
           /\ UsesDummy(c) => heap'[<<c, 0>>].prev = NoBlock
           /\ \A x \in DOMAIN heap : heap'[x] = heap[x]
           /\ \A x \in DOMAIN heap' \ DOMAIN heap : DOMAIN heap'[x] = Members
<1> DEFINE id == <<c, pos[c]>>
           h  == HeapFor(c)
<1>1. heap' = Put(h, id, NewBlock(h, BlockAt(c), PrevFor(c)))
  BY DEF ParseBlock
<1>2. pos[c] \in Nat /\ pos[c] >= 1
  BY ParseOwn
<1>3. \A d \in Chunks : pos[d] \in Int
  BY BlocksAreCounted DEF IInv, ThreadTypes, MainTypes, Chunks
<1>4. id \notin DOMAIN heap
  BY <1>2, <1>3 DEF ObjectsRead
<1>5. UsesDummy(c) => <<c, 0>> \notin DOMAIN heap
  BY <1>2, <1>3 DEF ObjectsRead, UsesDummy
<1>6. CASE UsesDummy(c)
  <2>1. h = Put(heap, <<c, 0>>, Dummy(c)) /\ id # <<c, 0>>
    BY <1>2, <1>6 DEF HeapFor
  <2>2. /\ DOMAIN h = DOMAIN heap \cup {<<c, 0>>}
        /\ h[<<c, 0>>] = Dummy(c)
        /\ \A x \in DOMAIN heap : h[x] = heap[x]
    BY <1>5, <1>6, <2>1 DEF Put
  <2> HIDE DEF h
  <2>3. /\ DOMAIN heap' = DOMAIN h \cup {id}
        /\ heap'[id] = NewBlock(h, BlockAt(c), PrevFor(c))
        /\ heap'[<<c, 0>>] = Dummy(c)
        /\ \A x \in DOMAIN heap : heap'[x] = heap[x]
    BY <1>1, <1>4, <2>1, <2>2 DEF Put
  <2>4. QED
    BY <1>4, <1>5, <1>6, <2>2, <2>3 DEF NewBlock, Dummy, Members
<1>7. CASE ~UsesDummy(c)
  <2>1. h = heap
    BY <1>7 DEF HeapFor
  <2>2. /\ DOMAIN heap' = DOMAIN heap \cup {id}
        /\ heap'[id] = NewBlock(heap, BlockAt(c), PrevFor(c))
        /\ \A x \in DOMAIN heap : heap'[x] = heap[x]
    BY <1>1, <1>4, <2>1 DEF Put
  <2>3. QED
    BY <1>4, <1>5, <1>7, <2>2 DEF NewBlock, Members
<1>8. QED
  BY <1>6, <1>7

\* One head gets a tail for its predecessor.
LEMMA LinkEffect ==
    ASSUME IInv, ObjectsRead, LinkHead
    PROVE  \E p \in heads \ linked :
              /\ p \in DOMAIN heap
              /\ heap[p].blk.prev \in DOMAIN tails
              /\ DOMAIN heap' = DOMAIN heap
              /\ heap'[p].prev = tails[heap[p].blk.prev]
              /\ \A x \in DOMAIN heap : /\ heap'[x].blk = heap[x].blk
                                        /\ DOMAIN heap'[x] = DOMAIN heap[x]
                                        /\ x # p => heap'[x] = heap[x]
              /\ linked' = linked \cup {p}
              /\ mainPc = "link"
              /\ UNCHANGED <<mainPc, heads, tails, valid, best, pos, pc>>
<1>1. PICK p \in heads \ linked :
          /\ heap[p].blk.prev \in DOMAIN tails
          /\ heap' = [heap EXCEPT
                         ![p].prev = tails[heap[p].blk.prev],
                         ![p].length = LengthFrom(heap, tails[heap[p].blk.prev]),
                         ![p].balances = heap[tails[heap[p].blk.prev]].balances]
          /\ linked' = linked \cup {p}
          /\ mainPc = "link"
          /\ UNCHANGED <<mainPc, heads, tails, valid, best, pos, pc>>
  BY Zenon DEF LinkHead, threadVars
<1>2. p \in DOMAIN heap
  BY DEF IInv, ContainersHoldObjects
<1>3. /\ DOMAIN heap' = DOMAIN heap
      /\ heap'[p].prev = tails[heap[p].blk.prev]
      /\ \A x \in DOMAIN heap : /\ heap'[x].blk = heap[x].blk
                                /\ DOMAIN heap'[x] = DOMAIN heap[x]
                                /\ x # p => heap'[x] = heap[x]
  <2>1. PICK q, l, b : /\ q = tails[heap[p].blk.prev]
                       /\ heap' = [heap EXCEPT ![p].prev = q, ![p].length = l,
                                               ![p].balances = b]
    BY Zenon, <1>1
  <2>2. "prev" \in DOMAIN heap[p]
    BY <1>2 DEF ObjectsRead, Members
  <2>3. QED
    BY <1>2, <2>1, <2>2
<1>4. QED
  BY <1>1, <1>2, <1>3

\* Objects keep their block, and their predecessor until main links them.
LEMMA ObjectsKept ==
    ASSUME IInv, ObjectsRead, [Next]_vars, NEW x \in DOMAIN heap
    PROVE  /\ x \in DOMAIN heap'
           /\ DOMAIN heap'[x] = DOMAIN heap[x]
           /\ heap'[x].blk = heap[x].blk
           /\ heap'[x].prev = heap[x].prev \/ (LinkHead /\ x \in heads)
<1>1. x \in DOMAIN heap'
  BY HeapGrows
<1>2. ASSUME NEW c \in Chunks, ParseBlock(c) PROVE heap'[x] = heap[x]
  BY <1>2, ParseNew
<1>3. CASE LinkHead
  BY <1>1, <1>3, LinkEffect
<1>4. CASE ScanTail
  <2>1. PICK t : heap' = Recomputed(t)
    BY <1>4 DEF ScanTail
  <2>2. /\ heap'[x].blk = heap[x].blk /\ heap'[x].prev = heap[x].prev
        /\ DOMAIN heap'[x] = DOMAIN heap[x]
    BY <2>1 DEF Recomputed
  <2>3. QED
    BY <1>1, <2>2
<1>5. heap' = heap \/ LinkHead \/ ScanTail \/ \E c \in Chunks : ParseBlock(c)
  BY DEF Next, Main, Ended, ReadChunk, vars, CreateThread, LaunchThread,
         WaitThread, DeleteManager, NoPredecessor, AllLinked, PrintReport,
         ParseAborts, Lock, InsertHead, FinishChunk, InsertTail, ExitThread
<1>6. QED
  BY <1>1, <1>2, <1>3, <1>4, <1>5

LEMMA PosGrows ==
    ASSUME IInv, [Next]_vars, NEW c \in Chunks
    PROVE  pos[c] \in Int /\ pos'[c] \in Int /\ pos[c] <= pos'[c]
<1>1. pos[c] \in Int
  BY BlocksAreCounted DEF IInv, ThreadTypes, MainTypes, Chunks
<1>2. ASSUME NEW d \in Chunks, ParseBlock(d) PROVE pos'[c] = pos[c] \/ pos'[c] = pos[c] + 1
  BY <1>2, ParseOwn
<1>3. pos' = pos \/ \E d \in Chunks : ParseBlock(d)
  BY MainFrame DEF Next, ReadChunk, ParseAborts, Lock, InsertHead, FinishChunk,
                   InsertTail, ExitThread, threadVars
<1>4. QED
  BY <1>1, <1>2, <1>3

LEMMA SettledStays ==
    ASSUME IInv, [Next]_vars, NEW c \in Chunks, Settled(c)
    PROVE  Settled(c)'
<1> USE ChunkAssumption
<1>1. ThreadTypes
  BY DEF IInv
<1>2. CASE pc' = pc /\ heads' = heads
  BY <1>2 DEF Settled
<1>3. CASE LaunchThread
  <2>1. pc' = [pc EXCEPT ![chunk] = "parse"] /\ heads' = heads
    BY <1>3 DEF LaunchThread
  <2>2. chunk \in Chunks /\ pc[chunk] = "none"
    <3>1. chunk \in Chunks /\ Running /\ mainPc = "launch"
      BY <1>3, LaunchEffect DEF LaunchThread, Running
    <3>2. ~slots[Tid(chunk)].running
      BY <3>1 DEF IInv, SlotsInStep, SlotInStep, Unlaunched, Chunks
    <3>3. QED
      BY <3>1, <3>2, ManagerFacts DEF IInv, ThreadsAreAlive
  <2>3. QED
    BY <1>1, <2>1, <2>2 DEF ThreadTypes, Settled
<1>4. ASSUME NEW d \in Chunks, ReadChunk(d) PROVE Settled(c)'
  <2>1. CASE ParseBlock(d)
    <3>1. heads' = heads /\ pc[d] = "parse" /\ (c # d => pc'[c] = pc[c])
      BY <2>1, ParseOwn
    <3>2. QED
      BY <3>1 DEF Settled
  <2>2. CASE FinishChunk(d) \/ ExitThread(d) \/ InsertTail(d) \/ Lock(d, "lockTail", "insertTail")
    <3>1. PICK from \in {"parse", "exit", "insertTail", "lockTail"} :
                \E to : Move(d, from, to)
      BY <2>2 DEF FinishChunk, ExitThread, InsertTail, Lock
    <3>2. heads' = heads
      BY <2>2 DEF FinishChunk, ExitThread, InsertTail, Lock
    <3>3. QED
      BY <1>1, <3>1, <3>2 DEF Settled, Move, ThreadTypes
  <2>3. CASE Lock(d, "lockHead", "insertHead")
    BY <1>1, <2>3 DEF Lock, Move, Settled, ThreadTypes
  <2>4. CASE InsertHead(d)
    BY <1>1, <2>4 DEF InsertHead, Move, Settled, ThreadTypes
  <2>5. CASE ParseAborts(d)
    BY <1>2, <2>5 DEF ParseAborts, threadVars
  <2>6. QED
    BY <1>4, <2>1, <2>2, <2>3, <2>4, <2>5 DEF ReadChunk
<1>5. QED
  BY <1>2, <1>3, <1>4, MainFrame DEF Next

LEMMA FollowedStays ==
    ASSUME IInv, [Next]_vars, NEW x, Followed(x)
    PROVE  Followed(x)'
<1>1. x \in DOMAIN heap /\ x \in DOMAIN heap'
  BY HeapGrows DEF Followed
<1>0. PICK c \in Chunks : \E n \in 1 .. pos[c] - 1 :
          x = <<c, n>> /\ (n = 1 /\ c > 1 => Settled(c))
  BY DEF Followed
<1>2. PICK n \in 1 .. pos[c] - 1 :
          x = <<c, n>> /\ (n = 1 /\ c > 1 => Settled(c))
  BY <1>0
<1>3. n \in 1 .. pos'[c] - 1
  BY <1>2, PosGrows
<1>4. n = 1 /\ c > 1 => Settled(c)'
  BY <1>2, SettledStays
<1>5. QED
  BY <1>1, <1>2, <1>3, <1>4 DEF Followed, Chunks

LEMMA ObjectsNew ==
    ASSUME IInv, [Next]_vars, NEW x \in DOMAIN heap' \ DOMAIN heap
    PROVE  \E c \in Chunks : ParseBlock(c)
<1>1. CASE LinkHead
  BY <1>1 DEF LinkHead
<1>2. CASE ScanTail
  BY <1>2 DEF ScanTail, Recomputed
<1>3. QED
  BY <1>1, <1>2
  DEF Next, Main, Ended, ReadChunk, vars, CreateThread, LaunchThread,
      WaitThread, DeleteManager, NoPredecessor, AllLinked, PrintReport,
      ParseAborts, Lock, InsertHead, FinishChunk, InsertTail, ExitThread

LEMMA FileStays == ASSUME [Next]_vars PROVE file' = file
  BY MainFrame DEF Next, ReadChunk, ParseBlock, ParseAborts, Lock, InsertHead,
                   FinishChunk, InsertTail, ExitThread

LEMMA ObjectsReadStep == ChainInv /\ [Next]_vars => ObjectsRead'
<1> SUFFICES ASSUME ChainInv, [Next]_vars, NEW x \in DOMAIN heap'
             PROVE  /\ DOMAIN heap'[x] = Members
                    /\ \E c \in Chunks :
                          \/ x = <<c, 0>> /\ pos'[c] > 1 /\ heap'[x].prev = NoBlock
                          \/ \E n \in 1 .. pos'[c] - 1 :
                                /\ x = <<c, n>>
                                /\ file'[c].blocks[n] # Truncated
                                /\ heap'[x].blk = file'[c].blocks[n]
  BY DEF ObjectsRead, Chunks
<1>0. DOMAIN heap'[x] = Members
  <2>1. CASE x \in DOMAIN heap
    BY <2>1, ObjectsKept DEF ChainInv, ObjectsRead
  <2>2. CASE x \notin DOMAIN heap
    BY <2>2, ObjectsNew, ParseNew DEF ChainInv
  <2>3. QED
    BY <2>1, <2>2
<1>1. IInv /\ ObjectsRead /\ HeadsAreFirst /\ file' = file
  BY FileStays DEF ChainInv
<1> DEFINE Read == \E c \in Chunks :
                      \/ x = <<c, 0>> /\ pos'[c] > 1 /\ heap'[x].prev = NoBlock
                      \/ \E n \in 1 .. pos'[c] - 1 :
                            /\ x = <<c, n>>
                            /\ file'[c].blocks[n] # Truncated
                            /\ heap'[x].blk = file'[c].blocks[n]
<1>2. ASSUME x \in DOMAIN heap PROVE Read
  <2>1. PICK c \in Chunks :
            \/ x = <<c, 0>> /\ pos[c] > 1 /\ heap[x].prev = NoBlock
            \/ \E n \in 1 .. pos[c] - 1 :
                  /\ x = <<c, n>>
                  /\ file[c].blocks[n] # Truncated
                  /\ heap[x].blk = file[c].blocks[n]
    BY <1>1, <1>2 DEF ObjectsRead
  <2>2. /\ heap'[x].blk = heap[x].blk
        /\ heap'[x].prev = heap[x].prev \/ x \in heads
    BY <1>1, <1>2, ObjectsKept
  <2>3. pos[c] \in Int /\ pos'[c] \in Int /\ pos[c] <= pos'[c]
    BY <1>1, PosGrows
  <2>4. x # <<c, 0>> \/ x \notin heads
    BY <1>1 DEF HeadsAreFirst
  <2>5. CASE x = <<c, 0>> /\ pos[c] > 1 /\ heap[x].prev = NoBlock
    BY <2>2, <2>3, <2>4, <2>5
  <2>6. CASE \E n \in 1 .. pos[c] - 1 :
                  /\ x = <<c, n>>
                  /\ file[c].blocks[n] # Truncated
                  /\ heap[x].blk = file[c].blocks[n]
    <3>1. PICK n \in 1 .. pos[c] - 1 :
                  /\ x = <<c, n>>
                  /\ file[c].blocks[n] # Truncated
                  /\ heap[x].blk = file[c].blocks[n]
      BY <2>6
    <3>2. n \in 1 .. pos'[c] - 1
      BY <2>3
    <3>3. QED
      BY <1>1, <2>2, <3>1, <3>2
  <2>7. QED
    BY <2>1, <2>5, <2>6
<1>3. ASSUME x \notin DOMAIN heap PROVE Read
  <2>1. PICK c \in Chunks : ParseBlock(c)
    BY <1>1, <1>3, ObjectsNew
  <2>2. x = <<c, pos[c]>> \/ (UsesDummy(c) /\ x = <<c, 0>>)
    BY <1>1, <1>3, <2>1, ParseNew
  <2>3. pos[c] \in Nat /\ pos[c] >= 1 /\ pos'[c] = pos[c] + 1
    BY <1>1, <2>1, ParseOwn
  <2>4. CASE x = <<c, pos[c]>>
    <3>1. heap'[x].blk = file[c].blocks[pos[c]] /\ file[c].blocks[pos[c]] # Truncated
      BY <1>1, <2>1, <2>4, ParseNew, Zenon DEF ParseBlock, HasBlock, BlockAt
    <3>2. pos[c] \in 1 .. pos'[c] - 1
      BY <2>3
    <3>3. QED
      BY <1>1, <2>4, <3>1, <3>2, Zenon
  <2>5. CASE UsesDummy(c) /\ x = <<c, 0>>
    <3>1. heap'[x].prev = NoBlock
      BY <1>1, <2>1, <2>5, ParseNew
    <3>2. pos'[c] > 1
      BY <2>3
    <3>3. QED
      BY <2>5, <3>1, <3>2
  <2>6. QED
    BY <2>2, <2>4, <2>5
<1>4. QED
  BY <1>0, <1>2, <1>3

LEMMA PrevsFollowedStep == ChainInv /\ [Next]_vars => PrevsFollowed'
<1> DEFINE Dummied(x) == \E c \in Chunks \ {1} : /\ x = <<c, 1>>
                                                 /\ heap[x].prev = <<c, 0>>
                                                 /\ <<c, 0>> \in DOMAIN heap
           Follows(x, y) == /\ heap[x].prev = y
                            /\ Followed(y)
                            /\ heap[x].blk.prev # Zero
                            /\ heap[y].blk.hash = heap[x].blk.prev
<1> SUFFICES ASSUME ChainInv, [Next]_vars, NEW x \in DOMAIN heap'
             PROVE  \/ heap'[x].prev = NoBlock
                    \/ Dummied(x)'
                    \/ \E y : Follows(x, y)'
  BY DEF PrevsFollowed, Chunks, Followed, Settled
<1>1. /\ IInv /\ ObjectsRead /\ MapsFollowed /\ TailsFollowed /\ HeadsAreFirst
      /\ \A z \in DOMAIN heap : \/ heap[z].prev = NoBlock \/ Dummied(z)
                                \/ \E y : Follows(z, y)
  BY DEF ChainInv, PrevsFollowed
<1>2. ASSUME NEW y, Followed(y)
      PROVE  Followed(y)' /\ heap'[y].blk = heap[y].blk
  BY <1>1, <1>2, FollowedStays, ObjectsKept DEF Followed
<1>3. CASE x \in DOMAIN heap /\ heap'[x].prev = heap[x].prev
  <2>1. heap'[x].blk = heap[x].blk
    BY <1>1, <1>3, ObjectsKept
  <2>2. CASE heap[x].prev = NoBlock
    BY <1>3, <2>2
  <2>3. CASE Dummied(x)
    BY <1>3, <2>3, HeapGrows DEF Chunks
  <2>4. ASSUME NEW y, Follows(x, y) PROVE Follows(x, y)'
    BY <1>2, <1>3, <2>1, <2>4
  <2>5. QED
    BY <1>1, <1>3, <2>2, <2>3, <2>4
<1>4. CASE x \in DOMAIN heap /\ heap'[x].prev # heap[x].prev
  <2>1. LinkHead /\ x \in heads /\ heap'[x].blk = heap[x].blk
    BY <1>1, <1>4, ObjectsKept
  <2>2. heap[x].blk.prev \in DOMAIN tails /\ heap'[x].prev = tails[heap[x].blk.prev]
    BY <1>1, <1>4, <2>1, LinkEffect
  <2>3. PICK y : y = tails[heap[x].blk.prev]
    OBVIOUS
  <2>4. Followed(y) /\ heap[y].blk.hash = heap[x].blk.prev
    BY <1>1, <2>2, <2>3 DEF TailsFollowed
  <2>5. Followed(y)' /\ heap'[y].blk = heap[y].blk
    BY <1>2, <2>4
  <2>6. heap[x].blk.prev # Zero
    BY <1>1, <2>1 DEF HeadsAreFirst, Settled
  <2>7. Follows(x, y)'
    BY <2>1, <2>2, <2>3, <2>4, <2>5, <2>6
  <2>8. QED
    BY <2>7
<1>5. CASE x \notin DOMAIN heap
  <2>1. PICK c \in Chunks : ParseBlock(c)
    BY <1>1, <1>5, ObjectsNew
  <2>2. x = <<c, pos[c]>> \/ (UsesDummy(c) /\ x = <<c, 0>>)
    BY <1>1, <1>5, <2>1, ParseNew
  <2>3. CASE x = <<c, 0>> /\ UsesDummy(c)
    BY <1>1, <2>1, <2>3, ParseNew
  <2>4. CASE x = <<c, pos[c]>> /\ UsesDummy(c)
    <3>1. pos[c] = 1 /\ c # 1 /\ PrevFor(c) = <<c, 0>>
      BY <2>4 DEF UsesDummy, PrevFor, Chunks
    <3>2. heap'[x].prev = <<c, 0>> /\ <<c, 0>> \in DOMAIN heap'
      BY <1>1, <2>1, <2>4, <3>1, ParseNew
    <3>3. QED
      BY <2>4, <3>1, <3>2 DEF Chunks
  <2>5. CASE x = <<c, pos[c]>> /\ ~UsesDummy(c)
    <3>1. /\ heap'[x].prev = Predecessor(BlockAt(c), bmap[c])
          /\ heap'[x].blk = BlockAt(c)
      BY <1>1, <2>1, <2>5, ParseNew DEF PrevFor
    <3>2. CASE heap'[x].prev = NoBlock
      BY <3>2
    <3>3. CASE heap'[x].prev # NoBlock
      <4>1. PICK y : y = bmap[c][BlockAt(c).prev]
        OBVIOUS
      <4>2. /\ BlockAt(c).prev # Zero
            /\ BlockAt(c).prev \in DOMAIN bmap[c]
            /\ heap'[x].prev = y
        BY <3>1, <3>3, <4>1 DEF Predecessor
      <4>3. Followed(y) /\ heap[y].blk.hash = BlockAt(c).prev
        BY <1>1, <4>1, <4>2 DEF MapsFollowed
      <4>4. Followed(y)' /\ heap'[y].blk = heap[y].blk
        BY <1>2, <4>3
      <4>5. Follows(x, y)'
        BY <3>1, <4>2, <4>3, <4>4
      <4>6. QED
        BY <4>5
    <3>4. QED
      BY <3>2, <3>3
  <2>6. QED
    BY <2>2, <2>3, <2>4, <2>5
<1>6. QED
  BY <1>3, <1>4, <1>5

LEMMA MapsFollowedStep == ChainInv /\ [Next]_vars => MapsFollowed'
<1> DEFINE InMap(c, h, y) == /\ bmap[c][h] = y
                             /\ Followed(y) /\ heap[y].blk.hash = h
           IsTip(c, y) == tip[c] = y /\ Followed(y)
<1> SUFFICES ASSUME ChainInv, [Next]_vars, NEW c \in Chunks
             PROVE  /\ tip'[c] # NoBlock => \E y : IsTip(c, y)'
                    /\ \A h \in DOMAIN bmap'[c] : \E y : InMap(c, h, y)'
  BY DEF MapsFollowed, Chunks, Followed, Settled
<1>1. /\ IInv /\ ObjectsRead
      /\ tip[c] # NoBlock => \E y : IsTip(c, y)
      /\ \A h \in DOMAIN bmap[c] : \E y : InMap(c, h, y)
  BY DEF ChainInv, MapsFollowed
<1>2. ASSUME NEW y, Followed(y)
      PROVE  Followed(y)' /\ heap'[y].blk = heap[y].blk
  BY <1>1, <1>2, FollowedStays, ObjectsKept DEF Followed
<1>3. CASE tip'[c] = tip[c] /\ bmap'[c] = bmap[c]
  <2>1. ASSUME NEW y, IsTip(c, y) PROVE IsTip(c, y)'
    BY <1>2, <1>3, <2>1
  <2>2. ASSUME NEW h, NEW y, InMap(c, h, y) PROVE InMap(c, h, y)'
    BY <1>2, <1>3, <2>2
  <2> HIDE DEF IsTip, InMap
  <2>3. QED
    BY <1>1, <1>3, <2>1, <2>2
<1>4. CASE ParseBlock(c) /\ ~(tip'[c] = tip[c] /\ bmap'[c] = bmap[c])
  <2>1. /\ IsValid(HeapFor(c), BlockAt(c), PrevFor(c))
        /\ pos[c] \in Nat /\ pos[c] >= 1 /\ pos'[c] = pos[c] + 1
        /\ tip'[c] = <<c, pos[c]>>
        /\ bmap'[c] = Put(bmap[c], BlockAt(c).hash, <<c, pos[c]>>)
    BY <1>1, <1>4, ParseOwn DEF ParseBlock
  <2>2. PICK y : y = <<c, pos[c]>>
    OBVIOUS
  <2>3. y \in DOMAIN heap' /\ heap'[y].blk = BlockAt(c)
    BY <1>1, <1>4, <2>2, ParseNew
  <2>4. pos[c] = 1 /\ c > 1 => pc'[c] = "lockHead"
    BY <1>1, <1>4, <2>1, ParseOwn DEF ParseBlock, CoinbaseAsserts, UsesDummy
  <2>5. pos[c] \in 1 .. pos'[c] - 1
    BY <2>1
  <2>6. Followed(y)'
    BY <2>2, <2>3, <2>4, <2>5 DEF Followed, Settled, Chunks
  <2>7. IsTip(c, y)'
    BY <2>1, <2>2, <2>6
  <2>8. ASSUME NEW h \in DOMAIN bmap'[c] PROVE \E z : InMap(c, h, z)'
    <3>1. CASE h = BlockAt(c).hash
      <4>1. bmap'[c][h] = y
        BY <2>1, <2>2, <3>1 DEF Put
      <4>2. InMap(c, h, y)'
        BY <2>3, <2>6, <3>1, <4>1
      <4>3. QED
        BY <4>2
    <3>2. CASE h # BlockAt(c).hash
      <4>1. h \in DOMAIN bmap[c] /\ bmap'[c][h] = bmap[c][h]
        BY <2>1, <2>8, <3>2 DEF Put
      <4>2. PICK z : InMap(c, h, z)
        BY <1>1, <4>1
      <4>3. InMap(c, h, z)'
        BY <1>2, <4>1, <4>2
      <4>4. QED
        BY <4>3
    <3>3. QED
      BY <3>1, <3>2
  <2> HIDE DEF IsTip, InMap
  <2>9. QED
    BY <2>7, <2>8
<1>5. \/ tip'[c] = tip[c] /\ bmap'[c] = bmap[c]
      \/ ParseBlock(c)
  <2>1. ASSUME NEW d \in Chunks, d # c, ParseBlock(d)
        PROVE  tip'[c] = tip[c] /\ bmap'[c] = bmap[c]
    BY <1>1, <2>1, ParseOwn
  <2>2. \/ tip' = tip /\ bmap' = bmap
        \/ \E d \in Chunks : ParseBlock(d)
    BY MainFrame DEF Next, ReadChunk, ParseAborts, Lock, InsertHead,
                     FinishChunk, InsertTail, ExitThread, threadVars
  <2>3. QED
    BY <2>1, <2>2
<1>6. QED
  BY <1>3, <1>4, <1>5

LEMMA TailsFollowedStep == ChainInv /\ [Next]_vars => TailsFollowed'
<1> DEFINE IsTail(h, y) == /\ tails[h] = y
                           /\ Followed(y) /\ heap[y].blk.hash = h
<1> SUFFICES ASSUME ChainInv, [Next]_vars, NEW h \in DOMAIN tails'
             PROVE  \E y : IsTail(h, y)'
  BY DEF TailsFollowed, Chunks, Followed, Settled
<1>1. /\ IInv /\ ObjectsRead /\ MapsFollowed
      /\ h \in DOMAIN tails => \E y : IsTail(h, y)
  BY DEF ChainInv, TailsFollowed
<1>2. ASSUME NEW y, Followed(y)
      PROVE  Followed(y)' /\ heap'[y].blk = heap[y].blk
  BY <1>1, <1>2, FollowedStays, ObjectsKept DEF Followed
<1>3. CASE h \in DOMAIN tails /\ tails'[h] = tails[h]
  <2>1. PICK y : IsTail(h, y)
    BY <1>1, <1>3
  <2>2. IsTail(h, y)'
    BY <1>2, <1>3, <2>1
  <2>3. QED
    BY <2>2
<1>4. ASSUME NEW c \in Chunks, InsertTail(c) PROVE \E y : IsTail(h, y)'
  <2>1. /\ tails' = Put(tails, heap[tip[c]].blk.hash, tip[c])
        /\ pc[c] = "insertTail"
    BY <1>4 DEF InsertTail, Move
  <2>2. CASE h = heap[tip[c]].blk.hash
    <3>1. PICK y : y = tip[c]
      OBVIOUS
    <3>2. Followed(y) /\ tails'[h] = y
      BY <1>1, <2>1, <2>2, <3>1 DEF IInv, ObjectsOwned, MapsFollowed, Put
    <3>3. IsTail(h, y)'
      BY <1>2, <2>2, <3>1, <3>2
    <3>4. QED
      BY <3>3
  <2>3. CASE h # heap[tip[c]].blk.hash
    BY <1>3, <2>1, <2>3 DEF Put
  <2>4. QED
    BY <2>2, <2>3
<1>5. QED
  BY <1>3, <1>4, TailsFrame

LEMMA HeadsAreFirstStep == ChainInv /\ [Next]_vars => HeadsAreFirst'
<1> SUFFICES ASSUME ChainInv, [Next]_vars
             PROVE  /\ heads' \subseteq Chunks \X {1}
                    /\ \A c \in Chunks :
                          Settled(c)' => heap'[<<c, 1>>].blk.prev # Zero
  BY DEF HeadsAreFirst, Chunks
<1>1. IInv /\ ObjectsRead /\ HeadsAreFirst
  BY DEF ChainInv
<1>2. heads' \subseteq Chunks \X {1}
  <2>1. heads' = heads \/ \E c \in Chunks : InsertHead(c)
    BY MainFrame DEF Next, ReadChunk, ParseBlock, ParseAborts, Lock,
                     FinishChunk, InsertTail, ExitThread
  <2>2. QED
    BY <1>1, <2>1 DEF HeadsAreFirst, InsertHead
<1>3. ASSUME NEW c \in Chunks, Settled(c)'
      PROVE  heap'[<<c, 1>>].blk.prev # Zero
  <2>1. CASE Settled(c)
    <3>1. <<c, 1>> \in DOMAIN heap /\ heap[<<c, 1>>].blk.prev # Zero
      BY <1>1, <2>1 DEF HeadsAreFirst, Settled, IInv, ObjectsOwned,
                        ContainersHoldObjects
    <3>2. QED
      BY <1>1, <3>1, ObjectsKept
  <2>2. CASE ParseBlock(c)
    <3>1. heads' = heads /\ pc[c] = "parse" /\ pc'[c] \in {"parse", "lockHead"}
      BY <1>1, <2>2, ParseOwn
    <3>2. CASE pc'[c] = "lockHead"
      <4>1. pos[c] = 1 /\ BlockAt(c).prev # Zero
        BY <2>2, <3>2 DEF ParseBlock, Move, IInv, ThreadTypes, ChainInv
      <4>2. QED
        BY <1>1, <2>2, <4>1, ParseNew
    <3>3. QED
      BY <1>3, <2>1, <3>1, <3>2 DEF Settled
  <2>3. CASE ~Settled(c) /\ ~ParseBlock(c)
    <3>1. \/ heads' = heads /\ pc'[c] = pc[c]
          \/ heads' = heads /\ pc'[c] \notin {"lockHead", "insertHead"}
          \/ InsertHead(c) \/ Lock(c, "lockHead", "insertHead")
          \/ \E d \in Chunks : d # c /\ InsertHead(d)
      <4>1. CASE Main \/ Ended \/ UNCHANGED vars
        BY <1>1, <4>1, MainFrame DEF LaunchThread, IInv, ThreadTypes
      <4>2. ASSUME NEW d \in Chunks, ReadChunk(d), d # c, ~InsertHead(d)
            PROVE  heads' = heads /\ pc'[c] = pc[c]
        BY <1>1, <4>2
        DEF ReadChunk, ParseBlock, ParseAborts, Lock, FinishChunk, InsertTail,
            ExitThread, Move, IInv, ThreadTypes, threadVars
      <4>3. CASE ReadChunk(c)
        BY <1>1, <2>3, <4>3
        DEF ReadChunk, ParseAborts, Lock, FinishChunk, InsertTail,
            ExitThread, Move, IInv, ThreadTypes, threadVars
      <4>4. QED
        BY <4>1, <4>2, <4>3 DEF Next
    <3>2. ~InsertHead(c) /\ ~Lock(c, "lockHead", "insertHead")
      BY <2>3 DEF InsertHead, Lock, Move, Settled
    <3>3. ASSUME NEW d \in Chunks, d # c, InsertHead(d)
          PROVE  heads' = heads \cup {<<d, 1>>} /\ pc'[c] = pc[c]
      BY <1>1, <3>3 DEF InsertHead, Move, IInv, ThreadTypes
    <3>4. QED
      BY <1>3, <2>3, <3>1, <3>2, <3>3 DEF Settled
  <2>4. QED
    BY <2>1, <2>2, <2>3
<1>4. QED
  BY <1>2, <1>3

LEMMA LinkedToTailsStep == ChainInv /\ [Next]_vars => LinkedToTails'
<1> SUFFICES ASSUME ChainInv, [Next]_vars PROVE LinkedToTails'
  OBVIOUS
<1>1. /\ IInv /\ ObjectsRead /\ LinkedToTails /\ linked \subseteq DOMAIN heap
      /\ linked \subseteq heads
  BY DEF ChainInv, IInv, MainTypes, ContainersHoldObjects
<1>2. CASE LinkHead
  <2>1. PICK p \in heads \ linked :
              /\ p \in DOMAIN heap
              /\ heap[p].blk.prev \in DOMAIN tails
              /\ DOMAIN heap' = DOMAIN heap
              /\ heap'[p].prev = tails[heap[p].blk.prev]
              /\ \A x \in DOMAIN heap : /\ heap'[x].blk = heap[x].blk
                                        /\ DOMAIN heap'[x] = DOMAIN heap[x]
                                        /\ x # p => heap'[x] = heap[x]
              /\ linked' = linked \cup {p}
              /\ mainPc = "link"
              /\ UNCHANGED <<mainPc, heads, tails, valid, best, pos, pc>>
    BY <1>1, <1>2, LinkEffect
  <2>2. QED
    BY <1>1, <2>1 DEF LinkedToTails
<1>3. CASE Main /\ ~LinkHead
  <2>1. \A x \in DOMAIN heap : heap'[x].blk = heap[x].blk /\ heap'[x].prev = heap[x].prev
    BY <1>1, <1>3, ObjectsKept
  <2>2. tails' = tails /\ heads' = heads /\ linked' = linked
    BY <1>3, MainFrame
    DEF Main, CreateThread, LaunchThread, WaitThread, DeleteManager,
        NoPredecessor, AllLinked, ScanTail, PrintReport, mergeVars
  <2>3. \A p \in linked' : /\ heap'[p].blk.prev \in DOMAIN tails'
                           /\ heap'[p].prev = tails'[heap'[p].blk.prev]
    BY <1>1, <2>1, <2>2 DEF LinkedToTails
  <2>4. linked' # {} => mainPc' \in {"link", "scan", "done"}
    BY <1>1, <1>3, <2>2
    DEF LinkedToTails, Main, CreateThread, LaunchThread, WaitThread,
        DeleteManager, NoPredecessor, AllLinked, ScanTail, PrintReport
  <2>5. (mainPc' \in {"scan", "done"} /\ valid') => linked' = heads'
    <3>1. CASE NoPredecessor
      BY <3>1 DEF NoPredecessor
    <3>2. CASE AllLinked
      BY <2>2, <3>2 DEF AllLinked
    <3>3. CASE ScanTail \/ PrintReport
      BY <1>1, <2>2, <3>3 DEF ScanTail, PrintReport, LinkedToTails, mergeVars
    <3>4. CASE CreateThread \/ LaunchThread \/ WaitThread \/ DeleteManager
      BY <1>1, <3>4, CreateEffect, LaunchEffect, WaitEffect, DeleteEffect
    <3>5. QED
      BY <1>3, <3>1, <3>2, <3>3, <3>4 DEF Main
  <2>6. QED
    BY <2>3, <2>4, <2>5 DEF LinkedToTails
<1>4. ASSUME NEW c \in Chunks, ReadChunk(c) PROVE LinkedToTails'
  <2>1. mainPc \in {"create", "launch", "wait"} /\ linked = {}
    BY <1>1, <1>4, ThreadIsOut DEF LinkedToTails
  <2>2. linked' = linked /\ mainPc' \in {mainPc, "aborted"}
    BY <1>4 DEF ReadChunk, ParseBlock, ParseAborts, Lock, InsertHead,
                FinishChunk, InsertTail, ExitThread, mergeVars
  <2>3. QED
    BY <2>1, <2>2 DEF LinkedToTails
<1>5. CASE Ended \/ UNCHANGED vars
  BY <1>1, <1>5 DEF Ended, vars, mergeVars, LinkedToTails
<1>6. QED
  BY <1>2, <1>3, <1>4, <1>5 DEF Next

-----------------------------------------------------------------------------
(* Paths.                                                                   *)

\* Predecessors are objects, too.
IsHeap(h) == \A x \in DOMAIN h : h[x].prev # NoBlock => h[x].prev \in DOMAIN h

\* The recursive function of Path has a value: of the sets that hold an object
\* and the predecessors of what they hold, the least.
LEMMA PathUnfolds ==
    ASSUME NEW h, IsHeap(h), NEW x \in DOMAIN h
    PROVE  Path(h, x) = IF h[x].prev = NoBlock THEN {x}
                        ELSE {x} \cup Path(h, h[x].prev)
<1> DEFINE D == DOMAIN h
           Closed(S) == \A z \in S : h[z].prev # NoBlock => h[z].prev \in S
           Least(y) == {z \in D : \A S \in SUBSET D : y \in S /\ Closed(S) => z \in S}
           Body(f) == [y \in DOMAIN h |-> IF h[y].prev = NoBlock THEN {y}
                                          ELSE {y} \cup f[h[y].prev]]
           f == [y \in D |-> Least(y)]
           p == CHOOSE g : g = Body(g)
<1>1. ASSUME NEW y \in D
      PROVE  Least(y) = IF h[y].prev = NoBlock THEN {y} ELSE {y} \cup Least(h[y].prev)
  <2>1. y \in Least(y)
    OBVIOUS
  <2>2. CASE h[y].prev = NoBlock
    <3>1. {y} \in SUBSET D /\ Closed({y})
      BY <2>2
    <3>2. Least(y) \subseteq {y}
      BY <3>1
    <3>3. QED
      BY <2>1, <2>2, <3>2
  <2>3. CASE h[y].prev # NoBlock
    <3> DEFINE v == h[y].prev
               T == {y} \cup Least(v)
    <3>1. v \in D
      BY <2>3 DEF IsHeap
    <3>2. v \in Least(v) /\ T \in SUBSET D
      BY <3>1
    <3>3. Closed(T)
      <4> SUFFICES ASSUME NEW z \in T, h[z].prev # NoBlock PROVE h[z].prev \in T
        OBVIOUS
      <4>1. CASE z = y
        BY <3>2, <4>1
      <4>2. CASE z \in Least(v)
        <5>1. h[z].prev \in D
          BY <4>2 DEF IsHeap
        <5>2. ASSUME NEW S \in SUBSET D, v \in S, Closed(S) PROVE h[z].prev \in S
          BY <4>2, <5>2
        <5>3. QED
          BY <5>1, <5>2
      <4>3. QED
        BY <4>1, <4>2
    <3>4. Least(y) \subseteq T
      BY <3>2, <3>3
    <3>5. ASSUME NEW z \in Least(v) PROVE z \in Least(y)
      <4>1. ASSUME NEW S \in SUBSET D, y \in S, Closed(S) PROVE z \in S
        BY <2>3, <3>5, <4>1
      <4>2. QED
        BY <3>5, <4>1
    <3>6. QED
      BY <2>1, <2>3, <3>4, <3>5
  <2>4. QED
    BY <2>2, <2>3
<1> HIDE DEF Least
<1>2. f = Body(f)
  <2>1. ASSUME NEW y \in D
        PROVE  f[y] = IF h[y].prev = NoBlock THEN {y} ELSE {y} \cup f[h[y].prev]
    <3>1. h[y].prev # NoBlock => f[h[y].prev] = Least(h[y].prev)
      BY DEF IsHeap
    <3>2. QED
      BY <1>1, <3>1
  <2>2. QED
    BY <2>1
<1>3. p = Body(p)
  <2> HIDE DEF Body, f
  <2>1. QED
    BY <1>2
<1>4. \A y : Path(h, y) = p[y]
  BY Zenon DEF Path
<1> HIDE DEF p
<1>5. p[x] = IF h[x].prev = NoBlock THEN {x} ELSE {x} \cup p[h[x].prev]
  BY <1>3
<1>6. QED
  BY <1>4, <1>5

\* Going back from object to object comes to an end.
IsRanked(h, rank) ==
    /\ rank \in [DOMAIN h -> Nat]
    /\ \A x \in DOMAIN h : h[x].prev # NoBlock =>
          h[x].prev \in DOMAIN h /\ rank[h[x].prev] < rank[x]

LEMMA RankInduction ==
    ASSUME NEW h, NEW rank, IsRanked(h, rank), NEW S,
           \A x \in DOMAIN h :
               (h[x].prev = NoBlock \/ h[x].prev \in S) => x \in S
    PROVE  DOMAIN h \subseteq S
<1> DEFINE T == {n \in Nat : \A x \in DOMAIN h : rank[x] < n => x \in S}
<1>1. \A x \in DOMAIN h : rank[x] \in Nat
  BY DEF IsRanked
<1>2. 0 \in T
  BY <1>1
<1>3. ASSUME NEW n \in Nat, n \in T PROVE n + 1 \in T
  <2> SUFFICES ASSUME NEW x \in DOMAIN h, rank[x] < n + 1 PROVE x \in S
    OBVIOUS
  <2>1. CASE h[x].prev = NoBlock
    BY <2>1
  <2>2. CASE h[x].prev # NoBlock
    <3>1. h[x].prev \in DOMAIN h /\ rank[h[x].prev] < n
      BY <1>1, <2>2 DEF IsRanked
    <3>2. QED
      BY <1>3, <3>1
  <2>3. QED
    BY <2>1, <2>2
<1> HIDE DEF T
<1>4. Nat \subseteq T
  BY <1>2, <1>3, NumberInduction
<1> SUFFICES ASSUME NEW x \in DOMAIN h PROVE x \in S
  OBVIOUS
<1>5. rank[x] + 1 \in T
  BY <1>1, <1>4
<1>6. QED
  BY <1>1, <1>5 DEF T

\* The path depends on nothing but the predecessors.
LEMMA PathSame ==
    ASSUME NEW h, NEW rank, IsRanked(h, rank), NEW g, DOMAIN g = DOMAIN h,
           \A x \in DOMAIN h : g[x].prev = h[x].prev
    PROVE  \A x \in DOMAIN h : Path(g, x) = Path(h, x)
<1> DEFINE S == {x \in DOMAIN h : Path(g, x) = Path(h, x)}
<1>1. IsHeap(h) /\ IsHeap(g)
  BY DEF IsHeap, IsRanked
<1>2. ASSUME NEW x \in DOMAIN h, h[x].prev = NoBlock \/ h[x].prev \in S
      PROVE  x \in S
  <2>1. /\ Path(h, x) = IF h[x].prev = NoBlock THEN {x}
                        ELSE {x} \cup Path(h, h[x].prev)
        /\ Path(g, x) = IF g[x].prev = NoBlock THEN {x}
                        ELSE {x} \cup Path(g, g[x].prev)
    BY <1>1, PathUnfolds
  <2>2. QED
    BY <1>2, <2>1
<1> HIDE DEF S
<1>3. DOMAIN h \subseteq S
  BY <1>2, RankInduction
<1>4. QED
  BY <1>3 DEF S

\* The hash of a block is computed from what the block says, which includes the
\* hash of its predecessor: the blocks of a file have an age.
BlocksOfChunk(f, c) == {f[c].blocks[n] : n \in 1 .. Len(f[c].blocks)}

BlocksIn(f) == (UNION {BlocksOfChunk(f, c) : c \in Chunks}) \ {Truncated}

HashesIn(f) ==
    {blk.hash : blk \in BlocksIn(f)} \cup {blk.prev : blk \in BlocksIn(f)}

HashesAreNew ==
    \A f \in Files : \E age \in [HashesIn(f) -> Nat] :
        \A blk \in BlocksIn(f) :
            blk.prev # Zero => age[blk.prev] < age[blk.hash]

LEMMA HeapIsRanked ==
    ASSUME HashesAreNew, ChainInv
    PROVE  \E rank : IsRanked(heap, rank)
<1>1. /\ ObjectsRead /\ PrevsFollowed /\ ThreadTypes /\ file \in Files
  BY DEF ChainInv, IInv, MainTypes
<1>2. PICK age \in [HashesIn(file) -> Nat] :
          \A blk \in BlocksIn(file) :
              blk.prev # Zero => age[blk.prev] < age[blk.hash]
  BY <1>1 DEF HashesAreNew
<1> DEFINE rank == [x \in DOMAIN heap |->
                      IF x[2] = 0 THEN 0 ELSE age[heap[x].blk.hash] + 1]
<1>3. ASSUME NEW x \in DOMAIN heap
      PROVE  \/ \E c \in Chunks : x = <<c, 0>> /\ heap[x].prev = NoBlock
             \/ /\ x[2] # 0
                /\ heap[x].blk.hash \in HashesIn(file)
                /\ heap[x].blk.prev # Zero =>
                      /\ heap[x].blk.prev \in HashesIn(file)
                      /\ age[heap[x].blk.prev] < age[heap[x].blk.hash]
  <2>1. PICK c \in Chunks :
            \/ x = <<c, 0>> /\ pos[c] > 1 /\ heap[x].prev = NoBlock
            \/ \E n \in 1 .. pos[c] - 1 :
                  /\ x = <<c, n>>
                  /\ file[c].blocks[n] # Truncated
                  /\ heap[x].blk = file[c].blocks[n]
    BY <1>1 DEF ObjectsRead
  <2>2. ASSUME NEW n \in 1 .. pos[c] - 1, x = <<c, n>>,
               file[c].blocks[n] # Truncated, heap[x].blk = file[c].blocks[n]
        PROVE  /\ x[2] # 0
               /\ heap[x].blk.hash \in HashesIn(file)
               /\ heap[x].blk.prev # Zero =>
                     /\ heap[x].blk.prev \in HashesIn(file)
                     /\ age[heap[x].blk.prev] < age[heap[x].blk.hash]
    <3>1. Len(file[c].blocks) \in Nat /\ pos[c] \in 1 .. Len(file[c].blocks) + 1
      BY <1>1, BlocksAreCounted DEF ThreadTypes, Chunks
    <3>2. n \in 1 .. Len(file[c].blocks)
      BY <3>1
    <3>3. heap[x].blk \in BlocksIn(file)
      <4>1. heap[x].blk \in BlocksOfChunk(file, c)
        BY <2>2, <3>2 DEF BlocksOfChunk
      <4>2. QED
        BY <2>2, <4>1 DEF BlocksIn
    <3>4. x[2] # 0
      BY <2>2
    <3>5. QED
      BY <1>2, <3>3, <3>4 DEF HashesIn
  <2>3. QED
    BY <2>1, <2>2
<1>4. rank \in [DOMAIN heap -> Nat]
  <2> SUFFICES ASSUME NEW x \in DOMAIN heap PROVE rank[x] \in Nat
    OBVIOUS
  <2>1. x[2] # 0 => heap[x].blk.hash \in HashesIn(file)
    BY <1>3
  <2>2. QED
    BY <2>1
<1>5. ASSUME NEW x \in DOMAIN heap, heap[x].prev # NoBlock
      PROVE  heap[x].prev \in DOMAIN heap /\ rank[heap[x].prev] < rank[x]
  <2>1. /\ x[2] # 0
        /\ heap[x].blk.hash \in HashesIn(file)
        /\ heap[x].blk.prev # Zero =>
              /\ heap[x].blk.prev \in HashesIn(file)
              /\ age[heap[x].blk.prev] < age[heap[x].blk.hash]
    BY <1>3, <1>5
  <2>2. age[heap[x].blk.hash] \in Nat
    BY <2>1
  <2>3. rank[x] = age[heap[x].blk.hash] + 1
    BY <2>1
  <2>4. CASE \E c \in Chunks \ {1} : /\ x = <<c, 1>>
                                     /\ heap[x].prev = <<c, 0>>
                                     /\ <<c, 0>> \in DOMAIN heap
    BY <2>2, <2>3, <2>4
  <2>5. CASE /\ Followed(heap[x].prev)
             /\ heap[x].blk.prev # Zero
             /\ heap[heap[x].prev].blk.hash = heap[x].blk.prev
    <3>1. heap[x].prev \in DOMAIN heap
      BY <2>5 DEF Followed
    <3>2. \/ rank[heap[x].prev] = 0
          \/ rank[heap[x].prev] = age[heap[x].blk.prev] + 1
      BY <2>5, <3>1
    <3>3. age[heap[x].blk.prev] \in Nat
      BY <2>1, <2>5
    <3> HIDE DEF rank
    <3>4. QED
      BY <2>1, <2>2, <2>3, <2>5, <3>1, <3>2, <3>3
  <2>6. QED
    BY <1>1, <1>5, <2>4, <2>5 DEF PrevsFollowed
<1>6. QED
  BY <1>4, <1>5 DEF IsRanked

LEMMA BestIsTailStep ==
    ASSUME HashesAreNew, ChainInv, [Next]_vars
    PROVE  BestIsTail'
<1>1. IInv /\ BestIsTail /\ TailsFollowed
  BY DEF ChainInv
<1>2. ASSUME NEW y, Followed(y) PROVE Followed(y)' /\ y \in DOMAIN heap
  BY <1>1, <1>2, FollowedStays DEF Followed
<1>3. CASE ScanTail
  <2>1. PICK h \in DOMAIN tails \ scanned :
            /\ mainPc = "scan" /\ mainPc' = mainPc
            /\ heap' = Recomputed(tails[h])
            /\ best' = IF best.length < heap'[tails[h]].length
                       THEN [id |-> tails[h], length |-> heap'[tails[h]].length]
                       ELSE best
    BY <1>3 DEF ScanTail
  <2>2. PICK t : t = tails[h]
    OBVIOUS
  <2>3. Followed(t) /\ Followed(t)' /\ t \in DOMAIN heap
    BY <1>1, <1>2, <2>2 DEF TailsFollowed
  <2>4. PICK rank : IsRanked(heap, rank)
    BY HeapIsRanked
  <2>5. DOMAIN heap' = DOMAIN heap /\ \A x \in DOMAIN heap : heap'[x].prev = heap[x].prev
    BY <2>1 DEF Recomputed
  <2>6. \A x \in DOMAIN heap : Path(heap', x) = Path(heap, x)
    BY <2>4, <2>5, PathSame
  <2>7. heap'[t].length = Cardinality(Path(heap, t))
    <3>1. t \in Path(heap, t)
      BY <2>3, <2>4, PathUnfolds DEF IsRanked, IsHeap
    <3>2. "length" \in DOMAIN heap[t]
      BY <2>3 DEF ChainInv, ObjectsRead, Members
    <3>3. QED
      BY <2>1, <2>2, <2>3, <3>1, <3>2 DEF Recomputed
  <2>8. CASE best' = [id |-> t, length |-> heap'[t].length]
    <3>1. best'.id = t /\ best'.length = Cardinality(Path(heap', t))
      BY <2>3, <2>6, <2>7, <2>8
    <3>2. QED
      BY <2>1, <2>3, <3>1 DEF BestIsTail, Followed, Settled, Chunks
  <2>9. CASE best' = best
    <3> SUFFICES ASSUME best.id # NoBlock PROVE BestIsTail'
      BY <2>9 DEF BestIsTail
    <3>1. PICK y : y = best.id
      OBVIOUS
    <3>2. Followed(y) /\ Followed(y)' /\ y \in DOMAIN heap
          /\ best.length = Cardinality(Path(heap', y))
      BY <1>1, <1>2, <2>6, <3>1 DEF BestIsTail
    <3>3. QED
      BY <2>1, <2>9, <3>1, <3>2 DEF BestIsTail, Followed, Settled, Chunks
  <2>10. QED
    BY <2>1, <2>2, <2>8, <2>9
<1>4. CASE UNCHANGED <<mainPc, best, heap, heads, pc, pos>>
  BY <1>1, <1>4 DEF BestIsTail, Followed, Settled, Chunks
<1>5. CASE best.id = NoBlock /\ best' = best
  BY <1>5 DEF BestIsTail
<1>6. CASE best.id # NoBlock
  <2>1. mainPc \in {"scan", "done"}
    BY <1>1, <1>6 DEF BestIsTail
  <2>2. ASSUME NEW c \in Chunks PROVE ~ReadChunk(c)
    BY <1>1, <2>1, ThreadIsOut, Zenon
  <2>3. ScanTail \/ PrintReport \/ Ended \/ UNCHANGED vars
    BY <2>1, <2>2, Zenon DEF Next, Main, CreateThread, LaunchThread, WaitThread,
                      DeleteManager, LinkHead, NoPredecessor, AllLinked
  <2>4. CASE PrintReport
    <3>1. UNCHANGED <<best, heap, heads, pc, pos>> /\ mainPc' = "done"
      BY <2>4 DEF PrintReport, threadVars, mergeVars
    <3>2. QED
      BY <1>1, <3>1 DEF BestIsTail, Followed, Settled, Chunks
  <2>5. QED
    BY <1>3, <1>4, <2>3, <2>4 DEF Ended, vars, threadVars, mergeVars
<1>7. CASE best.id = NoBlock /\ ~ScanTail
  <2>1. best' = best
    BY <1>7, Zenon DEF Next, Main, Ended, ReadChunk, vars, mergeVars, CreateThread,
         LaunchThread, WaitThread, DeleteManager, NoPredecessor, AllLinked,
         PrintReport, LinkHead, ParseBlock, ParseAborts, Lock, InsertHead,
         FinishChunk, InsertTail, ExitThread
  <2>2. QED
    BY <1>5, <1>7, <2>1, Zenon
<1>8. QED
  BY <1>3, <1>6, <1>7

LEMMA InitChainInv == Init => ChainInv
<1> SUFFICES ASSUME Init PROVE ChainInv
  OBVIOUS
<1>1. IInv
  BY InitInv
<1>2. DOMAIN heap = {} /\ DOMAIN tails = {} /\ heads = {} /\ linked = {}
  BY DEF Init, NoMap
<1>3. ObjectsRead /\ PrevsFollowed /\ TailsFollowed
  BY <1>2 DEF ObjectsRead, PrevsFollowed, TailsFollowed
<1>4. MapsFollowed
  BY DEF Init, MapsFollowed, NoMap
<1>5. HeadsAreFirst
  BY <1>2 DEF HeadsAreFirst, Settled, Init
<1>6. LinkedToTails /\ BestIsTail
  BY <1>2 DEF LinkedToTails, BestIsTail, Init
<1>7. QED
  BY <1>1, <1>3, <1>4, <1>5, <1>6 DEF ChainInv

LEMMA ChainInvariance == HashesAreNew => (Spec => []ChainInv)
<1> SUFFICES ASSUME HashesAreNew PROVE Spec => []ChainInv
  OBVIOUS
<1>1. ChainInv /\ [Next]_vars => ChainInv'
  <2> SUFFICES ASSUME ChainInv, [Next]_vars PROVE ChainInv'
    OBVIOUS
  <2>1. IInv'
    BY ManagerStep, MainTypesStep, ThreadTypesStep, ManagerInStepStep,
       SlotsInStepStep, ThreadsAreAliveStep, UntouchedStep, MutexStep,
       ObjectsStep, ContainersStep, TailsDueStep, TailsAreTipsStep,
       TailsEnteredStep, HeadsEnteredStep
    DEF IInv, ChainInv
  <2>2. QED
    BY <2>1, ObjectsReadStep, PrevsFollowedStep, MapsFollowedStep,
       TailsFollowedStep, HeadsAreFirstStep, LinkedToTailsStep, BestIsTailStep
    DEF ChainInv
<1>2. QED
  BY InitChainInv, <1>1, PTL DEF Spec

\* Whatever the file holds and however the threads run, the chain reported has
\* no dummy: linking has replaced each one by the block it stood for, and its
\* length is that of the chain (readindexed.cpp:86-100, 245-264).
THEOREM ReportIsReal == HashesAreNew => (Spec => []NoDummyReported)
<1> SUFFICES ASSUME HashesAreNew PROVE Spec => []NoDummyReported
  OBVIOUS
<1>1. ChainInv /\ MergeIsSound => NoDummyReported
  <2> SUFFICES ASSUME ChainInv, MergeIsAlone, report.status = "tip"
               PROVE  /\ \A c \in Chunks : <<c, 0>> \notin Path(heap, best.id)
                      /\ best.length = Cardinality(Path(heap, best.id))
    BY DEF NoDummyReported, MergeIsSound
  <2>1. mainPc = "done" /\ valid /\ best.id # NoBlock
    BY DEF report
  <2>2. /\ Followed(best.id) /\ best.length = Cardinality(Path(heap, best.id))
        /\ linked = heads
    BY <2>1 DEF ChainInv, BestIsTail, LinkedToTails
  <2> DEFINE S == {x \in DOMAIN heap : Followed(x) =>
                       \A y \in Path(heap, x) : Followed(y)}
  <2>3. PICK rank : IsRanked(heap, rank)
    BY HeapIsRanked
  <2>4. ASSUME NEW x \in DOMAIN heap, Followed(x), heap[x].prev # NoBlock
        PROVE  Followed(heap[x].prev)
    <3>1. CASE \E c \in Chunks \ {1} : x = <<c, 1>> /\ heap[x].prev = <<c, 0>>
      <4>1. PICK c \in Chunks \ {1} : x = <<c, 1>> /\ heap[x].prev = <<c, 0>>
        BY <3>1
      <4>2. Settled(c)
        BY <2>4, <4>1 DEF Followed, Chunks
      <4>3. x \in linked
        BY <2>1, <2>2, <4>1, <4>2 DEF Settled, MergeIsAlone
      <4>4. QED
        BY <4>3 DEF ChainInv, LinkedToTails, TailsFollowed
    <3>2. QED
      BY <2>4, <3>1 DEF ChainInv, PrevsFollowed
  <2>5. ASSUME NEW x \in DOMAIN heap, heap[x].prev = NoBlock \/ heap[x].prev \in S
        PROVE  x \in S
    <3>1. Path(heap, x) = IF heap[x].prev = NoBlock THEN {x}
                          ELSE {x} \cup Path(heap, heap[x].prev)
      BY <2>3, PathUnfolds DEF IsRanked, IsHeap
    <3>2. QED
      BY <2>4, <2>5, <3>1
  <2> HIDE DEF S
  <2>6. DOMAIN heap \subseteq S
    BY <2>3, <2>5, RankInduction
  <2>7. \A y \in Path(heap, best.id) : Followed(y)
    BY <2>2, <2>6 DEF S, Followed
  <2>8. \A c \in Chunks : ~Followed(<<c, 0>>)
    BY DEF Followed
  <2>9. QED
    BY <2>2, <2>7, <2>8
<1>2. QED
  BY ChainInvariance, MergeSound, <1>1, PTL

-----------------------------------------------------------------------------
(* The sequential reader on a chain.                                        *)

\* The fold of ReadAll over the first n blocks has a value on every set of
\* indices.
AllSets(s, n, g) ==
    [t \in SUBSET (1 .. n) |->
        IF t = {} THEN EmptyReader
        ELSE ReadBlock(g[t \ {Max(t)}], s[Max(t)])]

\* Such a function exists, one block after the other.
LEMMA AllSetsExist ==
    ASSUME NEW n \in Nat, NEW s
    PROVE  \E g : g = AllSets(s, n, g)
<1> USE DEF AllSets
<1> DEFINE Body(g, k) == AllSets(s, k, g)
           S == {k \in 0 .. n : \E g : g = Body(g, k)}
<1>1. 0 \in S
  <2> DEFINE g == [t \in SUBSET (1 .. 0) |-> EmptyReader]
  <2>1. 1 .. 0 = {} /\ 0 \in 0 .. n
    OBVIOUS
  <2>2. \A t \in SUBSET (1 .. 0) : t = {}
    BY <2>1
  <2>3. g = Body(g, 0)
    BY <2>2
  <2> HIDE DEF g
  <2>4. QED
    BY <2>1, <2>3
<1>2. ASSUME NEW k \in 0 .. n - 1, k \in S PROVE k + 1 \in S
  <2>1. PICK g : g = Body(g, k)
    BY <1>2
  <2>2. k \in Nat /\ k + 1 \in 0 .. n /\ k + 1 \in Nat
    BY <1>2
  <2> DEFINE h == Body(g, k + 1)
  <2>3. ASSUME NEW t \in SUBSET (1 .. k) PROVE h[t] = g[t]
    <3>1. t \in SUBSET (1 .. k + 1)
      BY <2>2
    <3>2. QED
      BY <2>1, <3>1
  <2>4. ASSUME NEW t \in SUBSET (1 .. k + 1), t # {}
        PROVE  t \ {Max(t)} \in SUBSET (1 .. k)
    <3>1. Max(t) \in t /\ \A i \in t : i <= Max(t)
      BY <2>2, <2>4, MaxExists
    <3>2. PICK m : m = Max(t)
      OBVIOUS
    <3>3. m \in 1 .. k + 1 /\ \A i \in t : i \in 1 .. k + 1 /\ i <= m
      BY <2>4, <3>1, <3>2
    <3>4. \A i \in 1 .. k + 1 : i <= m /\ i # m => i \in 1 .. k
      BY <2>2, <3>3
    <3>5. QED
      BY <3>2, <3>3, <3>4
  <2>5. ASSUME NEW t \in SUBSET (1 .. k + 1)
        PROVE  h[t] = IF t = {} THEN EmptyReader
                      ELSE ReadBlock(h[t \ {Max(t)}], s[Max(t)])
    BY <2>3, <2>4
  <2>6. h = [t \in SUBSET (1 .. k + 1) |-> h[t]]
    OBVIOUS
  <2> HIDE DEF h
  <2>7. h = Body(h, k + 1)
    BY <2>5, <2>6
  <2>8. QED
    BY <2>2, <2>7
<1>3. n \in S
  <2> HIDE DEF S
  <2>1. 0 .. n \subseteq S
    BY <1>1, <1>2, PrefixInduction
  <2>2. QED
    BY <2>1
<1>4. QED
  BY <1>3

\* The one that is chosen.
AllRead(s, n) == CHOOSE g : g = AllSets(s, n, g)

\* It is the one that the fold chooses.
LEMMA AllReadEquation ==
    ASSUME NEW n \in Nat, NEW s
    PROVE  AllRead(s, n) = AllSets(s, n, AllRead(s, n))
<1>1. \E g : g = AllSets(s, n, g)
  BY AllSetsExist
<1>2. QED
  BY <1>1 DEF AllRead

\* The states of the loop of main.
IsReading(r, n, s) ==
    /\ r[0] = EmptyReader
    /\ \A i \in 1 .. n : r[i] = ReadBlock(r[i - 1], s[i])
    /\ r[n] = ReadAll(s)

\* ReadAll runs the loop of main, one block at a time.
LEMMA ReadAllSteps ==
    ASSUME NEW n \in Nat, NEW s, DOMAIN s = 1 .. n
    PROVE  \E r : IsReading(r, n, s)
<1> DEFINE h == AllRead(s, n)
           r == [i \in 0 .. n |-> h[1 .. i]]
<1>1. h = AllSets(s, n, h)
  BY AllReadEquation
<1>2. ReadAll(s) = h[1 .. n]
  <2>1. ReadAll(s) =
          (CHOOSE g : g = [t \in SUBSET DOMAIN s |->
                             IF t = {} THEN EmptyReader
                             ELSE ReadBlock(g[t \ {Max(t)}], s[Max(t)])])
            [DOMAIN s]
    BY Zenon DEF ReadAll, FoldLeft, MapThenFoldSet, Max
  <2>2. QED
    BY <2>1, Zenon DEF AllRead, AllSets
<1> HIDE DEF h
<1>3. r[0] = EmptyReader
  <2>1. 1 .. 0 = {} /\ 0 \in 0 .. n
    OBVIOUS
  <2>2. h[{}] = EmptyReader
    BY <1>1 DEF AllSets
  <2>3. QED
    BY <2>1, <2>2
<1>4. ASSUME NEW i \in 1 .. n PROVE r[i] = ReadBlock(r[i - 1], s[i])
  <2>1. 1 .. i \in SUBSET (1 .. n) /\ i \in Nat \ {0} /\ i \in 0 .. n /\ i - 1 \in 0 .. n
    OBVIOUS
  <2>2. 1 .. i # {} /\ Max(1 .. i) = i /\ (1 .. i) \ {i} = 1 .. i - 1
    BY <2>1, LastIndex
  <2>3. h[1 .. i] = ReadBlock(h[1 .. i - 1], s[i])
    BY <1>1, <2>1, <2>2 DEF AllSets
  <2>4. QED
    BY <2>1, <2>3
<1>5. r[n] = ReadAll(s)
  BY <1>2
<1> HIDE DEF r
<1>6. QED
  BY <1>3, <1>4, <1>5 DEF IsReading

\* A chain: every block names the one before it, and no two have one hash.
IsRow(s, n) ==
    /\ DOMAIN s = 1 .. n
    /\ \A i \in 1 .. n : /\ IsBlock(s[i])
                         /\ s[i].hash # Zero
                         /\ s[i].prev = IF i = 1 THEN Zero ELSE s[i - 1].hash
    /\ \A i, j \in 1 .. n : s[i].hash = s[j].hash => i = j

\* The first objects that a reader makes.
Firsts(i) == {<<1, k>> : k \in 1 .. i}

\* The reader has accepted the first i blocks of the chain.
Accepting(r, i, s) ==
    /\ DOMAIN r.heap = Firsts(i)
    /\ DOMAIN r.bmap = {s[k].hash : k \in 1 .. i}
    /\ r.tip = IF i = 0 THEN NoBlock ELSE <<1, i>>
    /\ \A k \in 1 .. i :
          /\ r.bmap[s[k].hash] = <<1, k>>
          /\ r.heap[<<1, k>>].blk = s[k]
          /\ r.heap[<<1, k>>].length = k
          /\ IsMap(r.heap[<<1, k>>].balances)
          /\ LET before == IF k = 1 THEN NoBalances ELSE r.heap[<<1, k - 1>>].balances
             IN  /\ Validate(s[k], before).ok
                 /\ r.heap[<<1, k>>].balances = Validate(s[k], before).balances

\* The balances that a chain starts from.
LEMMA NoMoneyIsMap == IsMap(NoBalances)
  BY FS_EmptySet DEF IsMap, NoBalances

\* The objects of a reader are counted by its blocks.
LEMMA FirstsAreCounted == ASSUME NEW i \in Nat PROVE Cardinality(Firsts(i)) = i
<1> DEFINE f == [k \in 1 .. i |-> <<1, k>>]
<1>1. f \in Bijection(1 .. i, Firsts(i))
  BY DEF Bijection, Injection, Surjection, IsInjective, Firsts
<1>2. IsFiniteSet(1 .. i) /\ Cardinality(1 .. i) = i
  BY FS_Interval
<1>3. QED
  BY <1>1, <1>2, FS_Bijection DEF ExistsBijection

\* The next block of the chain is read, and not refused.
LEMMA ReadOnRow ==
    ASSUME NEW n \in Nat, NEW s, IsRow(s, n), NEW i \in 1 .. n,
           NEW r, Accepting(r, i - 1, s),
           s[i].hash \in DOMAIN ReadBlock(r, s[i]).bmap
    PROVE  Accepting(ReadBlock(r, s[i]), i, s)
<1> DEFINE blk == s[i]
           q == ReadBlock(r, blk)
           before == IF i = 1 THEN NoBalances ELSE r.heap[<<1, i - 1>>].balances
<1>0. i \in Nat /\ i - 1 \in Nat /\ i >= 1 /\ (i - 1) + 1 = i
  OBVIOUS
<1>1. Cardinality(DOMAIN r.heap) + 1 = i
  BY <1>0, FirstsAreCounted DEF Accepting
<1>2. PICK prev : prev = Predecessor(blk, r.bmap)
  OBVIOUS
<1>3. /\ StartBalances(r.heap, prev) = before
      /\ LengthFrom(r.heap, prev) = i
      /\ IsMap(before)
  <2>1. CASE i = 1
    <3>1. prev = NoBlock
      BY <1>2, <2>1 DEF Predecessor, IsRow
    <3>2. QED
      BY <2>1, <3>1, NoMoneyIsMap DEF StartBalances, LengthFrom
  <2>2. CASE i # 1
    <3>1. i - 1 \in 1 .. i - 1 /\ i - 1 \in 1 .. n
      BY <2>2
    <3>2. blk.prev = s[i - 1].hash /\ s[i - 1].hash # Zero
      BY <2>2, <3>1 DEF IsRow
    <3>3. prev = <<1, i - 1>>
      <4>1. s[i - 1].hash \in DOMAIN r.bmap /\ r.bmap[s[i - 1].hash] = <<1, i - 1>>
        BY <3>1 DEF Accepting
      <4>2. QED
        BY <1>2, <3>2, <4>1 DEF Predecessor
    <3>4. prev # NoBlock
      BY <3>3 DEF NoBlock
    <3>5. /\ r.heap[prev].length = i - 1
          /\ IsMap(r.heap[prev].balances)
          /\ before = r.heap[prev].balances
      BY <2>2, <3>1, <3>3 DEF Accepting
    <3>6. QED
      BY <1>0, <3>4, <3>5 DEF StartBalances, LengthFrom
  <2>3. QED
    BY <2>1, <2>2
<1>4. PICK ok : ok = IsValid(r.heap, blk, prev)
  OBVIOUS
<1>5. /\ q.heap = Put(r.heap, <<1, i>>, NewBlock(r.heap, blk, prev))
      /\ q.bmap = IF ok THEN Put(r.bmap, blk.hash, <<1, i>>) ELSE r.bmap
      /\ q.tip = IF ok THEN <<1, i>> ELSE r.tip
  BY <1>1, <1>2, <1>4, Zenon DEF ReadBlock
<1>6. ok
  <2>1. blk.hash \notin DOMAIN r.bmap
    <3>1. ASSUME NEW k \in 1 .. i - 1 PROVE s[k].hash # blk.hash
      BY DEF IsRow
    <3>2. QED
      BY <3>1 DEF Accepting
  <2> HIDE DEF q
  <2>2. QED
    BY <1>5, <2>1 DEF q
<1>7. Validate(blk, before).ok
  BY <1>3, <1>4, <1>6 DEF IsValid
<1>8. NewBlock(r.heap, blk, prev) =
          [blk |-> blk, prev |-> prev, length |-> i,
           balances |-> Validate(blk, before).balances]
  BY <1>3, Zenon DEF NewBlock
<1>9. IsMap(Validate(blk, before).balances)
  <2>1. IsBlock(blk) /\ SameMoney(before, before)
    BY DEF IsRow, SameMoney
  <2> HIDE DEF before, blk
  <2>2. QED
    BY <1>3, <1>7, <2>1, ValidateSame
<1>10. <<1, i>> \notin DOMAIN r.heap
  BY <1>0 DEF Accepting, Firsts
<1>11. /\ DOMAIN q.heap = DOMAIN r.heap \cup {<<1, i>>}
       /\ q.heap[<<1, i>>] = NewBlock(r.heap, blk, prev)
       /\ \A x \in DOMAIN r.heap : q.heap[x] = r.heap[x]
  <2> HIDE DEF q, blk
  <2>1. QED
    BY <1>5, <1>10, Zenon DEF Put
<1>12. /\ DOMAIN q.bmap = DOMAIN r.bmap \cup {blk.hash}
       /\ q.bmap[blk.hash] = <<1, i>>
       /\ \A h \in DOMAIN r.bmap : h # blk.hash => q.bmap[h] = r.bmap[h]
  <2> HIDE DEF q, blk
  <2>1. QED
    BY <1>5, <1>6 DEF Put
<1>13. q.tip = <<1, i>>
  BY <1>5, <1>6
<1> HIDE DEF q, blk, before
<1>14. Firsts(i) = Firsts(i - 1) \cup {<<1, i>>}
  <2>1. 1 .. i = 1 .. i - 1 \cup {i}
    BY <1>0
  <2>2. QED
    BY <2>1 DEF Firsts
<1>15. {s[k].hash : k \in 1 .. i} = {s[k].hash : k \in 1 .. i - 1} \cup {s[i].hash}
  <2>1. 1 .. i = 1 .. i - 1 \cup {i}
    BY <1>0
  <2>2. QED
    BY <2>1
<1>16. ASSUME NEW k \in 1 .. i - 1
       PROVE  /\ q.bmap[s[k].hash] = r.bmap[s[k].hash]
              /\ q.heap[<<1, k>>] = r.heap[<<1, k>>]
              /\ k # 1 => q.heap[<<1, k - 1>>] = r.heap[<<1, k - 1>>]
  <2>1. s[k].hash # s[i].hash
    BY DEF IsRow
  <2>2. s[k].hash \in DOMAIN r.bmap /\ <<1, k>> \in DOMAIN r.heap
        /\ (k # 1 => <<1, k - 1>> \in DOMAIN r.heap)
    BY DEF Accepting, Firsts
  <2>3. QED
    BY <1>11, <1>12, <2>1, <2>2 DEF blk
<1>17. i # 1 => q.heap[<<1, i - 1>>] = r.heap[<<1, i - 1>>]
  <2>1. i # 1 => <<1, i - 1>> \in DOMAIN r.heap
    BY <1>0 DEF Accepting, Firsts
  <2>2. QED
    BY <1>11, <2>1
<1>18. \A k \in 1 .. i : k \in 1 .. i - 1 \/ k = i
  BY <1>0
<1>19. ASSUME NEW k \in 1 .. i
       PROVE  /\ q.bmap[s[k].hash] = <<1, k>>
              /\ q.heap[<<1, k>>].blk = s[k]
              /\ q.heap[<<1, k>>].length = k
              /\ IsMap(q.heap[<<1, k>>].balances)
              /\ LET b == IF k = 1 THEN NoBalances ELSE q.heap[<<1, k - 1>>].balances
                 IN  /\ Validate(s[k], b).ok
                     /\ q.heap[<<1, k>>].balances = Validate(s[k], b).balances
  <2>1. CASE k \in 1 .. i - 1
    BY <1>16, <2>1 DEF Accepting
  <2>2. CASE k = i
    <3>1. before = IF i = 1 THEN NoBalances ELSE q.heap[<<1, i - 1>>].balances
      BY <1>17 DEF before
    <3>2. QED
      BY <1>7, <1>8, <1>9, <1>11, <1>12, <2>2, <3>1 DEF blk
  <2>3. QED
    BY <1>18, <2>1, <2>2
<1>20. /\ DOMAIN q.heap = Firsts(i)
       /\ DOMAIN q.bmap = {s[k].hash : k \in 1 .. i}
       /\ q.tip = IF i = 0 THEN NoBlock ELSE <<1, i>>
  <2>1. DOMAIN r.heap = Firsts(i - 1) /\ DOMAIN r.bmap = {s[k].hash : k \in 1 .. i - 1}
    BY DEF Accepting
  <2>2. DOMAIN q.heap = Firsts(i)
    BY <1>11, <1>14, <2>1
  <2>3. DOMAIN q.bmap = {s[k].hash : k \in 1 .. i}
    BY <1>12, <1>15, <2>1 DEF blk
  <2>4. QED
    BY <1>0, <1>13, <2>2, <2>3
<1>21. Accepting(q, i, s)
  BY <1>19, <1>20 DEF Accepting
<1>22. QED
  BY <1>21 DEF q, blk

\* A chain whose blocks are all accepted is read block after block.
LEMMA RowIsRead ==
    ASSUME NEW n \in Nat, NEW s, IsRow(s, n),
           \A i \in 1 .. n : s[i].hash \in DOMAIN ReadAll(s).bmap
    PROVE  Accepting(ReadAll(s), n, s)
<1>1. PICK r : IsReading(r, n, s)
  BY ReadAllSteps DEF IsRow
<1>2. ASSUME NEW i \in 1 .. n
      PROVE  /\ r[i] = ReadBlock(r[i - 1], s[i])
             /\ DOMAIN r[i].bmap \subseteq DOMAIN r[i - 1].bmap \cup {s[i].hash}
  <2>1. r[i] = ReadBlock(r[i - 1], s[i])
    BY <1>1 DEF IsReading
  <2>2. PICK q, b : q = r[i - 1] /\ b = s[i]
    OBVIOUS
  <2>3. \E id : ReadBlock(q, b).bmap = Put(q.bmap, b.hash, id) \/ ReadBlock(q, b).bmap = q.bmap
    BY DEF ReadBlock
  <2>4. DOMAIN ReadBlock(q, b).bmap \subseteq DOMAIN q.bmap \cup {b.hash}
    BY <2>3 DEF Put
  <2>5. QED
    BY <2>1, <2>2, <2>4
<1>3. ASSUME NEW i \in 1 .. n PROVE s[i].hash \in DOMAIN r[i].bmap
  <2> DEFINE T == {j \in 0 .. n : j >= i /\ s[i].hash \in DOMAIN r[j].bmap =>
                                     s[i].hash \in DOMAIN r[i].bmap}
  <2>1. 0 \in T
    OBVIOUS
  <2>2. ASSUME NEW j \in 0 .. n - 1, j \in T PROVE j + 1 \in T
    <3>1. j + 1 \in 1 .. n /\ (j + 1) - 1 = j /\ j + 1 \in 0 .. n
      OBVIOUS
    <3>2. DOMAIN r[j + 1].bmap \subseteq DOMAIN r[j].bmap \cup {s[j + 1].hash}
      BY <1>2, <3>1
    <3>3. CASE j + 1 = i
      BY <3>1, <3>3
    <3>4. CASE j + 1 # i
      <4>1. s[j + 1].hash # s[i].hash
        BY <3>1, <3>4 DEF IsRow
      <4>2. j + 1 >= i => j >= i
        BY <3>4
      <4>3. QED
        BY <2>2, <3>1, <3>2, <4>1, <4>2
    <3>5. QED
      BY <3>3, <3>4
  <2> HIDE DEF T
  <2>3. 0 .. n \subseteq T
    BY <2>1, <2>2, PrefixInduction
  <2>4. n \in 0 .. n /\ n >= i
    OBVIOUS
  <2>5. s[i].hash \in DOMAIN r[n].bmap
    BY <1>1 DEF IsReading
  <2>6. QED
    BY <2>3, <2>4, <2>5 DEF T
<1> DEFINE T == {i \in 0 .. n : Accepting(r[i], i, s)}
<1>4. 0 \in T
  <2>1. 1 .. 0 = {} /\ 0 \in 0 .. n
    OBVIOUS
  <2>2. r[0] = EmptyReader
    BY <1>1 DEF IsReading
  <2>3. DOMAIN r[0].heap = {} /\ DOMAIN r[0].bmap = {} /\ r[0].tip = NoBlock
    BY <2>2 DEF EmptyReader, NoMap
  <2>4. QED
    BY <2>1, <2>3 DEF Accepting, Firsts
<1>5. ASSUME NEW i \in 0 .. n - 1, i \in T PROVE i + 1 \in T
  <2>1. i + 1 \in 1 .. n /\ (i + 1) - 1 = i /\ i + 1 \in 0 .. n
    OBVIOUS
  <2>2. Accepting(r[i], (i + 1) - 1, s)
    BY <1>5, <2>1
  <2>3. r[i + 1] = ReadBlock(r[i], s[i + 1]) /\ s[i + 1].hash \in DOMAIN r[i + 1].bmap
    BY <1>2, <1>3, <2>1
  <2>4. Accepting(r[i + 1], i + 1, s)
    BY <2>1, <2>2, <2>3, ReadOnRow
  <2>5. QED
    BY <2>1, <2>4
<1> HIDE DEF T
<1>6. 0 .. n \subseteq T
  BY <1>4, <1>5, PrefixInduction
<1>7. n \in 0 .. n
  OBVIOUS
<1>8. QED
  BY <1>1, <1>6, <1>7 DEF T, IsReading

-----------------------------------------------------------------------------
(* The abstract specification's reader is the sequential one.               *)

\* The instance has its own copy of the reader: it computes the same.
LEMMA ReadingReadsAll == ASSUME NEW s PROVE Reading!ReadAll(s) = ReadAll(s)
  BY Zenon
  DEF Reading!ReadAll, Reading!FoldLeft, Reading!MapThenFoldSet, Reading!Max,
      Reading!EmptyReader, Reading!NoMap, Reading!NoBlock, Reading!ReadBlock,
      Reading!Predecessor, Reading!NewBlock, Reading!IsValid, Reading!Put,
      Reading!LengthFrom, Reading!StartBalances, Reading!Validate,
      Reading!NoBalances, Reading!ApplyTxn, Reading!TxnValidate,
      Reading!BalanceAvailable, Reading!UpdateBalances, Reading!Credit,
      Reading!Restrict, Reading!Cardinality,
      ReadAll, FoldLeft, MapThenFoldSet, Max, EmptyReader, NoMap, NoBlock,
      ReadBlock, Predecessor, NewBlock, IsValid, Put, LengthFrom,
      StartBalances, Validate, NoBalances, ApplyTxn, TxnValidate,
      BalanceAvailable, UpdateBalances, Credit, Restrict, Cardinality

\* The same of the concatenation.
LEMMA ReadingFlattens == ASSUME NEW s PROVE Reading!FlattenSeq(s) = FlattenSeq(s)
  BY Zenon DEF Reading!FlattenSeq, FlattenSeq

\* The same of operator== of two containers of balances.
LEMMA ReadingCompares ==
    ASSUME NEW m1, NEW m2
    PROVE  Reading!BalanceMapsEqual(m1, m2) = BalanceMapsEqual(m1, m2)
  BY ZenonT(60) DEF Reading!BalanceMapsEqual, Reading!IncludedIn, BalanceMapsEqual,
               IncludedIn

\* What WellIndexed asks of a file, said of its blocks in a row.
LEMMA WellIndexedRow ==
    ASSUME NEW f, NEW s,
           s = FlattenSeq([i \in DOMAIN f |-> f[i].blocks]),
           FlattenSeq([j \in DOMAIN s |->
                          IF s[j] = Truncated THEN <<>> ELSE <<s[j]>>]) = s
    PROVE  /\ Reading!WellIndexed(f) =>
              /\ \A i \in DOMAIN s :
                    /\ s[i].hash \in DOMAIN ReadAll(s).bmap
                    /\ s[i].prev = IF i = 1 THEN Zero ELSE s[i - 1].hash
              /\ \A i \in DOMAIN f :
                    BalanceMapsEqual(f[i].map,
                       ReadAll(s).heap[ReadAll(s).bmap[Last(f[i].blocks).hash]].balances)
           /\ Reading!Sequential(f) =
                 [status |-> "tip",
                  hash |-> ReadAll(s).heap[ReadAll(s).tip].blk.hash,
                  length |-> ReadAll(s).heap[ReadAll(s).tip].length]
<1>1. Reading!BlocksOf(f) = s
  BY ReadingFlattens, Zenon DEF Reading!BlocksOf
<1>2. PICK r : r = Reading!ReadAll(s) /\ r = ReadAll(s)
  BY ReadingReadsAll
<1>3. ASSUME Reading!WellIndexed(f)
      PROVE  /\ \A i \in DOMAIN s :
                    /\ s[i].hash \in DOMAIN r.bmap
                    /\ s[i].prev = IF i = 1 THEN Zero ELSE s[i - 1].hash
             /\ \A i \in DOMAIN f :
                    BalanceMapsEqual(f[i].map,
                       r.heap[r.bmap[Last(f[i].blocks).hash]].balances)
  <2>1. /\ \A i \in DOMAIN s :
                    /\ s[i].hash \in DOMAIN r.bmap
                    /\ s[i].prev = IF i = 1 THEN Zero ELSE s[i - 1].hash
        /\ \A i \in DOMAIN f :
                    Reading!BalanceMapsEqual(f[i].map,
                       r.heap[r.bmap[Reading!Last(f[i].blocks).hash]].balances)
    BY <1>1, <1>2, <1>3, Zenon DEF Reading!WellIndexed
  <2>2. \A q : Reading!Last(q) = Last(q)
    BY Zenon DEF Reading!Last, Last
  <2>3. QED
    BY <2>1, <2>2, ReadingCompares
<1>4. Reading!Sequential(f) =
                 [status |-> "tip", hash |-> r.heap[r.tip].blk.hash,
                  length |-> r.heap[r.tip].length]
  BY <1>1, <1>2, Zenon DEF Reading!Sequential, Reading!Report
<1>5. QED
  BY <1>2, <1>3, <1>4, Zenon

\* The files hold what a parser can make: containers of balances, blocks with
\* whole amounts, and no block whose hash is all zeroes.
FilesAreParsed ==
    \A f \in Files :
        /\ DOMAIN f = Chunks
        /\ \A c \in Chunks : IsMap(f[c].map)
        /\ \A blk \in BlocksIn(f) : IsBlock(blk) /\ blk.hash # Zero

\* The hash of the last block of a chunk.
LastHash(f, c) == f[c].blocks[Len(f[c].blocks)].hash

\* off[c] blocks are in the first c chunks, and bal[<<c, k>>] are the balances
\* after the k-th block of chunk c.
ChunkFollows(f, off, bal, c) ==
    /\ Len(f[c].blocks) \in Nat \ {0}
    /\ off[c] = off[c - 1] + Len(f[c].blocks)
    /\ c # 1 => bal[<<c, 0>>] = bal[<<c - 1, Len(f[c - 1].blocks)>>]
    /\ c = 1 => bal[<<c, 0>>] = NoBalances
    /\ \A k \in 0 .. Len(f[c].blocks) : IsMap(bal[<<c, k>>])
    /\ IsMap(f[c].map)
    /\ SameMoney(f[c].map, bal[<<c, Len(f[c].blocks)>>])

\* A block follows the one before it, which may be in the chunk before.
BlockFollows(f, bal, c, k) ==
    LET blk == f[c].blocks[k]
    IN  /\ blk # Truncated /\ IsBlock(blk) /\ blk.hash # Zero
        /\ k # 1 => blk.prev = f[c].blocks[k - 1].hash
        /\ k = 1 => blk.prev = IF c = 1 THEN Zero ELSE LastHash(f, c - 1)
        /\ Validate(blk, bal[<<c, k - 1>>]).ok
        /\ bal[<<c, k>>] = Validate(blk, bal[<<c, k - 1>>]).balances

\* The chunks hold one chain of valid blocks.
IsChain(f, off, bal) ==
    /\ off \in [0 .. NumChunks -> Nat]
    /\ off[0] = 0
    /\ \A c \in Chunks :
          /\ ChunkFollows(f, off, bal, c)
          /\ \A k \in 1 .. Len(f[c].blocks) : BlockFollows(f, bal, c, k)
    /\ \A c, d \in Chunks :
          \A k \in 1 .. Len(f[c].blocks), j \in 1 .. Len(f[d].blocks) :
              f[c].blocks[k].hash = f[d].blocks[j].hash => c = d /\ k = j

\* More blocks are in more chunks.
LEMMA OffGrows ==
    ASSUME NEW n \in Nat, NEW off \in [0 .. n -> Nat],
           \A c \in 1 .. n : off[c] > off[c - 1]
    PROVE  \A d \in 0 .. n : \A c \in 0 .. d : /\ off[c] <= off[d]
                                               /\ c # d => off[c] < off[d]
<1> DEFINE T == {d \in 0 .. n : \A c \in 0 .. d : /\ off[c] <= off[d]
                                                  /\ c # d => off[c] < off[d]}
<1>1. 0 \in T
  OBVIOUS
<1>2. ASSUME NEW d \in 0 .. n - 1, d \in T PROVE d + 1 \in T
  <2>1. d + 1 \in 1 .. n /\ (d + 1) - 1 = d /\ d \in 0 .. n /\ d + 1 \in 0 .. n
    OBVIOUS
  <2>2. off[d + 1] > off[d]
    BY <2>1
  <2>3. PICK a \in Nat, b \in Nat : a = off[d] /\ b = off[d + 1]
    BY <2>1
  <2>4. ASSUME NEW c \in 0 .. d + 1
        PROVE  off[c] <= off[d + 1] /\ (c # d + 1 => off[c] < off[d + 1])
    <3>1. c \in 0 .. n /\ off[c] \in Nat
      BY <2>1
    <3>2. c = d + 1 \/ c \in 0 .. d
      BY <2>1
    <3>3. c \in 0 .. d => off[c] <= off[d]
      BY <1>2
    <3>4. QED
      BY <2>2, <2>3, <3>1, <3>2, <3>3
  <2>5. QED
    BY <2>1, <2>4
<1> HIDE DEF T
<1>3. 0 .. n \subseteq T
  BY <1>1, <1>2, PrefixInduction
<1>4. QED
  BY <1>3 DEF T

\* A place in the row belongs to one chunk.
IsPlace(off, c, k, p) ==
    /\ k \in 1 .. off[c] - off[c - 1]
    /\ p = off[c - 1] + k

\* No two chunks share a place.
LEMMA PlaceIsOne ==
    ASSUME NEW n \in Nat, NEW off \in [0 .. n -> Nat],
           \A c \in 1 .. n : off[c] > off[c - 1],
           NEW c \in 1 .. n, NEW d \in 1 .. n, NEW k, NEW j, NEW p,
           IsPlace(off, c, k, p), IsPlace(off, d, j, p)
    PROVE  c = d /\ k = j
<1>0. /\ k \in 1 .. off[c] - off[c - 1] /\ j \in 1 .. off[d] - off[d - 1]
      /\ off[c - 1] + k = off[d - 1] + j
  BY DEF IsPlace
<1>1. ASSUME NEW a \in 1 .. n, NEW b \in 1 .. n, a < b PROVE off[a] <= off[b - 1]
  <2>1. b - 1 \in 0 .. n /\ a \in 0 .. b - 1
    BY <1>1
  <2>2. QED
    BY <2>1, OffGrows
<1>2. PICK c0 \in Nat, c1 \in Nat, d0 \in Nat, d1 \in Nat :
          c0 = off[c - 1] /\ c1 = off[c] /\ d0 = off[d - 1] /\ d1 = off[d]
  <2>1. c - 1 \in 0 .. n /\ c \in 0 .. n /\ d - 1 \in 0 .. n /\ d \in 0 .. n
    OBVIOUS
  <2>2. QED
    BY <2>1
<1>3. c0 + k = d0 + j /\ k \in 1 .. c1 - c0 /\ j \in 1 .. d1 - d0
  BY <1>0, <1>2
<1>4. c = d
  <2>1. c < d => c1 <= d0
    BY <1>1, <1>2
  <2>2. d < c => d1 <= c0
    BY <1>1, <1>2
  <2>3. ~(c1 <= d0) /\ ~(d1 <= c0)
    BY <1>3
  <2>4. QED
    BY <2>1, <2>2, <2>3
<1>5. c0 = d0
  BY <1>2, <1>4
<1>6. k = j
  BY <1>3, <1>5
<1>7. QED
  BY <1>4, <1>6

\* The hashes of a chain differ: they are younger and younger.
IsAgeing(n, s, age) ==
    /\ \A i \in 1 .. n : age[s[i].hash] \in Nat
    /\ \A i \in 1 .. n - 1 : age[s[i].hash] < age[s[i + 1].hash]

\* A later block has another hash.
LEMMA AgesGrow ==
    ASSUME NEW n \in Nat, NEW s, NEW age, IsAgeing(n, s, age)
    PROVE  \A i, j \in 1 .. n : s[i].hash = s[j].hash => i = j
<1> USE DEF IsAgeing
<1> DEFINE T == {d \in 0 .. n : \A j \in 1 .. d : \A i \in 1 .. j : i # j =>
                                   age[s[i].hash] < age[s[j].hash]}
<1>1. 0 \in T
  OBVIOUS
<1>2. ASSUME NEW d \in 0 .. n - 1, d \in T PROVE d + 1 \in T
  <2>1. d + 1 \in 1 .. n /\ d + 1 \in 0 .. n
    OBVIOUS
  <2>2. ASSUME NEW i \in 1 .. d PROVE age[s[i].hash] < age[s[d + 1].hash]
    <3>1. d \in 1 .. n - 1 /\ i \in 1 .. n /\ d \in 1 .. n
      OBVIOUS
    <3>2. age[s[d].hash] < age[s[d + 1].hash]
      BY <3>1
    <3>3. i # d => age[s[i].hash] < age[s[d].hash]
      BY <1>2, <3>1
    <3>4. PICK x \in Nat, y \in Nat, z \in Nat :
              x = age[s[i].hash] /\ y = age[s[d].hash] /\ z = age[s[d + 1].hash]
      BY <2>1, <3>1
    <3>5. QED
      BY <3>2, <3>3, <3>4
  <2>3. \A j \in 1 .. d + 1 : j \in 1 .. d \/ j = d + 1
    OBVIOUS
  <2>4. ASSUME NEW j \in 1 .. d + 1, NEW i \in 1 .. j, i # j
        PROVE  age[s[i].hash] < age[s[j].hash]
    <3>1. CASE j = d + 1
      <4>1. i \in 1 .. d
        BY <2>4, <3>1
      <4>2. QED
        BY <2>2, <3>1, <4>1
    <3>2. CASE j \in 1 .. d
      BY <1>2, <2>4, <3>2
    <3>3. QED
      BY <2>3, <3>1, <3>2
  <2>5. QED
    BY <2>1, <2>4
<1> HIDE DEF T
<1>3. 0 .. n \subseteq T
  BY <1>1, <1>2, PrefixInduction
<1>4. \A j \in 1 .. n : \A i \in 1 .. j : i # j => age[s[i].hash] < age[s[j].hash]
  <2>1. n \in 0 .. n
    OBVIOUS
  <2>2. QED
    BY <1>3, <2>1 DEF T
<1>5. ASSUME NEW i \in 1 .. n, NEW j \in 1 .. n, s[i].hash = s[j].hash, i # j
      PROVE  FALSE
  <2>1. age[s[i].hash] \in Nat
    OBVIOUS
  <2>2. i \in 1 .. j \/ j \in 1 .. i
    OBVIOUS
  <2>3. QED
    BY <1>4, <1>5, <2>1, <2>2
<1>6. QED
  BY <1>5
\* A file that is well indexed is such a chain, and the sequential reader
\* reports its last block.
LEMMA WellIndexedIsChain ==
    ASSUME HashesAreNew, FilesAreParsed, NumChunks # 0,
           NEW f \in Files, Reading!WellIndexed(f)
    PROVE  \E off, bal :
              /\ IsChain(f, off, bal)
              /\ Reading!Sequential(f) =
                    [status |-> "tip", hash |-> LastHash(f, NumChunks),
                     length |-> off[NumChunks]]
<1> DEFINE N == NumChunks
           S == UNION {Range(f[c].blocks) : c \in Chunks}
           seqs == [c \in 1 .. N |-> f[c].blocks]
           s == FlattenSeq([i \in DOMAIN f |-> f[i].blocks])
           n == Len(s)
<1>1. N \in Nat \ {0} /\ Chunks = 1 .. N /\ DOMAIN f = 1 .. N
  BY ChunkAssumption DEF FilesAreParsed, Chunks
<1>2. ASSUME NEW c \in 1 .. N
      PROVE  /\ seqs[c] = f[c].blocks /\ seqs[c] \in Seq(S) /\ Len(seqs[c]) \in Nat \ {0}
             /\ \A k \in 1 .. Len(seqs[c]) : f[c].blocks[k] # Truncated
  <2>1. f[c].blocks \in Seq(Range(f[c].blocks)) /\ Range(f[c].blocks) \subseteq S
    BY <1>1, FilesAssumption
  <2>2. f[c].blocks # <<>> /\ Truncated \notin Reading!ToSet(f[c].blocks)
    BY <1>1, Zenon DEF Reading!WellIndexed
  <2>3. \A k \in DOMAIN f[c].blocks : f[c].blocks[k] # Truncated
    BY <2>2 DEF Reading!ToSet
  <2>4. PICK q : q = f[c].blocks
    OBVIOUS
  <2> HIDE DEF S
  <2>5. q \in Seq(S)
    <3>1. \A A, B : A \subseteq B => Seq(A) \subseteq Seq(B)
      OBVIOUS
    <3>2. QED
      BY <2>1, <2>4, <3>1
  <2>6. Len(q) \in Nat /\ DOMAIN q = 1 .. Len(q) /\ (q # <<>> => Len(q) # 0)
    BY <2>5
  <2>7. QED
    BY <1>1, <2>2, <2>3, <2>4, <2>5, <2>6
<1>3. s = FlattenSeq(seqs)
  BY <1>1
<1>4. ASSUME NEW blk \in S PROVE blk \in BlocksIn(f) /\ blk # Truncated
  <2>1. PICK c \in Chunks : blk \in Range(f[c].blocks)
    OBVIOUS
  <2>2. PICK k \in DOMAIN f[c].blocks : blk = f[c].blocks[k]
    BY <2>1 DEF Range
  <2>3. PICK q : q = f[c].blocks
    OBVIOUS
  <2>4. q \in Seq(S) /\ k \in DOMAIN q
    BY <1>1, <1>2, <2>2, <2>3
  <2> HIDE DEF S, seqs
  <2>5. k \in 1 .. Len(q)
    BY <2>4
  <2>6. k \in 1 .. Len(f[c].blocks) /\ blk # Truncated
    BY <1>1, <1>2, <2>2, <2>3, <2>5
  <2>7. QED
    BY <2>2, <2>6 DEF BlocksIn, BlocksOfChunk
<1> HIDE DEF S
<1>5. seqs \in [1 .. N -> Seq(S)]
  BY <1>2
<1> HIDE DEF seqs, s
<1>6. s \in Seq(S) /\ \E off : IsJoined(off, N, seqs, s)
  <2>1. N \in Nat
    BY <1>1
  <2> HIDE DEF N
  <2>2. /\ FlattenSeq(seqs) \in Seq(S)
        /\ \E off : IsJoined(off, N, seqs, FlattenSeq(seqs))
    BY <1>5, <2>1, FlattenCut
  <2>3. QED
    BY <1>3, <2>2
<1>21. PICK off : IsJoined(off, N, seqs, s)
  BY <1>6
<1>7. /\ s \in Seq(S) /\ n = off[N] /\ n \in Nat /\ DOMAIN s = 1 .. n
      /\ \A c \in 1 .. N : \A k \in 1 .. Len(f[c].blocks) :
            off[c - 1] + k \in 1 .. n /\ s[off[c - 1] + k] = f[c].blocks[k]
  <2>1. s \in Seq(S) /\ n = off[N]
    BY <1>6, <1>21 DEF IsJoined
  <2>2. n \in Nat /\ DOMAIN s = 1 .. n
    BY <2>1
  <2>3. QED
    BY <1>2, <1>21, <2>1, <2>2 DEF IsJoined
<1>8. /\ off \in [0 .. N -> Nat] /\ off[0] = 0
      /\ \A c \in 1 .. N : off[c] = off[c - 1] + Len(f[c].blocks)
  BY <1>2, <1>21 DEF IsJoined, IsCut
<1> HIDE DEF n
<1>9. ASSUME NEW i \in 1 .. n
      PROVE  /\ s[i] \in BlocksIn(f) /\ s[i] # Truncated
             /\ IsBlock(s[i]) /\ s[i].hash # Zero /\ s[i].hash \in HashesIn(f)
  <2>1. s[i] \in S
    BY <1>7
  <2>2. s[i] \in BlocksIn(f) /\ s[i] # Truncated
    BY <1>4, <2>1, Zenon
  <2>3. QED
    BY <2>2 DEF FilesAreParsed, HashesIn
<1> DEFINE R == ReadAll(s)
<1>10. /\ \A i \in DOMAIN s :
             /\ s[i].hash \in DOMAIN R.bmap
             /\ s[i].prev = IF i = 1 THEN Zero ELSE s[i - 1].hash
       /\ \A c \in DOMAIN f :
             BalanceMapsEqual(f[c].map, R.heap[R.bmap[Last(f[c].blocks).hash]].balances)
       /\ Reading!Sequential(f) =
             [status |-> "tip", hash |-> R.heap[R.tip].blk.hash,
              length |-> R.heap[R.tip].length]
  <2>1. \A j \in DOMAIN s : s[j] # Truncated
    BY <1>7, <1>9
  <2>2. FlattenSeq(KeptOf(s, Truncated)) = s
    BY <1>7, <2>1, AllKept
  <2>3. FlattenSeq([j \in DOMAIN s |-> IF s[j] = Truncated THEN <<>> ELSE <<s[j]>>]) = s
    BY <2>2, Zenon DEF KeptOf
  <2>4. s = FlattenSeq([i \in DOMAIN f |-> f[i].blocks])
    BY DEF s
  <2>5. QED
    BY <2>3, <2>4, WellIndexedRow
<1>11. IsRow(s, n)
  <2>1. PICK age \in [HashesIn(f) -> Nat] :
            \A blk \in BlocksIn(f) : blk.prev # Zero => age[blk.prev] < age[blk.hash]
    BY DEF HashesAreNew
  <2>2. ASSUME NEW i \in 1 .. n - 1 PROVE age[s[i].hash] < age[s[i + 1].hash]
    <3>1. i \in 1 .. n /\ i + 1 \in 1 .. n /\ i + 1 # 1 /\ (i + 1) - 1 = i
      BY <1>7
    <3>2. s[i + 1].prev = s[i].hash /\ s[i].hash # Zero
      BY <1>7, <1>9, <1>10, <3>1
    <3>3. QED
      BY <1>9, <2>1, <3>1, <3>2
  <2>3. n \in Nat /\ \A i \in 1 .. n : age[s[i].hash] \in Nat
    BY <1>7, <1>9
  <2>4. IsAgeing(n, s, age)
    BY <2>2, <2>3 DEF IsAgeing
  <2>5. \A i, j \in 1 .. n : s[i].hash = s[j].hash => i = j
    BY <2>3, <2>4, AgesGrow
  <2>6. QED
    BY <1>7, <1>9, <1>10, <2>5 DEF IsRow
<1>12. Accepting(R, n, s)
  BY <1>7, <1>10, <1>11, RowIsRead
<1> DEFINE At(i) == IF i = 0 THEN NoBalances ELSE R.heap[<<1, i>>].balances
           bal == [x \in Chunks \X Nat |-> At(off[x[1] - 1] + x[2])]
<1>13. ASSUME NEW i \in 1 .. n
       PROVE  /\ Validate(s[i], At(i - 1)).ok
              /\ At(i) = Validate(s[i], At(i - 1)).balances
              /\ IsMap(At(i))
  <2>1. i # 0 /\ (i = 1 <=> i - 1 = 0)
    OBVIOUS
  <2>2. At(i - 1) = IF i = 1 THEN NoBalances ELSE R.heap[<<1, i - 1>>].balances
    BY <2>1
  <2> HIDE DEF R
  <2>3. QED
    BY <1>12, <2>1, <2>2 DEF Accepting
<1>14. IsMap(At(0))
  BY NoMoneyIsMap
<1> HIDE DEF At
<1>15. ASSUME NEW c \in 1 .. N
       PROVE  /\ c - 1 \in 0 .. N /\ c \in 0 .. N /\ c \in Chunks
              /\ off[c - 1] \in Nat /\ off[c] \in Nat /\ Len(f[c].blocks) \in Nat \ {0}
              /\ off[c] = off[c - 1] + Len(f[c].blocks)
              /\ off[c] > off[c - 1]
              /\ off[c] - off[c - 1] = Len(f[c].blocks)
              /\ \A k \in Nat : bal[<<c, k>>] = At(off[c - 1] + k)
  <2>1. c - 1 \in 0 .. N /\ c \in 0 .. N /\ c \in Chunks
    BY <1>1
  <2>2. /\ off[c - 1] \in Nat /\ off[c] \in Nat /\ Len(f[c].blocks) \in Nat \ {0}
        /\ off[c] = off[c - 1] + Len(f[c].blocks)
    BY <1>2, <1>8, <2>1
  <2>3. off[c] > off[c - 1] /\ off[c] - off[c - 1] = Len(f[c].blocks)
    BY <2>2
  <2>4. QED
    BY <2>1, <2>2, <2>3
<1> HIDE DEF bal
<1>16. ASSUME NEW c \in 1 .. N, NEW k \in 1 .. Len(f[c].blocks)
       PROVE  BlockFollows(f, bal, c, k)
  <2>1. PICK i \in 1 .. n : i = off[c - 1] + k /\ s[i] = f[c].blocks[k]
    BY <1>7
  <2>2. i - 1 = off[c - 1] + (k - 1) /\ k \in Nat /\ k - 1 \in Nat
    BY <1>15, <2>1
  <2>3. bal[<<c, k>>] = At(i) /\ bal[<<c, k - 1>>] = At(i - 1)
    BY <1>15, <2>1, <2>2, SMTT(30)
  <2>4. s[i].prev = IF i = 1 THEN Zero ELSE s[i - 1].hash
    BY <1>7, <1>10
  <2>5. ASSUME k # 1 PROVE s[i].prev = f[c].blocks[k - 1].hash
    <3>1. k - 1 \in 1 .. Len(f[c].blocks) /\ i # 1
      BY <1>15, <2>1, <2>2, <2>5
    <3>2. s[i - 1] = f[c].blocks[k - 1]
      BY <1>7, <2>2, <3>1
    <3>3. QED
      BY <2>4, <3>1, <3>2
  <2>6. ASSUME k = 1 PROVE s[i].prev = IF c = 1 THEN Zero ELSE LastHash(f, c - 1)
    <3>1. CASE c = 1
      BY <1>8, <2>1, <2>4, <2>6, <3>1
    <3>2. CASE c # 1
      <4>1. PICK e \in 1 .. N : e = c - 1
        BY <1>1, <3>2
      <4>2. PICK m \in Nat \ {0}, a \in Nat, b \in Nat :
                m = Len(f[e].blocks) /\ a = off[e] /\ b = off[e - 1] /\ a = b + m
        BY <1>15
      <4>3. i = a + 1
        BY <2>1, <2>6, <4>1, <4>2
      <4>4. m \in 1 .. m /\ i - 1 = b + m /\ i # 1
        BY <4>2, <4>3, SMTT(30)
      <4>5. s[b + m] = f[e].blocks[m]
        BY <1>7, <4>2, <4>4
      <4>6. QED
        BY <2>4, <3>2, <4>1, <4>2, <4>4, <4>5 DEF LastHash
    <3>3. QED
      BY <3>1, <3>2
  <2>7. QED
    BY <1>9, <1>13, <2>1, <2>3, <2>5, <2>6 DEF BlockFollows
<1>17. ASSUME NEW c \in 1 .. N PROVE ChunkFollows(f, off, bal, c)
  <2>1. PICK m \in Nat \ {0}, a \in Nat, b \in Nat :
            m = Len(f[c].blocks) /\ a = off[c - 1] /\ b = off[c] /\ b = a + m
    BY <1>15
  <2>2. bal[<<c, 0>>] = At(a) /\ bal[<<c, m>>] = At(b)
    <3>1. a + 0 = a /\ a + m = b /\ 0 \in Nat /\ m \in Nat
      BY <2>1
    <3>2. \A k \in Nat : bal[<<c, k>>] = At(a + k)
      BY <1>15, <2>1
    <3>3. bal[<<c, 0>>] = At(a + 0) /\ bal[<<c, m>>] = At(a + m)
      BY <3>1, <3>2
    <3>4. QED
      BY <3>1, <3>3
  <2>3. ASSUME c # 1 PROVE bal[<<c, 0>>] = bal[<<c - 1, Len(f[c - 1].blocks)>>]
    <3>1. c - 1 \in 1 .. N
      BY <1>1, <2>3
    <3>2. bal[<<c - 1, Len(f[c - 1].blocks)>>] = At(off[c - 1])
      BY <1>15, <3>1
    <3>3. QED
      BY <2>1, <2>2, <3>2
  <2>4. ASSUME c = 1 PROVE bal[<<c, 0>>] = NoBalances
    BY <1>8, <2>1, <2>2, <2>4 DEF At
  <2>5. b \in 1 .. n /\ s[b] = f[c].blocks[m]
    <3>1. m \in 1 .. Len(f[c].blocks)
      BY <2>1
    <3>2. off[c - 1] + m \in 1 .. n /\ s[off[c - 1] + m] = f[c].blocks[m]
      BY <1>7, <3>1
    <3>3. off[c - 1] + m = b
      BY <2>1
    <3>4. QED
      BY <3>2, <3>3
  <2>6. ASSUME NEW k \in 0 .. m PROVE IsMap(bal[<<c, k>>])
    <3>1. k \in Nat
      BY <2>1
    <3>2. PICK i \in Nat : i = a + k
      BY <2>1, <3>1
    <3>3. n \in Nat
      BY <1>7
    <3>4. b <= n /\ i <= b
      BY <2>1, <2>5, <3>2, <3>3, SMTT(30)
    <3>5. i = 0 \/ i \in 1 .. n
      BY <2>1, <3>3, <3>4
    <3>6. bal[<<c, k>>] = At(i)
      <4>1. \A l \in Nat : bal[<<c, l>>] = At(a + l)
        BY <1>15, <2>1
      <4>2. QED
        BY <3>1, <3>2, <4>1
    <3>7. IsMap(At(i))
      <4>1. \A l \in 1 .. n : IsMap(At(l))
        BY <1>13
      <4>2. QED
        BY <1>14, <3>5, <4>1
    <3>8. QED
      BY <3>6, <3>7
  <2>7. IsMap(f[c].map)
    BY <1>1 DEF FilesAreParsed
  <2>8. SameMoney(f[c].map, bal[<<c, m>>])
    <3>1. Last(f[c].blocks) = s[b]
      BY <2>1, <2>5 DEF Last
    <3>2. R.bmap[s[b].hash] = <<1, b>> /\ R.heap[<<1, b>>].balances = At(b)
      <4>1. b # 0
        BY <2>5
      <4> HIDE DEF R
      <4>2. QED
        BY <1>12, <2>5, <4>1 DEF Accepting, At
    <3>3. BalanceMapsEqual(f[c].map, At(b))
      BY <1>1, <1>10, <3>1, <3>2
    <3>4. QED
      BY <1>13, <2>2, <2>5, <2>7, <3>3, EqualMaps
  <2>9. QED
    BY <2>1, <2>2, <2>3, <2>4, <2>6, <2>7, <2>8 DEF ChunkFollows
<1>18. ASSUME NEW c \in 1 .. N, NEW d \in 1 .. N,
              NEW k \in 1 .. Len(f[c].blocks), NEW j \in 1 .. Len(f[d].blocks),
              f[c].blocks[k].hash = f[d].blocks[j].hash
       PROVE  c = d /\ k = j
  <2>1. PICK p \in 1 .. n, q \in 1 .. n :
            /\ p = off[c - 1] + k /\ s[p] = f[c].blocks[k]
            /\ q = off[d - 1] + j /\ s[q] = f[d].blocks[j]
    BY <1>7
  <2>4. s[p].hash = s[q].hash
    BY <1>18, <2>1
  <2>5. p = q
    <3>1. \A i, l \in 1 .. n : s[i].hash = s[l].hash => i = l
      BY <1>11 DEF IsRow
    <3>2. QED
      BY <2>4, <3>1
  <2>2. off[c] - off[c - 1] = Len(f[c].blocks) /\ off[d] - off[d - 1] = Len(f[d].blocks)
    BY <1>15
  <2>3. N \in Nat
    BY <1>1
  <2> HIDE DEF N
  <2>7. QED
    <3>1. off \in [0 .. N -> Nat] /\ \A e \in 1 .. N : off[e] > off[e - 1]
      BY <1>8, <1>15
    <3>2. IsPlace(off, c, k, p) /\ IsPlace(off, d, j, p)
      BY <2>1, <2>2, <2>5 DEF IsPlace
    <3>3. QED
      BY <2>3, <3>1, <3>2, PlaceIsOne
<1>19. IsChain(f, off, bal)
  BY <1>1, <1>8, <1>16, <1>17, <1>18 DEF IsChain
<1>20. Reading!Sequential(f) =
          [status |-> "tip", hash |-> LastHash(f, N), length |-> off[N]]
  <2>1. N \in 1 .. N /\ n \in 1 .. n /\ n # 0 /\ n = off[N]
        /\ s[n] = f[N].blocks[Len(f[N].blocks)]
    <3>1. N \in 1 .. N
      BY <1>1
    <3>2. PICK m \in Nat \ {0}, a \in Nat :
              m = Len(f[N].blocks) /\ a = off[N - 1] /\ n = a + m
      BY <1>7, <1>15, <3>1
    <3>3. m \in 1 .. m /\ n = off[N]
      BY <1>7
    <3>4. n \in 1 .. n /\ n # 0
      BY <1>7, <3>2
    <3>5. s[a + m] = f[N].blocks[m]
      BY <1>7, <3>1, <3>2, <3>3
    <3>6. QED
      BY <3>1, <3>2, <3>3, <3>4, <3>5
  <2>2. R.tip = <<1, n>> /\ R.heap[<<1, n>>].blk = s[n] /\ R.heap[<<1, n>>].length = n
    <3> HIDE DEF R
    <3>1. QED
      BY <1>12, <2>1 DEF Accepting
  <2>3. QED
    BY <1>10, <2>1, <2>2 DEF LastHash
<1>22. QED
  BY <1>19, <1>20

-----------------------------------------------------------------------------
(* A well-indexed file.                                                     *)

\* The sequential reader accepts the file as one chain.
IsRight(f, off, bal) ==
    /\ f \in Files
    /\ IsChain(f, off, bal)
    /\ Reading!Sequential(f) =
          [status |-> "tip", hash |-> LastHash(f, NumChunks),
           length |-> off[NumChunks]]

\* The object of the last block of a chunk.
LastOf(f, c) == <<c, Len(f[c].blocks)>>

\* A thread accepts every block it reads, after the one before it, with the
\* money that the sequential reader finds.  The balances matter until main
\* links: the report does not show them.
ObjectRight(bal, c, k) ==
    /\ <<c, k>> \in DOMAIN heap
    /\ file[c].blocks[k].hash \in DOMAIN bmap[c]
    /\ bmap[c][file[c].blocks[k].hash] = <<c, k>>
    /\ k # 1 => heap[<<c, k>>].prev = <<c, k - 1>>
    /\ (c = 1 /\ k = 1) => heap[<<c, k>>].prev = NoBlock
    /\ Unmerged => /\ IsMap(heap[<<c, k>>].balances)
                   /\ SameMoney(heap[<<c, k>>].balances, bal[<<c, k>>])

\* A thread passes every block of its chunk, and does not stop before the end.
ThreadRight(bal, c) ==
    /\ tip[c] = IF pos[c] = 1 THEN NoBlock ELSE <<c, pos[c] - 1>>
    /\ \A k \in 1 .. pos[c] - 1 : ObjectRight(bal, c, k)
    /\ (pc[c] \in {"lockTail", "insertTail"} \/ Through(c)) =>
          pos[c] = Len(file[c].blocks) + 1

\* tails holds the last blocks of chunks, under their hashes.
TailsRight ==
    \A h \in DOMAIN tails : \E d \in Chunks :
        /\ h = LastHash(file, d)
        /\ tails[h] = LastOf(file, d)

\* When main starts to link, nothing is missing.
MergeComplete(c) ==
    /\ LastHash(file, c) \in DOMAIN tails
    /\ pos[c] = Len(file[c].blocks) + 1
    /\ c # 1 => <<c, 1>> \in heads

\* main looks for the longest chain.
BestRight(off) ==
    /\ best.id = NoBlock => best.length = 0
    /\ best.id # NoBlock =>
          \E c \in Chunks : best.id = LastOf(file, c) /\ best.length = off[c]
    /\ \A c \in Chunks : LastHash(file, c) \in scanned => off[c] <= best.length

\* All together: the threads find what the sequential reader finds.
Right(off, bal) ==
    /\ IsRight(file, off, bal)
    /\ mainPc # "aborted" /\ valid
    /\ \A c \in Chunks : ThreadRight(bal, c)
    /\ TailsRight
    /\ mainPc \in {"link", "scan", "done"} => \A c \in Chunks : MergeComplete(c)
    /\ BestRight(off)

\* The same for a file that is well-indexed.
FileRight == Reading!WellIndexed(file) /\ \E off, bal : Right(off, bal)

(* End of the invariant. *)
-----------------------------------------------------------------------------

\* The numbers of a chain.
LEMMA ChainCounts ==
    ASSUME NEW f, NEW off, NEW bal, IsRight(f, off, bal), NEW c \in Chunks
    PROVE  /\ Len(f[c].blocks) \in Nat \ {0}
           /\ off[c] \in Nat /\ off[c - 1] \in Nat
           /\ off[c] = off[c - 1] + Len(f[c].blocks)
           /\ c # 1 => c - 1 \in Chunks
<1>1. NumChunks \in Nat /\ c \in 1 .. NumChunks
  BY ChunkAssumption DEF Chunks
<1>2. off \in [0 .. NumChunks -> Nat] /\ ChunkFollows(f, off, bal, c)
  BY DEF IsRight, IsChain
<1>3. c \in 0 .. NumChunks /\ c - 1 \in 0 .. NumChunks /\ (c # 1 => c - 1 \in 1 .. NumChunks)
  BY <1>1
<1>4. QED
  BY <1>2, <1>3 DEF ChunkFollows, Chunks

\* What the sequential reader finds out about a block of the chain.
LEMMA ChainBlock ==
    ASSUME NEW f, NEW off, NEW bal, IsRight(f, off, bal), NEW c \in Chunks,
           NEW k \in 1 .. Len(f[c].blocks)
    PROVE  /\ BlockFollows(f, bal, c, k)
           /\ IsMap(bal[<<c, k>>]) /\ IsMap(bal[<<c, k - 1>>])
<1>1. ChunkFollows(f, off, bal, c) /\ BlockFollows(f, bal, c, k)
  BY DEF IsRight, IsChain
<1>2. PICK m \in Nat : m = Len(f[c].blocks)
  BY ChainCounts
<1>3. k \in 0 .. m /\ k - 1 \in 0 .. m
  BY <1>2
<1>4. \A j \in 0 .. m : IsMap(bal[<<c, j>>])
  BY <1>1, <1>2 DEF ChunkFollows
<1>5. QED
  BY <1>1, <1>3, <1>4

\* A thread starts its block from an object with the money that the chain has
\* before the block.
LEMMA ParseStarts ==
    ASSUME IInv, NEW off, NEW bal, IsRight(file, off, bal), NEW c \in Chunks,
           ThreadRight(bal, c), Unmerged, HasBlock(c)
    PROVE  /\ pos[c] \in 1 .. Len(file[c].blocks)
           /\ ~CoinbaseAsserts(c)
           /\ PrevFor(c) = IF pos[c] # 1 THEN <<c, pos[c] - 1>>
                           ELSE IF c = 1 THEN NoBlock ELSE <<c, 0>>
           /\ IsMap(StartBalances(HeapFor(c), PrevFor(c)))
           /\ SameMoney(StartBalances(HeapFor(c), PrevFor(c)), bal[<<c, pos[c] - 1>>])
<1>1. PICK n \in Nat : n = Len(file[c].blocks)
  BY ChainCounts
<1>2. PICK k \in 1 .. n : k = pos[c]
  <2>1. pos[c] \in 1 .. n + 1 /\ pos[c] <= n
    BY <1>1 DEF IInv, ThreadTypes, HasBlock
  <2>2. QED
    BY <2>1
<1>3. BlockAt(c) = file[c].blocks[k]
  BY <1>2 DEF BlockAt
<1>4. BlockFollows(file, bal, c, k)
  BY <1>1, ChainBlock
<1>5. CASE k # 1
  <2>1. k - 1 \in 1 .. n /\ k - 1 \in 1 .. k - 1
    BY <1>5
  <2>2. PICK x : x = file[c].blocks[k - 1].hash
    OBVIOUS
  <2>3. BlockAt(c).prev = x
    BY <1>3, <1>4, <1>5, <2>2 DEF BlockFollows
  <2>4. x # Zero
    <3>1. BlockFollows(file, bal, c, k - 1)
      BY <1>1, <2>1, ChainBlock
    <3>2. QED
      BY <2>2, <3>1 DEF BlockFollows
  <2>5. ObjectRight(bal, c, k - 1)
    BY <1>2, <2>1 DEF ThreadRight
  <2>6. x \in DOMAIN bmap[c] /\ bmap[c][x] = <<c, k - 1>>
    BY <2>2, <2>5 DEF ObjectRight
  <2>7. ~UsesDummy(c)
    BY <1>2, <1>5 DEF UsesDummy
  <2>8. PrevFor(c) = <<c, k - 1>>
    BY <2>3, <2>4, <2>6, <2>7 DEF PrevFor, Predecessor
  <2>9. StartBalances(HeapFor(c), PrevFor(c)) = heap[<<c, k - 1>>].balances
    BY <2>7, <2>8, SMTT(30) DEF StartBalances, HeapFor, NoBlock, Chunks
  <2>10. /\ IsMap(heap[<<c, k - 1>>].balances)
         /\ SameMoney(heap[<<c, k - 1>>].balances, bal[<<c, k - 1>>])
    BY <2>5 DEF ObjectRight
  <2>11. QED
    BY <1>1, <1>2, <1>5, <2>7, <2>8, <2>9, <2>10 DEF CoinbaseAsserts
<1>6. CASE k = 1 /\ c = 1
  <2>1. ~UsesDummy(c)
    BY <1>6 DEF UsesDummy
  <2>2. BlockAt(c).prev = Zero
    BY <1>3, <1>4, <1>6 DEF BlockFollows
  <2>3. PrevFor(c) = NoBlock
    BY <2>1, <2>2 DEF PrevFor, Predecessor
  <2>4. StartBalances(HeapFor(c), PrevFor(c)) = NoBalances
    BY <2>3 DEF StartBalances
  <2>5. bal[<<c, 0>>] = NoBalances
    BY <1>6 DEF IsRight, IsChain, ChunkFollows
  <2>6. SameMoney(NoBalances, bal[<<c, 0>>])
    BY <2>5 DEF SameMoney
  <2>7. k - 1 = 0
    BY <1>6
  <2>8. QED
    BY <1>1, <1>2, <1>6, <2>1, <2>3, <2>4, <2>6, <2>7, NoMoneyIsMap DEF CoinbaseAsserts
<1>7. CASE k = 1 /\ c # 1
  <2>1. PICK d \in Chunks : d = c - 1
    BY <1>7, ChainCounts
  <2>2. PICK m \in Nat \ {0} : m = Len(file[d].blocks)
    BY ChainCounts
  <2>3. UsesDummy(c)
    BY <1>2, <1>7 DEF UsesDummy, Chunks
  <2>4. BlockAt(c).prev # Zero
    <3>1. BlockAt(c).prev = file[d].blocks[m].hash
      BY <1>3, <1>4, <1>7, <2>1, <2>2 DEF BlockFollows, LastHash
    <3>2. m \in 1 .. Len(file[d].blocks)
      BY <2>2
    <3>3. BlockFollows(file, bal, d, m)
      BY <3>2, ChainBlock
    <3>4. QED
      BY <3>1, <3>3 DEF BlockFollows
  <2>5. PrevFor(c) = <<c, 0>>
    BY <2>3 DEF PrevFor
  <2>6. StartBalances(HeapFor(c), PrevFor(c)) = file[d].map
    <3>1. HeapFor(c)[<<c, 0>>] = Dummy(c)
      BY <2>3 DEF HeapFor, Put
    <3>2. <<c, 0>> # NoBlock
      BY DEF NoBlock, Chunks
    <3>3. QED
      BY <2>1, <2>5, <3>1, <3>2 DEF StartBalances, Dummy
  <2>7. /\ bal[<<c, 0>>] = bal[<<d, m>>]
        /\ IsMap(file[d].map) /\ SameMoney(file[d].map, bal[<<d, m>>])
    <3>1. ChunkFollows(file, off, bal, c) /\ ChunkFollows(file, off, bal, d)
      BY DEF IsRight, IsChain
    <3>2. QED
      BY <1>7, <2>1, <2>2, <3>1 DEF ChunkFollows
  <2>8. k - 1 = 0
    BY <1>7
  <2>9. QED
    BY <1>1, <1>2, <1>7, <2>4, <2>5, <2>6, <2>7, <2>8 DEF CoinbaseAsserts
<1>8. QED
  BY <1>5, <1>6, <1>7

\* The block is valid, and so is the money after it.
LEMMA ParseAccepts ==
    ASSUME IInv, NEW off, NEW bal, IsRight(file, off, bal), NEW c \in Chunks,
           ThreadRight(bal, c), Unmerged, HasBlock(c)
    PROVE  LET b == StartBalances(HeapFor(c), PrevFor(c))
           IN  /\ Validate(BlockAt(c), b).ok
               /\ IsMap(Validate(BlockAt(c), b).balances)
               /\ SameMoney(Validate(BlockAt(c), b).balances, bal[<<c, pos[c]>>])
<1>1. PICK b, k, blk : /\ b = StartBalances(HeapFor(c), PrevFor(c))
                       /\ k = pos[c] /\ blk = BlockAt(c)
  OBVIOUS
<1>2. /\ k \in 1 .. Len(file[c].blocks)
      /\ IsMap(b) /\ SameMoney(b, bal[<<c, k - 1>>])
  BY <1>1, ParseStarts
<1>3. blk = file[c].blocks[k]
  BY <1>1 DEF BlockAt
<1>4. /\ IsBlock(blk) /\ Validate(blk, bal[<<c, k - 1>>]).ok
      /\ bal[<<c, k>>] = Validate(blk, bal[<<c, k - 1>>]).balances
      /\ IsMap(bal[<<c, k - 1>>])
  BY <1>2, <1>3, ChainBlock DEF BlockFollows
<1>5. /\ Validate(blk, b).ok
      /\ SameMoney(Validate(blk, b).balances, bal[<<c, k>>])
      /\ IsMap(Validate(blk, b).balances)
  BY <1>2, <1>4, ValidateSame
<1>6. QED
  BY <1>1, <1>5

\* The blocks of a chain that a thread has passed are in its objects.
LEMMA ObjectIsBlock ==
    ASSUME IInv, ObjectsRead, NEW c \in Chunks, NEW k \in Nat \ {0},
           <<c, k>> \in DOMAIN heap
    PROVE  heap[<<c, k>>].blk = file[c].blocks[k]
<1>1. PICK x : x = <<c, k>>
  OBVIOUS
<1>2. PICK d \in Chunks :
          \/ x = <<d, 0>> /\ pos[d] > 1 /\ heap[x].prev = NoBlock
          \/ \E n \in 1 .. pos[d] - 1 : /\ x = <<d, n>>
                                       /\ file[d].blocks[n] # Truncated
                                       /\ heap[x].blk = file[d].blocks[n]
  BY <1>1 DEF ObjectsRead
<1>3. x # <<d, 0>>
  BY <1>1
<1>4. PICK n \in 1 .. pos[d] - 1 : x = <<d, n>> /\ heap[x].blk = file[d].blocks[n]
  BY <1>2, <1>3
<1>5. c = d /\ k = n
  BY <1>1, <1>4
<1>6. QED
  BY <1>1, <1>4, <1>5

\* The first block of the chain is no head.
LEMMA FirstIsNoHead ==
    ASSUME ChainInv, NEW off, NEW bal, IsRight(file, off, bal), <<1, 1>> \in heads
    PROVE  FALSE
<1>1. 1 \in Chunks
  BY DEF ChainInv, HeadsAreFirst
<1>2. <<1, 1>> \in DOMAIN heap /\ heap[<<1, 1>>].blk.prev # Zero
  BY <1>1 DEF ChainInv, IInv, ContainersHoldObjects, HeadsAreFirst, Settled
<1>3. heap[<<1, 1>>].blk = file[1].blocks[1]
  BY <1>1, <1>2, ObjectIsBlock DEF ChainInv
<1>4. 1 \in 1 .. Len(file[1].blocks)
  <2>1. Len(file[1].blocks) \in Nat \ {0}
    BY <1>1, ChainCounts
  <2>2. QED
    BY <2>1
<1>5. BlockFollows(file, bal, 1, 1)
  BY <1>1, <1>4, ChainBlock
<1>6. QED
  BY <1>2, <1>3, <1>5 DEF BlockFollows

\* What the turn of the loop leaves behind, in a chain.
LEMMA ParseRight ==
    ASSUME ChainInv, NEW off, NEW bal, IsRight(file, off, bal), NEW c \in Chunks,
           ThreadRight(bal, c), Unmerged, ParseBlock(c)
    PROVE  LET id == <<c, pos[c]>>
           IN  /\ tip'[c] = id
               /\ bmap'[c] = Put(bmap[c], BlockAt(c).hash, id)
               /\ heap'[id].prev = PrevFor(c)
               /\ IsMap(heap'[id].balances)
               /\ SameMoney(heap'[id].balances, bal[id])
<1> DEFINE id == <<c, pos[c]>>
           h  == HeapFor(c)
           b  == StartBalances(h, PrevFor(c))
<1>1. HasBlock(c) /\ ThreadTypes
  BY DEF ParseBlock, ChainInv, IInv
<1>2. /\ Validate(BlockAt(c), b).ok
      /\ IsMap(Validate(BlockAt(c), b).balances)
      /\ SameMoney(Validate(BlockAt(c), b).balances, bal[<<c, pos[c]>>])
  BY <1>1, ParseAccepts DEF ChainInv
<1>3. IsValid(h, BlockAt(c), PrevFor(c))
  BY <1>2 DEF IsValid
<1>4. /\ heap' = Put(h, id, NewBlock(h, BlockAt(c), PrevFor(c)))
      /\ bmap' = [bmap EXCEPT ![c] = Put(@, BlockAt(c).hash, id)]
      /\ tip' = [tip EXCEPT ![c] = id]
  BY <1>3 DEF ParseBlock
<1>5. tip'[c] = id /\ bmap'[c] = Put(bmap[c], BlockAt(c).hash, id)
  BY <1>1, <1>4 DEF ThreadTypes
<1>6. heap'[id] = NewBlock(h, BlockAt(c), PrevFor(c))
  BY <1>4 DEF Put
<1>7. heap'[id].prev = PrevFor(c) /\ heap'[id].balances = Validate(BlockAt(c), b).balances
  BY <1>6 DEF NewBlock
<1>8. QED
  BY <1>2, <1>5, <1>7

\* A thread that reads one more block is right about it.
LEMMA ThreadRightParse ==
    ASSUME ChainInv, [Next]_vars,
           NEW off, NEW bal, IsRight(file, off, bal), NEW c \in Chunks,
           ThreadRight(bal, c), ParseBlock(c)
    PROVE  ThreadRight(bal, c)'
<1>1. Unmerged /\ file' = file /\ IInv /\ ObjectsRead
  BY ThreadIsOut, ParseOwn DEF ReadChunk, Unmerged, ChainInv
<1>2. PICK n \in Nat \ {0} : n = Len(file[c].blocks)
  BY ChainCounts
<1>3. PICK k \in 1 .. n : k = pos[c]
  BY <1>1, <1>2, ParseStarts DEF ParseBlock
<1>4. /\ tip'[c] = <<c, k>>
      /\ bmap'[c] = Put(bmap[c], BlockAt(c).hash, <<c, k>>)
      /\ heap'[<<c, k>>].prev = PrevFor(c)
      /\ IsMap(heap'[<<c, k>>].balances)
      /\ SameMoney(heap'[<<c, k>>].balances, bal[<<c, k>>])
  BY <1>1, <1>3, ParseRight
<1>5. /\ pos'[c] = k + 1 /\ pc'[c] \in {"parse", "lockHead"}
      /\ BlockAt(c) = file[c].blocks[k]
  BY <1>1, <1>3, ParseOwn DEF BlockAt
<1>6. /\ <<c, k>> \in DOMAIN heap'
      /\ \A x \in DOMAIN heap : x \in DOMAIN heap' /\ heap'[x] = heap[x]
  BY <1>1, <1>3, ParseNew
<1>7. PrevFor(c) = IF k # 1 THEN <<c, k - 1>> ELSE IF c = 1 THEN NoBlock ELSE <<c, 0>>
  BY <1>1, <1>3, ParseStarts DEF ParseBlock
<1>8. ASSUME NEW j \in 1 .. k PROVE ObjectRight(bal, c, j)'
  <2>1. CASE j = k
    <3>1. /\ file[c].blocks[k].hash \in DOMAIN bmap'[c]
          /\ bmap'[c][file[c].blocks[k].hash] = <<c, k>>
      BY <1>4, <1>5, Zenon DEF Put
    <3>2. QED
      BY <1>1, <1>4, <1>6, <1>7, <2>1, <3>1 DEF ObjectRight
  <2>2. CASE j # k
    <3>1. j \in 1 .. pos[c] - 1 /\ j \in 1 .. n
      BY <1>3, <2>2
    <3>2. ObjectRight(bal, c, j)
      BY <3>1 DEF ThreadRight
    <3>3. file[c].blocks[j].hash # file[c].blocks[k].hash
      BY <1>2, <2>2, <3>1 DEF IsRight, IsChain
    <3>4. PICK x, y : x = file[c].blocks[j].hash /\ y = file[c].blocks[k].hash
      OBVIOUS
    <3>5. x \in DOMAIN bmap'[c] /\ bmap'[c][x] = <<c, j>>
      <4>1. x \in DOMAIN bmap[c] /\ bmap[c][x] = <<c, j>>
        BY <3>2, <3>4 DEF ObjectRight
      <4>2. x # y /\ bmap'[c] = Put(bmap[c], y, <<c, k>>)
        BY <1>4, <1>5, <3>3, <3>4
      <4>3. QED
        BY <4>1, <4>2 DEF Put
    <3>6. <<c, j>> \in DOMAIN heap' /\ heap'[<<c, j>>] = heap[<<c, j>>]
      BY <1>6, <3>2 DEF ObjectRight
    <3>7. QED
      BY <1>1, <3>2, <3>4, <3>5, <3>6, Zenon DEF ObjectRight
  <2>3. QED
    BY <2>1, <2>2
<1>9. pos'[c] # 1 /\ pos'[c] - 1 = k
  BY <1>3, <1>5
<1>10. QED
  BY <1>4, <1>5, <1>8, <1>9 DEF ThreadRight, Through

\* main finds a tail for every head, and no assert fails.
LEMMA MainRightStep ==
    ASSUME ChainInv, [Next]_vars, NEW off, NEW bal, Right(off, bal)
    PROVE  mainPc' # "aborted" /\ valid'
<1> DEFINE Fine == mainPc' # "aborted" /\ valid'
<1>1. mainPc # "aborted" /\ valid /\ IInv
  BY DEF Right, ChainInv
<1>2. CASE UNCHANGED vars
  BY <1>1, <1>2 DEF vars, mergeVars
<1>3. CASE Main
  <2>1. CASE CreateThread \/ LaunchThread \/ WaitThread \/ DeleteManager
    <3>1. mainPc' # "aborted"
      BY <1>1, <2>1, CreateEffect, LaunchEffect, WaitEffect, DeleteEffect
    <3>2. valid' = valid
      BY <2>1, Zenon DEF CreateThread, LaunchThread, WaitThread, DeleteManager, mergeVars
    <3>3. QED
      BY <1>1, <3>1, <3>2
  <2>2. CASE LinkHead \/ AllLinked \/ ScanTail \/ PrintReport
    BY <1>1, <2>2, Zenon DEF LinkHead, AllLinked, ScanTail, PrintReport, mergeVars
  <2>3. CASE NoPredecessor
    <3>1. PICK p \in heads : heap[p].blk.prev \notin DOMAIN tails
      BY <2>3 DEF NoPredecessor
    <3>2. PICK c \in Chunks : p = <<c, 1>>
      BY <3>1 DEF ChainInv, HeadsAreFirst
    <3>3. c # 1
      <4>1. IsRight(file, off, bal)
        BY DEF Right
      <4>2. QED
        BY <3>1, <3>2, <4>1, FirstIsNoHead
    <3>4. PICK d \in Chunks : d = c - 1
      BY <3>3, ChainCounts DEF Right
    <3>5. heap[p].blk = file[c].blocks[1]
      <4>1. p \in DOMAIN heap
        BY <1>1 DEF IInv, ContainersHoldObjects
      <4>2. QED
        BY <1>1, <3>2, <4>1, ObjectIsBlock DEF ChainInv
    <3>6. heap[p].blk.prev = LastHash(file, d)
      <4>1. 1 \in 1 .. Len(file[c].blocks)
        <5>1. Len(file[c].blocks) \in Nat \ {0}
          BY ChainCounts DEF Right
        <5>2. QED
          BY <5>1
      <4>2. BlockFollows(file, bal, c, 1)
        BY <4>1, ChainBlock DEF Right
      <4>3. QED
        BY <3>3, <3>4, <3>5, <4>2 DEF BlockFollows
    <3>7. LastHash(file, d) \in DOMAIN tails
      BY <2>3 DEF Right, MergeComplete, NoPredecessor
    <3>8. QED
      BY <3>1, <3>6, <3>7
  <2>4. QED
    BY <1>3, <2>1, <2>2, <2>3 DEF Main
<1>4. ASSUME NEW c \in Chunks, ReadChunk(c) PROVE Fine
  <2>1. CASE ParseAborts(c)
    <3>1. Unmerged /\ HasBlock(c) /\ CoinbaseAsserts(c)
      BY <1>1, <1>4, <2>1, ThreadIsOut DEF ParseAborts, Unmerged
    <3>2. IsRight(file, off, bal) /\ ThreadRight(bal, c)
      BY DEF Right
    <3>3. QED
      BY <1>1, <3>1, <3>2, ParseStarts
  <2>2. CASE ~ParseAborts(c)
    BY <1>1, <1>4, <2>2 DEF ReadChunk, ParseBlock, Lock, InsertHead, FinishChunk,
                            InsertTail, ExitThread, mergeVars
  <2>3. QED
    BY <2>1, <2>2
<1>5. QED
  BY <1>2, <1>3, <1>4 DEF Next, Ended

\* What the steps do to the objects a thread has already made.
LEMMA ThreadKept ==
    ASSUME ChainInv, [Next]_vars, NEW off, NEW bal, IsRight(file, off, bal),
           NEW c \in Chunks, ~ParseBlock(c)
    PROVE  /\ pos'[c] = pos[c] /\ tip'[c] = tip[c] /\ bmap'[c] = bmap[c]
           /\ \A k \in 1 .. pos[c] - 1 : <<c, k>> \in DOMAIN heap =>
                 /\ <<c, k>> \in DOMAIN heap'
                 /\ (k # 1 \/ c = 1) => heap'[<<c, k>>].prev = heap[<<c, k>>].prev
                 /\ Unmerged' => Unmerged /\ heap'[<<c, k>>] = heap[<<c, k>>]
<1>1. IInv /\ ObjectsRead
  BY DEF ChainInv
<1>2. pos'[c] = pos[c] /\ tip'[c] = tip[c] /\ bmap'[c] = bmap[c]
  <2>1. ASSUME NEW d \in Chunks, ReadChunk(d)
        PROVE  pos'[c] = pos[c] /\ tip'[c] = tip[c] /\ bmap'[c] = bmap[c]
    <3>1. CASE ParseBlock(d)
      <4>1. c # d
        BY <3>1
      <4>2. QED
        BY <1>1, <3>1, <4>1, ParseOwn
    <3>2. CASE ~ParseBlock(d)
      BY <2>1, <3>2 DEF ReadChunk, ParseAborts, Lock, InsertHead, FinishChunk,
                        InsertTail, ExitThread, threadVars
    <3>3. QED
      BY <3>1, <3>2
  <2>2. QED
    BY <2>1, MainFrame DEF Next
<1>3. ASSUME NEW k \in 1 .. pos[c] - 1, <<c, k>> \in DOMAIN heap,
             k # 1 \/ c = 1
      PROVE  heap'[<<c, k>>].prev = heap[<<c, k>>].prev
  <2>1. \/ heap'[<<c, k>>].prev = heap[<<c, k>>].prev
        \/ <<c, k>> \in heads
    BY <1>1, <1>3, ObjectsKept
  <2>2. <<c, k>> \notin heads
    <3>1. CASE k # 1
      BY <3>1 DEF ChainInv, HeadsAreFirst
    <3>2. CASE k = 1
      BY <1>3, <3>2, FirstIsNoHead
    <3>3. QED
      BY <3>1, <3>2
  <2>3. QED
    BY <2>1, <2>2
<1>4. ASSUME NEW k \in 1 .. pos[c] - 1, <<c, k>> \in DOMAIN heap, Unmerged'
      PROVE  Unmerged /\ heap'[<<c, k>>] = heap[<<c, k>>]
  <2>1. CASE \E d \in Chunks : ParseBlock(d)
    <3>1. PICK d \in Chunks : ParseBlock(d)
      BY <2>1
    <3>2. Unmerged
      BY <1>1, <3>1, ThreadIsOut DEF Unmerged, ReadChunk
    <3>3. QED
      BY <1>1, <1>4, <3>1, <3>2, ParseNew
  <2>2. CASE ~ \E d \in Chunks : ParseBlock(d)
    BY <1>1, <1>4, <2>2, MergeFrame
  <2>3. QED
    BY <2>1, <2>2
<1>5. ASSUME NEW k \in 1 .. pos[c] - 1, <<c, k>> \in DOMAIN heap
      PROVE  <<c, k>> \in DOMAIN heap'
  BY <1>5, HeapGrows
<1>6. QED
  BY <1>2, <1>3, <1>4, <1>5

\* A thread that leaves its loop has passed all its blocks.
LEMMA LoopIsLeft ==
    ASSUME ChainInv, [Next]_vars, NEW off, NEW bal, Right(off, bal),
           NEW c \in Chunks, ~ParseBlock(c),
           pc'[c] \in {"lockTail", "insertTail"} \/ Through(c)'
    PROVE  pos[c] = Len(file[c].blocks) + 1
<1>1. /\ IInv /\ ThreadTypes /\ IsRight(file, off, bal) /\ ThreadRight(bal, c)
      /\ mainPc' # "aborted"
  BY MainRightStep DEF Right, ChainInv, IInv
<1>2. ASSUME FinishChunk(c) PROVE pos[c] = Len(file[c].blocks) + 1
  <2>1. PICK n \in Nat \ {0} : n = Len(file[c].blocks)
    BY <1>1, ChainCounts
  <2>2. pos[c] \in 1 .. n + 1
    BY <1>1, <2>1 DEF ThreadTypes
  <2>3. ASSUME pos[c] \in 1 .. n PROVE FALSE
    <3>1. BlockFollows(file, bal, c, pos[c])
      BY <1>1, <2>1, <2>3, ChainBlock
    <3>2. BlockAt(c) # Truncated
      BY <3>1 DEF BlockFollows, BlockAt
    <3>3. pos[c] <= Len(file[c].blocks)
      BY <2>1, <2>3
    <3>4. QED
      BY <1>2, <3>2, <3>3 DEF FinishChunk, HasBlock
  <2>4. QED
    BY <2>1, <2>2, <2>3
<1>3. CASE mainPc' \in {"link", "scan", "done"} /\ mainPc \in {"link", "scan", "done"}
  BY <1>3 DEF Right, MergeComplete
<1>4. CASE ~(mainPc' \in {"link", "scan", "done"} /\ mainPc \in {"link", "scan", "done"})
  <2>1. Unmerged'
    <3>1. mainPc' \in {"link", "scan", "done"} => mainPc \in {"delete", "link", "scan", "done"}
      <4>1. ASSUME NEW d \in Chunks, ReadChunk(d), mainPc' \in {"link", "scan", "done"}
            PROVE  FALSE
        <5>1. mainPc \in {"create", "launch", "wait"}
          BY <1>1, <4>1, ThreadIsOut
        <5>2. mainPc' = mainPc \/ mainPc' = "aborted"
          BY <4>1 DEF ReadChunk, ParseBlock, ParseAborts, Lock, InsertHead,
                      FinishChunk, InsertTail, ExitThread
        <5>3. QED
          BY <4>1, <5>1, <5>2
      <4>2. QED
        BY <1>1, <4>1, CreateEffect, LaunchEffect, WaitEffect, Zenon
        DEF Next, Main, Ended, vars, DeleteManager, LinkHead, NoPredecessor,
            AllLinked, ScanTail, PrintReport
    <3>2. mainPc = "delete" => linked' = {}
      <4>1. ASSUME mainPc = "delete" PROVE linked' = linked
        <5>1. ASSUME NEW d \in Chunks PROVE ~ReadChunk(d)
          BY <1>1, <4>1, ThreadIsOut
        <5>2. DeleteManager \/ UNCHANGED vars
          BY <4>1, <5>1 DEF Next, Main, Ended, CreateThread, LaunchThread,
             WaitThread, LinkHead, NoPredecessor, AllLinked, ScanTail, PrintReport
        <5>3. QED
          BY <5>2 DEF DeleteManager, vars, mergeVars
      <4>2. QED
        BY <4>1 DEF ChainInv, LinkedToTails
    <3>3. mainPc' \in {"create", "launch", "wait", "delete", "link", "scan", "done"}
      BY <1>1, MainTypesStep DEF MainTypes
    <3>4. mainPc' = "link" => mainPc = "delete"
      BY <1>4, <3>1
    <3>5. mainPc' \notin {"scan", "done"}
      <4>1. ASSUME mainPc = "delete" PROVE mainPc' \notin {"scan", "done"}
        <5>1. ASSUME NEW d \in Chunks PROVE ~ReadChunk(d)
          BY <1>1, <4>1, ThreadIsOut
        <5>2. DeleteManager \/ UNCHANGED vars
          BY <4>1, <5>1 DEF Next, Main, Ended, CreateThread, LaunchThread,
             WaitThread, LinkHead, NoPredecessor, AllLinked, ScanTail, PrintReport
        <5>3. QED
          BY <4>1, <5>2 DEF DeleteManager, vars
      <4>2. QED
        BY <1>4, <3>1, <4>1
    <3>6. QED
      BY <3>2, <3>3, <3>4, <3>5 DEF Unmerged
  <2>2. CASE Through(c)'
    <3>1. (Through(c)' /\ ~Through(c)) => InsertTail(c) \/ FinishChunk(c)
      BY <1>1, <2>1, ThroughStep
    <3>2. InsertTail(c) => pc[c] = "insertTail"
      BY DEF InsertTail, Move
    <3>3. QED
      BY <1>1, <1>2, <2>2, <3>1, <3>2 DEF ThreadRight
  <2>3. CASE pc'[c] \in {"lockTail", "insertTail"}
    <3>1. pc[c] \in {"lockTail", "insertTail"} \/ FinishChunk(c)
      <4>1. ASSUME NEW d \in Chunks, ReadChunk(d)
            PROVE  pc[c] \in {"lockTail", "insertTail"} \/ FinishChunk(c)
        <5>1. CASE d = c
          BY <1>1, <2>3, <4>1, <5>1 DEF ReadChunk, ParseBlock, ParseAborts, Lock,
             InsertHead, FinishChunk, InsertTail, ExitThread, Move, threadVars,
             ThreadTypes
        <5>2. CASE d # c
          <6>1. pc'[c] = pc[c]
            BY <1>1, <4>1, <5>2 DEF ReadChunk, ParseBlock, ParseAborts, Lock,
               InsertHead, FinishChunk, InsertTail, ExitThread, Move, threadVars,
               ThreadTypes
          <6>2. QED
            BY <2>3, <6>1
        <5>3. QED
          BY <5>1, <5>2
      <4>2. CASE LaunchThread
        BY <1>1, <2>3, <4>2 DEF LaunchThread, ThreadTypes
      <4>3. CASE UNCHANGED pc
        BY <2>3, <4>3
      <4>4. QED
        BY <4>1, <4>2, <4>3, MainFrame DEF Next
    <3>2. QED
      BY <1>1, <1>2, <3>1 DEF ThreadRight
  <2>4. QED
    BY <2>2, <2>3
<1>5. QED
  BY <1>3, <1>4

\* No step disturbs what a thread has found.
LEMMA ThreadRightStep ==
    ASSUME ChainInv, [Next]_vars, NEW off, NEW bal, Right(off, bal),
           NEW c \in Chunks
    PROVE  ThreadRight(bal, c)'
<1>1. IsRight(file, off, bal) /\ ThreadRight(bal, c) /\ file' = file
  BY FileStays DEF Right
<1>2. CASE ParseBlock(c)
  BY <1>1, <1>2, ThreadRightParse
<1>3. CASE ~ParseBlock(c)
  <2>1. pos'[c] = pos[c] /\ tip'[c] = tip[c] /\ bmap'[c] = bmap[c]
    BY <1>1, <1>3, ThreadKept
  <2>2. ASSUME NEW k \in 1 .. pos[c] - 1 PROVE ObjectRight(bal, c, k)'
    <3>1. ObjectRight(bal, c, k)
      BY <1>1 DEF ThreadRight
    <3>2. /\ <<c, k>> \in DOMAIN heap'
          /\ (k # 1 \/ c = 1) => heap'[<<c, k>>].prev = heap[<<c, k>>].prev
          /\ Unmerged' => Unmerged /\ heap'[<<c, k>>] = heap[<<c, k>>]
      BY <1>1, <1>3, <3>1, ThreadKept DEF ObjectRight
    <3>3. QED
      BY <1>1, <2>1, <3>1, <3>2 DEF ObjectRight
  <2>3. (pc'[c] \in {"lockTail", "insertTail"} \/ Through(c)') =>
            pos[c] = Len(file[c].blocks) + 1
    BY <1>3, LoopIsLeft
  <2>4. QED
    BY <1>1, <2>1, <2>2, <2>3 DEF ThreadRight
<1>4. QED
  BY <1>2, <1>3

\* A thread that has passed all its blocks: its last one.
LEMMA ReadToTheEnd ==
    ASSUME ChainInv, NEW off, NEW bal, Right(off, bal), NEW c \in Chunks,
           pos[c] = Len(file[c].blocks) + 1
    PROVE  /\ tip[c] = LastOf(file, c)
           /\ LastOf(file, c) \in DOMAIN heap
           /\ heap[LastOf(file, c)].blk.hash = LastHash(file, c)
           /\ \A k \in 1 .. Len(file[c].blocks) : ObjectRight(bal, c, k)
<1>1. IsRight(file, off, bal) /\ ThreadRight(bal, c)
  BY DEF Right
<1>2. PICK n \in Nat \ {0} : n = Len(file[c].blocks)
  BY <1>1, ChainCounts
<1>3. pos[c] # 1 /\ pos[c] - 1 = n /\ n \in 1 .. n
  BY <1>2
<1>4. \A k \in 1 .. n : ObjectRight(bal, c, k)
  BY <1>1, <1>3 DEF ThreadRight
<1>5. tip[c] = <<c, n>> /\ <<c, n>> \in DOMAIN heap
  BY <1>1, <1>3, <1>4 DEF ThreadRight, ObjectRight
<1>6. heap[<<c, n>>].blk = file[c].blocks[n]
  BY <1>2, <1>5, ObjectIsBlock DEF ChainInv
<1>7. QED
  BY <1>2, <1>4, <1>5, <1>6 DEF LastOf, LastHash

\* Nothing else gets into tails.
LEMMA TailsRightStep ==
    ASSUME ChainInv, [Next]_vars, NEW off, NEW bal, Right(off, bal)
    PROVE  TailsRight'
<1>1. TailsRight /\ file' = file
  BY FileStays DEF Right
<1>2. CASE tails' = tails
  BY <1>1, <1>2 DEF TailsRight
<1>3. ASSUME NEW c \in Chunks, InsertTail(c) PROVE TailsRight'
  <2>1. pos[c] = Len(file[c].blocks) + 1
    BY <1>3 DEF Right, ThreadRight, InsertTail, Move
  <2>2. /\ tip[c] = LastOf(file, c)
        /\ heap[tip[c]].blk.hash = LastHash(file, c)
    BY <2>1, ReadToTheEnd
  <2>3. tails' = Put(tails, LastHash(file, c), LastOf(file, c))
    BY <1>3, <2>2 DEF InsertTail
  <2>4. QED
    BY <1>1, <2>3 DEF TailsRight, Put
<1>4. ASSUME NEW c \in Chunks, ReadChunk(c), ~InsertTail(c) PROVE tails' = tails
  BY <1>4 DEF ReadChunk, ParseBlock, ParseAborts, Lock, InsertHead, FinishChunk, ExitThread
<1>5. QED
  BY <1>2, <1>3, <1>4, MainFrame DEF Next

\* When all threads are joined, every chunk has entered its ends.
LEMMA NothingIsMissing ==
    ASSUME ChainInv, NEW off, NEW bal, Right(off, bal), mainPc = "delete",
           NEW c \in Chunks
    PROVE  MergeComplete(c)
<1>1. IInv /\ Unmerged /\ IsRight(file, off, bal) /\ ThreadRight(bal, c)
  BY DEF Right, ChainInv, Unmerged
<1>2. pc[c] = "none" /\ Through(c)
  <2>1. ~slots[Tid(c)].running
    BY <1>1 DEF IInv, SlotsInStep, SlotInStep, Collected, Running
  <2>2. life[Tid(c)] = "none"
    BY <1>1, <2>1, ManagerFacts
  <2>3. QED
    BY <1>1, <2>2 DEF IInv, ThreadsAreAlive, Running, Through, Unlaunched
<1>3. pos[c] = Len(file[c].blocks) + 1
  BY <1>1, <1>2 DEF ThreadRight
<1>4. PICK n \in Nat \ {0} : n = Len(file[c].blocks)
  BY <1>1, ChainCounts
<1>5. /\ tip[c] = <<c, n>> /\ <<c, n>> \in DOMAIN heap
      /\ heap[<<c, n>>].blk.hash = LastHash(file, c)
      /\ ObjectRight(bal, c, n) /\ ObjectRight(bal, c, 1)
  <2>1. n \in 1 .. n /\ 1 \in 1 .. n
    BY <1>4
  <2>2. QED
    BY <1>3, <1>4, <2>1, ReadToTheEnd DEF LastOf
<1>6. LastHash(file, c) \in DOMAIN tails
  <2>1. /\ IsMap(heap[<<c, n>>].balances)
        /\ SameMoney(heap[<<c, n>>].balances, bal[<<c, n>>])
    BY <1>1, <1>5, Zenon DEF ObjectRight
  <2>2. IsMap(file[c].map) /\ SameMoney(file[c].map, bal[<<c, n>>])
    BY <1>1, <1>4 DEF IsRight, IsChain, ChunkFollows
  <2>3. SameMoney(heap[<<c, n>>].balances, file[c].map)
    BY <2>1, <2>2 DEF SameMoney
  <2>4. BalanceMapsEqual(heap[<<c, n>>].balances, file[c].map)
    BY <2>1, <2>2, <2>3, EqualMaps
  <2>5. TipMatchesMap(c)
    BY <1>5, <2>4 DEF TipMatchesMap, NoBlock, Chunks
  <2>6. QED
    BY <1>1, <1>2, <1>5, <2>5, Zenon DEF IInv, TailsEntered
<1>7. ASSUME c # 1 PROVE <<c, 1>> \in heads
  <2>1. PICK d \in Chunks : d = c - 1
    BY <1>1, <1>7, ChainCounts
  <2>2. PICK m \in Nat \ {0} : m = Len(file[d].blocks)
    BY <1>1, ChainCounts
  <2>3. 1 \in 1 .. Len(file[c].blocks) /\ m \in 1 .. Len(file[d].blocks)
    BY <1>4, <2>2
  <2>4. BlockFollows(file, bal, c, 1) /\ BlockFollows(file, bal, d, m)
    BY <1>1, <2>3, ChainBlock
  <2>5. file[c].blocks[1].prev # Zero
    BY <1>7, <2>1, <2>2, <2>4 DEF BlockFollows, LastHash
  <2>6. heap[<<c, 1>>].blk = file[c].blocks[1]
    <3>1. <<c, 1>> \in DOMAIN heap
      BY <1>5, Zenon DEF ObjectRight
    <3>2. QED
      BY <3>1, ObjectIsBlock, SMTT(30) DEF ChainInv
  <2>7. PICK h : h \in DOMAIN bmap[c] /\ bmap[c][h] = <<c, 1>>
    BY <1>5, Zenon DEF ObjectRight
  <2>8. QED
    BY <1>1, <1>2, <2>5, <2>6, <2>7 DEF IInv, HeadsEntered
<1>8. QED
  BY <1>3, <1>6, <1>7 DEF MergeComplete

\* Main starts to link when all is there, and it stays there.
LEMMA MergeCompleteStep ==
    ASSUME ChainInv, [Next]_vars, NEW off, NEW bal, Right(off, bal),
           mainPc' \in {"link", "scan", "done"}, NEW c \in Chunks
    PROVE  MergeComplete(c)'
<1>1. IInv /\ file' = file
  BY FileStays DEF ChainInv
<1>2. ASSUME NEW d \in Chunks PROVE ~ReadChunk(d)
  <2> SUFFICES ASSUME ReadChunk(d) PROVE FALSE
    OBVIOUS
  <2>1. mainPc \in {"create", "launch", "wait"}
    BY <1>1, ThreadIsOut
  <2>2. mainPc' = mainPc \/ mainPc' = "aborted"
    BY DEF ReadChunk, ParseBlock, ParseAborts, Lock, InsertHead,
           FinishChunk, InsertTail, ExitThread
  <2>3. QED
    BY <2>1, <2>2
<1>3. UNCHANGED <<pos, heads, tails>>
  BY <1>2, MainFrame, Zenon DEF Next
<1>4. mainPc \in {"delete", "link", "scan", "done"}
  BY <1>1, <1>2, CreateEffect, LaunchEffect, WaitEffect, Zenon
  DEF Next, Main, Ended, vars, DeleteManager, LinkHead, NoPredecessor,
      AllLinked, ScanTail, PrintReport
<1>5. MergeComplete(c)
  BY <1>4, NothingIsMissing DEF Right
<1>6. QED
  BY <1>1, <1>3, <1>5 DEF MergeComplete

\* How far from the first block of the chain a block is.
Place(off, c, k) == off[c - 1] + k

\* The path from a block is as long as the chain up to it, and holds nothing
\* that comes after it.
PathRight(off, x) ==
    \A c \in Chunks : \A k \in 1 .. Len(file[c].blocks) : x = <<c, k>> =>
        /\ IsFiniteSet(Path(heap, x))
        /\ Cardinality(Path(heap, x)) = Place(off, c, k)
        /\ \A y \in Path(heap, x) :
              \E d \in Chunks : \E j \in 1 .. Len(file[d].blocks) :
                  y = <<d, j>> /\ Place(off, d, j) <= Place(off, c, k)

\* Linked, the paths of all objects are the chain.
LEMMA PathIsChain ==
    ASSUME HashesAreNew, ChainInv, NEW off, NEW bal, Right(off, bal),
           mainPc \in {"scan", "done"}
    PROVE  \A x \in DOMAIN heap : PathRight(off, x)
<1> DEFINE S == {x \in DOMAIN heap : PathRight(off, x)}
<1>1. IsRight(file, off, bal) /\ valid /\ linked = heads
  BY DEF Right, ChainInv, LinkedToTails
<1>2. PICK rank : IsRanked(heap, rank)
  BY HeapIsRanked
<1>3. \A c \in Chunks : /\ MergeComplete(c)
                        /\ \A k \in 1 .. Len(file[c].blocks) : ObjectRight(bal, c, k)
  BY ReadToTheEnd DEF Right, MergeComplete
<1>4. ASSUME NEW c \in Chunks, NEW k \in 1 .. Len(file[c].blocks), k = 1, c = 1
      PROVE  heap[<<c, k>>].prev = NoBlock /\ Place(off, c, k) = 1
  <2>1. off[0] = 0
    BY <1>1 DEF IsRight, IsChain
  <2>2. heap[<<c, k>>].prev = NoBlock
    BY <1>3, <1>4 DEF ObjectRight
  <2>3. QED
    BY <1>4, <2>1, <2>2 DEF Place
<1>5. ASSUME NEW c \in Chunks, NEW k \in 1 .. Len(file[c].blocks), ~(k = 1 /\ c = 1)
      PROVE  \E d \in Chunks : \E j \in 1 .. Len(file[d].blocks) :
                /\ heap[<<c, k>>].prev = <<d, j>>
                /\ Place(off, d, j) \in Nat
                /\ Place(off, c, k) = Place(off, d, j) + 1
  <2>1. PICK n \in Nat \ {0}, a \in Nat : n = Len(file[c].blocks) /\ a = off[c - 1]
    BY <1>1, ChainCounts
  <2>2. CASE k # 1
    <3>1. k - 1 \in 1 .. n /\ k \in Nat
      BY <2>1, <2>2
    <3>2. Place(off, c, k) = a + k /\ Place(off, c, k - 1) = a + (k - 1)
      BY <2>1 DEF Place
    <3>3. heap[<<c, k>>].prev = <<c, k - 1>>
      BY <1>3, <2>2 DEF ObjectRight
    <3>4. a + (k - 1) \in Nat /\ a + k = (a + (k - 1)) + 1
      BY <3>1
    <3>5. QED
      BY <2>1, <3>1, <3>2, <3>3, <3>4
  <2>3. CASE k = 1
    <3>1. PICK d \in Chunks : d = c - 1
      BY <1>1, <1>5, <2>3, ChainCounts
    <3>2. PICK m \in Nat \ {0}, b \in Nat :
              m = Len(file[d].blocks) /\ b = off[d - 1] /\ a = b + m
      BY <1>1, <2>1, <3>1, ChainCounts
    <3>3. <<c, 1>> \in heads /\ <<c, 1>> \in DOMAIN heap
      BY <1>3, <1>5, <2>3 DEF MergeComplete, ObjectRight
    <3>4. heap[<<c, 1>>].blk.prev = LastHash(file, d)
      <4>1. heap[<<c, 1>>].blk = file[c].blocks[1]
        BY <3>3, ObjectIsBlock DEF ChainInv
      <4>2. BlockFollows(file, bal, c, 1)
        BY <1>1, <2>3, ChainBlock
      <4>3. QED
        BY <1>5, <2>3, <3>1, <4>1, <4>2 DEF BlockFollows
    <3>5. heap[<<c, 1>>].prev = tails[LastHash(file, d)] /\ LastHash(file, d) \in DOMAIN tails
      BY <1>1, <3>3, <3>4 DEF ChainInv, LinkedToTails
    <3>6. PICK e \in Chunks : /\ LastHash(file, d) = LastHash(file, e)
                              /\ tails[LastHash(file, d)] = LastOf(file, e)
      BY <3>5 DEF Right, TailsRight
    <3>7. d = e
      <4>1. PICK l \in Nat \ {0} : l = Len(file[e].blocks)
        BY <1>1, ChainCounts
      <4>2. m \in 1 .. Len(file[d].blocks) /\ l \in 1 .. Len(file[e].blocks)
        BY <3>2, <4>1
      <4>3. file[d].blocks[m].hash = file[e].blocks[l].hash
        BY <3>2, <3>6, <4>1 DEF LastHash
      <4>4. QED
        BY <1>1, <4>2, <4>3 DEF IsRight, IsChain
    <3>8. heap[<<c, 1>>].prev = <<d, m>>
      BY <3>2, <3>5, <3>6, <3>7 DEF LastOf
    <3>9. Place(off, c, k) = a + 1 /\ Place(off, d, m) = b + m
      BY <2>1, <2>3, <3>2 DEF Place
    <3>10. m \in 1 .. m /\ b + m \in Nat /\ a + 1 = (b + m) + 1
      BY <3>2
    <3>11. QED
      BY <2>3, <3>2, <3>8, <3>9, <3>10
  <2>4. QED
    BY <2>2, <2>3
<1>6. ASSUME NEW x \in DOMAIN heap, heap[x].prev = NoBlock \/ heap[x].prev \in S
      PROVE  x \in S
  <2> SUFFICES ASSUME NEW c \in Chunks, NEW k \in 1 .. Len(file[c].blocks), x = <<c, k>>
               PROVE  /\ IsFiniteSet(Path(heap, x))
                      /\ Cardinality(Path(heap, x)) = Place(off, c, k)
                      /\ \A y \in Path(heap, x) :
                            \E d \in Chunks : \E j \in 1 .. Len(file[d].blocks) :
                                y = <<d, j>> /\ Place(off, d, j) <= Place(off, c, k)
    BY DEF PathRight
  <2>1. Path(heap, x) = IF heap[x].prev = NoBlock THEN {x}
                        ELSE {x} \cup Path(heap, heap[x].prev)
    BY <1>2, PathUnfolds DEF IsRanked, IsHeap
  <2>2. CASE k = 1 /\ c = 1
    <3>1. Path(heap, x) = {x} /\ Place(off, c, k) = 1
      BY <1>4, <2>1, <2>2
    <3>2. IsFiniteSet({x}) /\ Cardinality({x}) = 1
      BY FS_Singleton
    <3>3. \A y \in {x} : y = <<c, k>> /\ Place(off, c, k) <= Place(off, c, k)
      BY <3>1
    <3>4. QED
      BY <3>1, <3>2, <3>3
  <2>3. CASE ~(k = 1 /\ c = 1)
    <3>1. PICK d \in Chunks : \E j \in 1 .. Len(file[d].blocks) :
                /\ heap[x].prev = <<d, j>>
                /\ Place(off, d, j) \in Nat
                /\ Place(off, c, k) = Place(off, d, j) + 1
      BY <1>5, <2>3
    <3>2. PICK j \in 1 .. Len(file[d].blocks) :
                /\ heap[x].prev = <<d, j>>
                /\ Place(off, d, j) \in Nat
                /\ Place(off, c, k) = Place(off, d, j) + 1
      BY <3>1
    <3>3. PICK p, P, z : p = Place(off, d, j) /\ z = <<d, j>> /\ P = Path(heap, z)
      OBVIOUS
    <3>4. z # NoBlock /\ z \in S
      BY <1>6, <3>2, <3>3 DEF NoBlock, Chunks
    <3>5. /\ IsFiniteSet(P) /\ Cardinality(P) = p
          /\ \A y \in P :
                \E e \in Chunks : \E i \in 1 .. Len(file[e].blocks) :
                    y = <<e, i>> /\ Place(off, e, i) <= p
      BY <3>3, <3>4 DEF PathRight
    <3>6. Path(heap, x) = P \cup {x}
      BY <2>1, <3>2, <3>3, <3>4
    <3>7. p \in Nat /\ Place(off, c, k) = p + 1
      BY <3>2, <3>3
    <3>8. x \notin P
      <4> SUFFICES ASSUME x \in P PROVE FALSE
        OBVIOUS
      <4>1. PICK e \in Chunks : \E i \in 1 .. Len(file[e].blocks) :
                    x = <<e, i>> /\ Place(off, e, i) <= p
        BY <3>5
      <4>2. PICK i \in 1 .. Len(file[e].blocks) : x = <<e, i>> /\ Place(off, e, i) <= p
        BY <4>1
      <4>3. Place(off, e, i) = p + 1
        BY <3>7, <4>2
      <4>4. QED
        BY <3>7, <4>2, <4>3
    <3>9. IsFiniteSet(P \cup {x}) /\ Cardinality(P \cup {x}) = p + 1
      BY <3>5, <3>8, FS_AddElement
    <3>10. ASSUME NEW y \in P \cup {x}
           PROVE  \E e \in Chunks : \E i \in 1 .. Len(file[e].blocks) :
                      y = <<e, i>> /\ Place(off, e, i) <= p + 1
      <4>1. CASE y = x
        BY <3>7, <4>1
      <4>2. CASE y \in P
        <5>1. PICK e \in Chunks : \E i \in 1 .. Len(file[e].blocks) :
                      y = <<e, i>> /\ Place(off, e, i) <= p
          BY <3>5, <4>2
        <5>2. PICK i \in 1 .. Len(file[e].blocks) : y = <<e, i>> /\ Place(off, e, i) <= p
          BY <5>1
        <5>3. Place(off, e, i) \in Nat
          <6>1. off[e - 1] \in Nat /\ Len(file[e].blocks) \in Nat
            BY <1>1, ChainCounts
          <6>2. QED
            BY <6>1 DEF Place
        <5>4. Place(off, e, i) <= p + 1
          BY <3>7, <5>2, <5>3
        <5>5. QED
          BY <5>2, <5>4
      <4>3. QED
        BY <3>10, <4>1, <4>2
    <3>11. QED
      BY <3>6, <3>7, <3>9, <3>10
  <2>4. QED
    BY <2>2, <2>3
<1> HIDE DEF S
<1>7. DOMAIN heap \subseteq S
  BY <1>2, <1>6, RankInduction
<1>8. QED
  BY <1>7 DEF S

\* The longest tail found so far.
LEMMA BestRightStep ==
    ASSUME HashesAreNew, ChainInv, [Next]_vars, NEW off, NEW bal, Right(off, bal)
    PROVE  BestRight(off)'
<1>1. BestRight(off) /\ IsRight(file, off, bal) /\ file' = file
  BY FileStays DEF Right
<1>2. CASE UNCHANGED <<best, scanned>>
  BY <1>1, <1>2 DEF BestRight
<1>3. CASE ScanTail
  <2>1. PICK h \in DOMAIN tails \ scanned :
            /\ mainPc = "scan" /\ mainPc' = mainPc
            /\ heap' = Recomputed(tails[h])
            /\ best' = IF best.length < heap'[tails[h]].length
                       THEN [id |-> tails[h], length |-> heap'[tails[h]].length]
                       ELSE best
            /\ scanned' = scanned \cup {h}
    BY <1>3 DEF ScanTail
  <2>2. PICK d \in Chunks : h = LastHash(file, d) /\ tails[h] = LastOf(file, d)
    BY <2>1 DEF Right, TailsRight
  <2>3. PICK t : t = LastOf(file, d)
    OBVIOUS
  <2>4. PICK n \in Nat \ {0}, a \in Nat, b \in Nat :
            /\ n = Len(file[d].blocks) /\ a = off[d - 1] /\ b = off[d]
            /\ b = a + n
    <3>1. /\ Len(file[d].blocks) \in Nat \ {0}
          /\ off[d] \in Nat /\ off[d - 1] \in Nat
          /\ off[d] = off[d - 1] + Len(file[d].blocks)
      BY <1>1, ChainCounts
    <3>2. QED
      BY <3>1
  <2>5. t = <<d, n>> /\ t \in DOMAIN heap /\ n \in 1 .. Len(file[d].blocks)
    <3>1. pos[d] = Len(file[d].blocks) + 1
      BY <2>1 DEF Right, MergeComplete
    <3>2. LastOf(file, d) \in DOMAIN heap
      BY <3>1, ReadToTheEnd
    <3>3. QED
      BY <2>3, <2>4, <3>2 DEF LastOf
  <2>6. Cardinality(Path(heap, t)) = b
    <3>1. PathRight(off, t)
      BY <2>1, <2>5, PathIsChain
    <3>2. Cardinality(Path(heap, t)) = Place(off, d, n)
      BY <2>5, <3>1 DEF PathRight
    <3>3. QED
      BY <2>4, <3>2 DEF Place
  <2>7. heap'[t].length = b
    <3>1. PICK rank : IsRanked(heap, rank)
      BY HeapIsRanked
    <3>2. t \in Path(heap, t)
      BY <2>5, <3>1, PathUnfolds DEF IsRanked, IsHeap
    <3>3. "length" \in DOMAIN heap[t]
      BY <2>5 DEF ChainInv, ObjectsRead, Members
    <3>4. QED
      BY <2>1, <2>2, <2>3, <2>5, <2>6, <3>2, <3>3 DEF Recomputed
  <2>8. best' = IF best.length < b THEN [id |-> t, length |-> b] ELSE best
    BY <2>1, <2>2, <2>3, <2>7
  <2>9. best.length \in Nat
    <3>1. CASE best.id = NoBlock
      BY <1>1, <3>1 DEF BestRight
    <3>2. CASE best.id # NoBlock
      <4>1. PICK c \in Chunks : best.length = off[c]
        BY <1>1, <3>2 DEF BestRight
      <4>2. QED
        BY <1>1, <4>1, ChainCounts
    <3>3. QED
      BY <3>1, <3>2
  <2>10. t # NoBlock
    BY <2>5 DEF NoBlock, Chunks
  <2>11. best'.length >= best.length /\ best'.length >= b /\ best'.length \in Nat
    <3>1. CASE best.length < b
      BY <2>4, <2>8, <2>9, <3>1
    <3>2. CASE ~(best.length < b)
      BY <2>4, <2>8, <2>9, <3>2
    <3>3. QED
      BY <3>1, <3>2
  <2>12. ASSUME NEW c \in Chunks, LastHash(file, c) \in scanned'
         PROVE  off[c] <= best'.length
    <3>1. PICK x \in Nat : x = off[c]
      BY <1>1, ChainCounts
    <3>2. CASE LastHash(file, c) \in scanned
      <4>1. x <= best.length
        BY <1>1, <3>1, <3>2 DEF BestRight
      <4>2. QED
        BY <2>9, <2>11, <3>1, <4>1
    <3>3. CASE LastHash(file, c) = h
      <4>1. c = d
        <5>1. PICK l \in Nat \ {0} : l = Len(file[c].blocks)
          BY <1>1, ChainCounts
        <5>2. l \in 1 .. Len(file[c].blocks)
          BY <5>1
        <5>3. file[c].blocks[l].hash = file[d].blocks[n].hash
          BY <2>2, <2>4, <3>3, <5>1 DEF LastHash
        <5>4. QED
          BY <1>1, <2>5, <5>2, <5>3 DEF IsRight, IsChain
      <4>2. QED
        BY <2>4, <2>11, <4>1
    <3>4. QED
      BY <2>1, <2>12, <3>2, <3>3
  <2>13. best'.id = NoBlock => best'.length = 0
    <3>1. CASE best.length < b
      BY <2>8, <2>10, <3>1
    <3>2. CASE ~(best.length < b)
      BY <1>1, <2>8, <3>2 DEF BestRight
    <3>3. QED
      BY <3>1, <3>2
  <2>14. best'.id # NoBlock =>
            \E c \in Chunks : best'.id = LastOf(file, c) /\ best'.length = off[c]
    <3>1. CASE best.length < b
      BY <2>3, <2>4, <2>8, <3>1
    <3>2. CASE ~(best.length < b)
      BY <1>1, <2>8, <3>2 DEF BestRight
    <3>3. QED
      BY <3>1, <3>2
  <2>15. QED
    BY <1>1, <2>12, <2>13, <2>14 DEF BestRight, Chunks
<1>4. CASE ~ScanTail
  <2>1. UNCHANGED <<best, scanned>>
    BY <1>4, Zenon DEF Next, Main, Ended, ReadChunk, vars, mergeVars, CreateThread,
         LaunchThread, WaitThread, DeleteManager, NoPredecessor, AllLinked,
         PrintReport, LinkHead, ParseBlock, ParseAborts, Lock, InsertHead,
         FinishChunk, InsertTail, ExitThread
  <2>2. QED
    BY <1>2, <2>1, Zenon
<1>5. QED
  BY <1>3, <1>4

\* What is right stays right.
LEMMA RightStep ==
    ASSUME HashesAreNew, ChainInv, [Next]_vars, NEW off, NEW bal, Right(off, bal)
    PROVE  Right(off, bal)'
<1>1. IsRight(file, off, bal)'
  <2>1. IsRight(file, off, bal) /\ file' = file
    BY FileStays DEF Right
  <2>2. QED
    BY <2>1
<1>2. \A c \in Chunks : ThreadRight(bal, c)'
  BY ThreadRightStep
<1>3. mainPc' \in {"link", "scan", "done"} => \A c \in Chunks : MergeComplete(c)'
  BY MergeCompleteStep
<1>4. QED
  BY <1>1, <1>2, <1>3, MainRightStep, TailsRightStep, BestRightStep
  DEF Right, Chunks

\* Nothing is read yet.
LEMMA InitRight ==
    ASSUME HashesAreNew, FilesAreParsed, NumChunks \in 1 .. MAX_THREADS, Init,
           Reading!WellIndexed(file)
    PROVE  FileRight
<1>1. file \in Files /\ NumChunks \in Nat /\ NumChunks # 0
  BY ChunkAssumption DEF Init
<1>2. PICK off, bal : IsRight(file, off, bal)
  BY <1>1, WellIndexedIsChain DEF IsRight
<1>3. mainPc = "create"
  BY DEF Init, TM!Init
<1>4. ASSUME NEW c \in Chunks PROVE ThreadRight(bal, c)
  <2>1. pos[c] = 1 /\ tip[c] = NoBlock /\ pc[c] = "none"
    BY DEF Init
  <2>2. Unlaunched(c)
    BY <1>3 DEF Init, Unlaunched, Chunks
  <2>3. 1 .. pos[c] - 1 = {}
    BY <2>1
  <2>4. QED
    BY <2>1, <2>2, <2>3 DEF ThreadRight, Through
<1>5. TailsRight /\ BestRight(off)
  BY DEF Init, TailsRight, BestRight, NoMap
<1>6. Right(off, bal)
  BY <1>2, <1>3, <1>4, <1>5 DEF Right, Init
<1>7. QED
  BY <1>6 DEF FileRight

\* The same without the witnesses.
LEMMA FileRightStep ==
    ASSUME HashesAreNew, ChainInv, FileRight, [Next]_vars
    PROVE  FileRight'
<1>1. PICK off, bal : Right(off, bal)
  BY DEF FileRight
<1>2. Right(off, bal)'
  BY <1>1, RightStep
<1>3. Reading!WellIndexed(file')
  BY FileStays DEF FileRight
<1>4. QED
  BY <1>2, <1>3 DEF FileRight

\* When all tails are looked at, the best one is the last of the chain.
LEMMA BestIsLast ==
    ASSUME HashesAreNew, ChainInv, NEW off, NEW bal, Right(off, bal),
           NumChunks # 0, mainPc = "scan", scanned = DOMAIN tails
    PROVE  /\ best.id # NoBlock
           /\ heap[best.id].blk.hash = LastHash(file, NumChunks)
           /\ best.length = off[NumChunks]
<1>1. IsRight(file, off, bal) /\ BestRight(off)
  BY DEF Right
<1>2. NumChunks \in Nat /\ NumChunks \in Chunks
  BY ChunkAssumption DEF Chunks
<1>3. MergeComplete(NumChunks)
  BY <1>2 DEF Right
<1>4. off[NumChunks] \in Nat \ {0}
  <2>1. /\ Len(file[NumChunks].blocks) \in Nat \ {0}
        /\ off[NumChunks] \in Nat /\ off[NumChunks - 1] \in Nat
        /\ off[NumChunks] = off[NumChunks - 1] + Len(file[NumChunks].blocks)
    BY <1>1, <1>2, ChainCounts
  <2>2. PICK m \in Nat \ {0}, a \in Nat : m = Len(file[NumChunks].blocks)
                                          /\ a = off[NumChunks - 1]
    BY <2>1
  <2>3. QED
    BY <2>1, <2>2
<1>5. off[NumChunks] <= best.length
  BY <1>1, <1>2, <1>3 DEF MergeComplete, BestRight
<1>6. best.id # NoBlock
  BY <1>1, <1>4, <1>5 DEF BestRight
<1>7. PICK c \in Chunks : best.id = LastOf(file, c) /\ best.length = off[c]
  BY <1>1, <1>6 DEF BestRight
<1>8. c = NumChunks
  <2>1. ASSUME NEW d \in 1 .. NumChunks PROVE off[d] > off[d - 1]
    <3>1. /\ Len(file[d].blocks) \in Nat \ {0}
          /\ off[d] \in Nat /\ off[d - 1] \in Nat
          /\ off[d] = off[d - 1] + Len(file[d].blocks)
      BY <1>1, ChainCounts DEF Chunks
    <3>2. PICK m \in Nat \ {0}, a \in Nat, b \in Nat :
              m = Len(file[d].blocks) /\ a = off[d - 1] /\ b = off[d] /\ b = a + m
      BY <3>1
    <3>3. QED
      BY <3>2
  <2>2. off \in [0 .. NumChunks -> Nat]
    BY <1>1 DEF IsRight, IsChain
  <2>3. NumChunks \in 0 .. NumChunks /\ c \in 0 .. NumChunks
    BY <1>2 DEF Chunks
  <2>4. c # NumChunks => off[c] < off[NumChunks]
    BY <1>2, <2>1, <2>2, <2>3, OffGrows
  <2>5. PICK x \in Nat, y \in Nat : x = off[c] /\ y = off[NumChunks]
    BY <2>2, <2>3
  <2>6. y <= x
    BY <1>5, <1>7, <2>5
  <2>7. QED
    BY <2>4, <2>5, <2>6
<1>9. /\ LastOf(file, NumChunks) \in DOMAIN heap
      /\ heap[LastOf(file, NumChunks)].blk.hash = LastHash(file, NumChunks)
  BY <1>2, <1>3, ReadToTheEnd DEF MergeComplete
<1>10. QED
  BY <1>6, <1>7, <1>8, <1>9

\* There is no report before the end, and there is one step to the end.
LEMMA OneEnd ==
    ASSUME ChainInv, [Next]_vars, NEW off, NEW bal, Right(off, bal)
    PROVE  /\ mainPc = "done" => UNCHANGED vars
           /\ (mainPc # "done" /\ mainPc' = "done") => PrintReport
<1>1. ASSUME mainPc = "done" PROVE UNCHANGED vars
  <2>1. ASSUME NEW c \in Chunks PROVE pc[c] = "none"
    <3>1. ~slots[Tid(c)].running
      BY <1>1 DEF ChainInv, IInv, SlotsInStep, SlotInStep, Collected, Running
    <3>2. life[Tid(c)] = "none"
      BY <3>1, ManagerFacts DEF ChainInv
    <3>3. QED
      BY <1>1, <3>2 DEF ChainInv, IInv, ThreadsAreAlive, Running
  <2>2. \A c \in Chunks : ~ReadChunk(c)
    BY <2>1 DEF ReadChunk, ParseBlock, ParseAborts, Lock, InsertHead,
         FinishChunk, InsertTail, ExitThread, Move
  <2>3. ~Main
    BY <1>1 DEF Main, CreateThread, LaunchThread, WaitThread, DeleteManager,
         LinkHead, NoPredecessor, AllLinked, ScanTail, PrintReport
  <2>4. QED
    BY <2>2, <2>3 DEF Next, Ended
<1>2. ASSUME mainPc # "done", mainPc' = "done", ~PrintReport PROVE FALSE
  <2>1. mainPc # "aborted"
    BY DEF Right
  <2>2. ~Ended /\ ~UNCHANGED vars
    BY <1>2, <2>1 DEF Ended, vars
  <2>3. ~(\E c \in Chunks : ReadChunk(c))
    BY <1>2, Zenon DEF ReadChunk, ParseBlock, ParseAborts, Lock, InsertHead,
         FinishChunk, InsertTail, ExitThread
  <2>4. ~Main
    BY <1>2, Zenon DEF Main, CreateThread, LaunchThread, WaitThread, DeleteManager,
         LinkHead, NoPredecessor, AllLinked, ScanTail
  <2>5. QED
    BY <2>2, <2>3, <2>4 DEF Next
<1>3. QED
  BY <1>1, <1>2

\* What the report is, and what it is after a step.
LEMMA ReportIs ==
    /\ mainPc \notin {"done", "aborted"} => report = Reading!NoReport
    /\ (mainPc = "done" /\ valid /\ best.id # NoBlock) =>
          report = [status |-> "tip", hash |-> heap[best.id].blk.hash,
                    length |-> best.length]
  BY DEF report, Reading!NoReport, Reading!Report

\* The same after a step.
LEMMA NextReportIs ==
    /\ mainPc' \notin {"done", "aborted"} => report' = Reading!NoReport
    /\ (mainPc' = "done" /\ valid' /\ best'.id # NoBlock) =>
          report' = [status |-> "tip", hash |-> heap'[best'.id].blk.hash,
                     length |-> best'.length]
  BY DEF report, Reading!NoReport, Reading!Report

\* The step of main that reports is the step of the abstract reader.
LEMMA RightFinish ==
    ASSUME HashesAreNew, ChainInv, FileRight, FileRight', [Next]_vars, NumChunks # 0
    PROVE  [Reading!Finish]_(Reading!readingVars)
<1>1. PICK off, bal : Right(off, bal)
  BY DEF FileRight
<1>2. mainPc # "aborted" /\ valid /\ file' = file
  BY <1>1, FileStays DEF Right
<1>3. mainPc' # "aborted"
  BY DEF FileRight, Right
<1>4. CASE mainPc = "done"
  <2>1. UNCHANGED vars
    BY <1>1, <1>4, OneEnd
  <2>2. report' = report
    BY <2>1 DEF report, vars, mergeVars
  <2>3. QED
    BY <1>2, <2>2 DEF Reading!readingVars
<1>5. CASE mainPc # "done" /\ mainPc' # "done"
  <2>1. report = Reading!NoReport /\ report' = Reading!NoReport
    BY <1>2, <1>3, <1>5, ReportIs, NextReportIs
  <2>2. QED
    BY <1>2, <2>1 DEF Reading!readingVars
<1>6. CASE mainPc # "done" /\ mainPc' = "done"
  <2>1. PrintReport
    BY <1>1, <1>6, OneEnd
  <2>2. /\ mainPc = "scan" /\ scanned = DOMAIN tails
        /\ valid' = valid /\ best' = best /\ heap' = heap
    BY <2>1 DEF PrintReport, mergeVars
  <2>3. /\ best.id # NoBlock
        /\ heap[best.id].blk.hash = LastHash(file, NumChunks)
        /\ best.length = off[NumChunks]
    BY <1>1, <2>2, BestIsLast
  <2>4. report' = [status |-> "tip", hash |-> LastHash(file, NumChunks),
                   length |-> off[NumChunks]]
    BY <1>2, <1>6, <2>2, <2>3, NextReportIs
  <2>5. report' = Reading!Sequential(file)
    BY <1>1, <2>4 DEF Right, IsRight
  <2>6. report = Reading!NoReport
    BY <2>2, ReportIs
  <2>7. report'.status # Reading!NoReport.status
    BY <2>4 DEF Reading!NoReport, Reading!Report
  <2>8. report' \in Reading!Allowed(file)
    BY <2>5 DEF Reading!Allowed, FileRight
  <2>9. QED
    BY <1>2, <2>6, <2>7, <2>8 DEF Reading!Finish
<1>7. QED
  BY <1>4, <1>5, <1>6

\* A file that rewritechain can have written is reported as the sequential
\* reader reports it, whatever the order of the threads.
THEOREM ChainsAreReported ==
    ASSUME HashesAreNew, FilesAreParsed, NumChunks \in 1 .. MAX_THREADS
    PROVE  Spec /\ Reading!WellIndexed(file) => ImplementsChainReading
<1>1. NumChunks # 0
  OBVIOUS
<1>2. Init /\ Reading!WellIndexed(file) => FileRight /\ Reading!Init
  <2> SUFFICES ASSUME Init, Reading!WellIndexed(file)
               PROVE  FileRight /\ Reading!Init
    OBVIOUS
  <2>1. FileRight
    BY InitRight
  <2>2. mainPc = "create"
    BY DEF Init, TM!Init
  <2>3. QED
    BY <2>1, <2>2, ReportIs DEF Reading!Init
<1>3. ChainInv /\ FileRight /\ [Next]_vars => FileRight'
  BY FileRightStep
<1>4. ChainInv /\ FileRight /\ FileRight' /\ [Next]_vars =>
          [Reading!Finish]_(Reading!readingVars)
  BY <1>1, RightFinish
<1>5. QED
  BY ChainInvariance, <1>2, <1>3, <1>4, PTL DEF Spec, ImplementsChainReading, Reading!Spec

=============================================================================
