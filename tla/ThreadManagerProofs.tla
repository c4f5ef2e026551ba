------------------------- MODULE ThreadManagerProofs -------------------------
(***************************************************************************)
(* Proofs about ThreadManager for every number of slots, with and without  *)
(* stacks of their own; and about the reader of day3, which has a thread   *)
(* for each chunk, for every number of chunks and all files.               *)
(***************************************************************************)
EXTENDS ThreadManager, OldReaders, LedgerProofs

\* A slot has a function only while it is used, and then a stack if the
\* manager is secure; a slot that is running has a function.
SlotsSane ==
    \A t \in Tids :
        /\ slots[t].thfunc => slots[t].used /\ (Secure => slots[t].stack)
        /\ slots[t].running => slots[t].thfunc

\* The loop of wait() leaves nothing running behind its counter, nor does the
\* destructor.
Joining ==
    /\ phase \in {"waiting", "destroying"} =>
          \A t \in Tids : t < cursor => ~slots[t].running
    /\ phase = "closed" => \A t \in Tids : ~slots[t].running

\* The inductive invariant.
IInv == TypeOK /\ RunningMeansUnjoined /\ SlotsSane /\ Joining

-----------------------------------------------------------------------------

LEMMA InitInv == Init => IInv
<1> SUFFICES ASSUME Init PROVE IInv
  OBVIOUS
<1> USE ManagerAssumption
<1>1. NumThreads \in Nat
  OBVIOUS
<1>2. TypeOK
  BY <1>1 DEF Init, TypeOK, Tids, FreeSlot
<1>3. RunningMeansUnjoined /\ SlotsSane
  BY DEF Init, RunningMeansUnjoined, SlotsSane, FreeSlot
<1>4. Joining
  BY DEF Init, Joining, FreeSlot
<1>5. QED
  BY <1>2, <1>3, <1>4 DEF IInv

\* The types, action by action.
LEMMA TypeStep == IInv /\ [Next]_managerVars => TypeOK'
<1> SUFFICES ASSUME TypeOK, [Next]_managerVars PROVE TypeOK'
  BY DEF IInv
<1> USE ManagerAssumption DEF TypeOK
<1>1. CASE CreateBusy
  BY <1>1 DEF CreateBusy
<1>2. ASSUME NEW tid \in Free, CreateSlot(tid) PROVE TypeOK'
  <2>1. tid \in Tids
    BY DEF Free
  <2>2. QED
    BY <1>2, <2>1 DEF CreateSlot, Created
<1>3. CASE phase = "open" /\ Abort
  BY <1>3 DEF Abort
<1>4. ASSUME NEW tid \in Tids, Launch(tid) PROVE TypeOK'
  BY <1>4 DEF Launch
<1>5. ASSUME NEW tid \in Tids, Wait(tid) PROVE TypeOK'
  BY <1>5 DEF Wait, Joined
<1>6. ASSUME NEW tid \in Tids, ThreadExit(tid) PROVE TypeOK'
  BY <1>6 DEF ThreadExit
<1>7. CASE WaitAllStart \/ Destroy
  BY <1>7 DEF WaitAllStart, Destroy
<1>8. CASE WaitAllSkip
  BY <1>8 DEF WaitAllSkip, Tids
<1>9. CASE WaitAllJoin
  <2>1. cursor' \in 0 .. NumThreads
    BY <1>9 DEF WaitAllJoin, Tids
  <2>2. QED
    BY <1>9, <2>1 DEF WaitAllJoin, Joined
<1>10. CASE WaitAllEnd
  BY <1>10 DEF WaitAllEnd
<1>11. CASE UNCHANGED managerVars
  BY <1>11 DEF managerVars
<1>12. QED
  BY <1>1, <1>2, <1>3, <1>4, <1>5, <1>6, <1>7, <1>8, <1>9, <1>10, <1>11
  DEF Next, Create, CreateAborts, LaunchAborts, WaitAborts, WaitAll, Gone

\* A slot and its thread change together.
LEMMA RunningStep == IInv /\ [Next]_managerVars => RunningMeansUnjoined'
<1> SUFFICES ASSUME IInv, [Next]_managerVars,
                    NEW t \in Tids
             PROVE  (slots[t].running <=> life[t] # "none")'
  BY DEF RunningMeansUnjoined
<1> USE DEF IInv, TypeOK, RunningMeansUnjoined
<1>1. CASE UNCHANGED <<slots, life>>
  BY <1>1
<1>2. ASSUME NEW tid \in Free, CreateSlot(tid)
      PROVE  (slots[t].running <=> life[t] # "none")'
  BY <1>2 DEF CreateSlot, Created, Free
<1>3. ASSUME NEW tid \in Tids, Launch(tid)
      PROVE  (slots[t].running <=> life[t] # "none")'
  BY <1>3 DEF Launch
<1>4. ASSUME NEW tid \in Tids, Wait(tid)
      PROVE  (slots[t].running <=> life[t] # "none")'
  BY <1>4 DEF Wait, Joined
<1>5. ASSUME NEW tid \in Tids, ThreadExit(tid)
      PROVE  (slots[t].running <=> life[t] # "none")'
  BY <1>5 DEF ThreadExit
<1>6. CASE WaitAllJoin
  BY <1>6 DEF WaitAllJoin, Joined
<1>7. QED
  BY <1>1, <1>2, <1>3, <1>4, <1>5, <1>6
  DEF Next, Create, CreateBusy, CreateAborts, LaunchAborts, WaitAborts, Abort,
      WaitAllStart, Destroy, WaitAll, WaitAllSkip, WaitAllEnd, Gone,
      managerVars

\* create makes function, used and stack together, wait takes the function
\* and the stack together.
LEMMA SlotsStep == IInv /\ [Next]_managerVars => SlotsSane'
<1> DEFINE Sane(t) ==
        /\ slots[t].thfunc => slots[t].used /\ (Secure => slots[t].stack)
        /\ slots[t].running => slots[t].thfunc
<1> SUFFICES ASSUME IInv, [Next]_managerVars, NEW t \in Tids
             PROVE  Sane(t)'
  BY DEF SlotsSane
<1>1. Sane(t)
  BY DEF IInv, SlotsSane
<1> USE ManagerAssumption DEF IInv, TypeOK
<1>2. CASE UNCHANGED slots
  BY <1>1, <1>2
<1>3. ASSUME NEW tid \in Free, CreateSlot(tid) PROVE Sane(t)'
  BY <1>1, <1>3 DEF CreateSlot, Created, Free
<1>4. ASSUME NEW tid \in Tids, Launch(tid) PROVE Sane(t)'
  BY <1>1, <1>4 DEF Launch, MayLaunch
<1>5. ASSUME NEW tid \in Tids, Wait(tid) PROVE Sane(t)'
  BY <1>1, <1>5 DEF Wait, Joined
<1>6. CASE WaitAllJoin
  BY <1>1, <1>6 DEF WaitAllJoin, Joined
<1>7. QED
  BY <1>2, <1>3, <1>4, <1>5, <1>6
  DEF Next, Create, CreateBusy, CreateAborts, LaunchAborts, WaitAborts, Abort,
      WaitAllStart, Destroy, WaitAll, WaitAllSkip, WaitAllEnd, ThreadExit,
      Gone, managerVars

\* Nothing is launched while the loop runs, so what it has passed stays
\* joined.
LEMMA JoiningStep == IInv /\ [Next]_managerVars => Joining'
<1> SUFFICES ASSUME IInv, [Next]_managerVars PROVE Joining'
  OBVIOUS
<1> USE ManagerAssumption DEF IInv, TypeOK
<1>1. CASE UNCHANGED <<slots, phase, cursor>>
  BY <1>1 DEF Joining
<1>2. CASE phase' \in {"open", "aborted"}
  BY <1>2 DEF Joining
<1>3. CASE WaitAllStart \/ Destroy
  BY <1>3 DEF WaitAllStart, Destroy, Joining, Tids
<1>4. CASE WaitAllSkip
  BY <1>4 DEF WaitAllSkip, Joining, Tids
<1>5. CASE WaitAllJoin
  <2>1. phase \in {"waiting", "destroying"} /\ phase' = phase
    BY <1>5 DEF WaitAllJoin
  <2>2. \A t \in Tids : t < cursor' => ~slots'[t].running
    <3> SUFFICES ASSUME NEW t \in Tids, t < cursor' PROVE ~slots'[t].running
      OBVIOUS
    <3>1. CASE t = cursor
      BY <1>5, <3>1 DEF WaitAllJoin, Joined
    <3>2. CASE t # cursor
      <4>1. t < cursor
        BY <1>5, <3>2 DEF WaitAllJoin, Tids
      <4>2. QED
        BY <1>5, <3>2, <4>1 DEF WaitAllJoin, Joining
    <3>3. QED
      BY <3>1, <3>2
  <2>3. QED
    BY <2>1, <2>2 DEF Joining
<1>6. CASE WaitAllEnd
  <2>1. \A t \in Tids : t < cursor
    BY <1>6 DEF WaitAllEnd, Tids
  <2>2. QED
    BY <1>6, <2>1 DEF WaitAllEnd, Joining
<1>7. QED
  BY <1>1, <1>2, <1>3, <1>4, <1>5, <1>6
  DEF Next, Create, CreateBusy, CreateSlot, CreateAborts, LaunchAborts,
      Launch, Wait, WaitAborts, Abort, WaitAll, ThreadExit, Gone, managerVars

\* The invariant holds in every reachable state.
THEOREM Invariance == Spec => []IInv
<1>1. IInv /\ [Next]_managerVars => IInv'
  BY TypeStep, RunningStep, SlotsStep, JoiningStep DEF IInv
<1>2. QED
  BY InitInv, <1>1, PTL DEF Spec

-----------------------------------------------------------------------------

\* The table of slots keeps its form (os.h:124-133).
THEOREM TypeCorrect == Spec => []TypeOK
<1>1. IInv => TypeOK
  BY DEF IInv
<1>2. QED
  BY Invariance, <1>1, PTL

\* running is TRUE exactly from pthread_create to pthread_join
\* (os.cpp:232-265).
THEOREM RunningIsUnjoined == Spec => []RunningMeansUnjoined
<1>1. IInv => RunningMeansUnjoined
  BY DEF IInv
<1>2. QED
  BY Invariance, <1>1, PTL

\* A slot whose thread runs is never free: create cannot hand it out, and
\* assert(th->used) of line 272 holds (os.cpp:201-210, 272).
THEOREM RunningSlotIsUsed == Spec => []RunningIsUsed
<1>1. IInv => RunningIsUsed
  BY DEF IInv, SlotsSane, RunningIsUsed
<1>2. QED
  BY Invariance, <1>1, PTL

\* A secure thread is unmapped only after it was joined (os.cpp:258-261).
THEOREM StackIsKept == Spec => []StackOutlivesThread
<1>1. IInv => StackOutlivesThread
  BY DEF IInv, SlotsSane, RunningMeansUnjoined, StackOutlivesThread
<1>2. QED
  BY Invariance, <1>1, PTL

\* After the destructor no thread of the manager exists (os.cpp:280-287).
THEOREM DestructorJoinsAll == Spec => []NoThreadLeft
<1>1. IInv => NoThreadLeft
  BY DEF IInv, Joining, RunningMeansUnjoined, NoThreadLeft
<1>2. QED
  BY Invariance, <1>1, PTL

\* No call of the manager changes the slot of a live thread.
THEOREM LiveSlotsStay == Spec => LiveSlotsUntouched
<1>1. IInv /\ [Next]_managerVars =>
        [\A t \in Tids : life[t] = "alive" => slots'[t] = slots[t]]_managerVars
  <2> SUFFICES ASSUME IInv, Next,
                      NEW t \in Tids, life[t] = "alive"
               PROVE  slots'[t] = slots[t]
    OBVIOUS
  <2>1. slots[t].running /\ slots[t].used
    BY DEF IInv, RunningMeansUnjoined, SlotsSane
  <2> USE DEF IInv, TypeOK
  <2>2. CASE UNCHANGED slots
    BY <2>2
  <2>3. ASSUME NEW tid \in Free, CreateSlot(tid) PROVE slots'[t] = slots[t]
    BY <2>1, <2>3 DEF CreateSlot, Created, Free
  <2>4. ASSUME NEW tid \in Tids, Launch(tid) PROVE slots'[t] = slots[t]
    BY <2>1, <2>4 DEF Launch, MayLaunch
  <2>5. ASSUME NEW tid \in Tids, Wait(tid) PROVE slots'[t] = slots[t]
    BY <2>5 DEF Wait
  <2>6. CASE WaitAllJoin
    BY <2>6 DEF WaitAllJoin
  <2>7. QED
    BY <2>2, <2>3, <2>4, <2>5, <2>6
    DEF Next, Create, CreateBusy, CreateAborts, LaunchAborts, WaitAborts,
        Abort, WaitAllStart, Destroy, WaitAll, WaitAllSkip, WaitAllEnd,
        ThreadExit, Gone, managerVars
<1>2. QED
  BY Invariance, <1>1, PTL DEF Spec, LiveSlotsUntouched

-----------------------------------------------------------------------------
(* The readers of day1 and day3: what a thread has read.                    *)

\* The part of a chunk that parses is a sequence.
LEMMA ParsedIsCounted ==
    ASSUME NEW S, NEW blocks \in Seq(S)
    PROVE  \E n \in Nat : DOMAIN Parsed(blocks) = 1 .. n
<1> DEFINE T == S \cup {Truncated}
           all == blocks \o <<Truncated>>
           I == {i \in 1 .. Len(all) : all[i] = Truncated}
<1>1. all \in Seq(T) /\ Len(all) = Len(blocks) + 1 /\ Len(blocks) \in Nat
  <2>1. blocks \in Seq(T) /\ <<Truncated>> \in Seq(T) /\ Len(<<Truncated>>) = 1
    OBVIOUS
  <2>2. QED
    BY <2>1, ConcatSeq
<1>2. Len(all) \in I
  <2>1. blocks \in Seq(T) /\ <<Truncated>> \in Seq(T) /\ Len(<<Truncated>>) = 1
        /\ <<Truncated>>[1] = Truncated /\ 1 \in 1 .. Len(<<Truncated>>)
    OBVIOUS
  <2>2. all[Len(blocks) + 1] = Truncated
    BY <2>1, ConcatSeq
  <2>3. QED
    BY <1>1, <2>2
<1>3. Min(I) \in I
  <2>1. \E x \in I : \A y \in I : x <= y
    <3> DEFINE J == {k \in 0 .. Len(all) :
                       (\E x \in I : x <= k) => \E x \in I : \A y \in I : x <= y}
    <3> HIDE DEF all
    <3>1. 0 \in J
      BY <1>1
    <3>2. ASSUME NEW k \in 0 .. Len(all) - 1, k \in J PROVE k + 1 \in J
      <4>1. k + 1 \in 0 .. Len(all) /\ k \in Int
        BY <1>1, <3>2
      <4>2. CASE \E x \in I : x <= k
        BY <3>2, <4>1, <4>2
      <4>3. CASE ~\E x \in I : x <= k
        BY <1>1, <4>1, <4>3
      <4>4. QED
        BY <4>2, <4>3
    <3>3. Len(all) \in Nat
      BY <1>1
    <3> HIDE DEF J
    <3>4. 0 .. Len(all) \subseteq J
      BY <3>1, <3>2, <3>3, PrefixInduction
    <3>5. Len(all) \in 0 .. Len(all)
      BY <3>3
    <3>6. QED
      BY <1>2, <3>3, <3>4, <3>5 DEF J
  <2> HIDE DEF I
  <2>2. QED
    BY <2>1 DEF Min
<1>4. SelectInSeq(all, LAMBDA blk : blk = Truncated) = Min(I)
  BY <1>2 DEF SelectInSeq
<1>5. Min(I) - 1 \in 0 .. Len(blocks)
  <2>1. PICK m : m = Min(I)
    OBVIOUS
  <2>2. m \in 1 .. Len(all)
    BY <1>3, <2>1
  <2>3. m - 1 \in 0 .. Len(blocks)
    BY <1>1, <2>2
  <2>4. QED
    BY <2>1, <2>3
<1>6. DOMAIN SubSeq(blocks, 1, Min(I) - 1) = 1 .. Min(I) - 1
  <2> HIDE DEF I
  <2>1. QED
    BY <1>5
<1>7. Parsed(blocks) = SubSeq(blocks, 1, Min(I) - 1)
  <2>1. Parsed(blocks) = SubSeq(blocks, 1, SelectInSeq(all, LAMBDA blk : blk = Truncated) - 1)
    BY <1>2 DEF Parsed, SelectInSeq, Min
  <2> HIDE DEF I
  <2>2. QED
    BY <1>4, <2>1
<1>8. PICK n : n = Min(I) - 1
  OBVIOUS
<1>9. n \in Nat /\ DOMAIN Parsed(blocks) = 1 .. n
  <2> HIDE DEF I
  <2>1. QED
    BY <1>5, <1>6, <1>7, <1>8
<1>10. QED
  BY <1>9

\* A fold over indices has a value on every set of them, whatever it makes of
\* them.
ReadSets(rd, c, before, s, k, g) ==
    [t \in SUBSET (1 .. k) |->
        IF t = {} THEN NothingRead
        ELSE ReadOne(rd, c, before, g[t \ {Max(t)}], s[Max(t)])]

LEMMA ReadsExist ==
    ASSUME NEW n \in Nat, NEW rd, NEW c, NEW before, NEW s
    PROVE  \E g : g = ReadSets(rd, c, before, s, n, g)
<1> USE DEF ReadSets
<1> DEFINE Body(g, k) == ReadSets(rd, c, before, s, k, g)
           S == {k \in 0 .. n : \E g : g = Body(g, k)}
<1>1. 0 \in S
  <2> DEFINE g == [t \in SUBSET (1 .. 0) |-> NothingRead]
  <2>1. \A t \in SUBSET (1 .. 0) : t = {}
    OBVIOUS
  <2>2. g = Body(g, 0)
    BY <2>1
  <2>3. 0 \in 0 .. n
    OBVIOUS
  <2> HIDE DEF g
  <2>4. QED
    BY <2>2, <2>3
<1>2. ASSUME NEW k \in 0 .. n - 1, k \in S PROVE k + 1 \in S
  <2>1. PICK g : g = Body(g, k)
    BY <1>2
  <2>2. k \in Nat /\ k + 1 \in 0 .. n /\ k + 1 \in Nat
    BY <1>2
  <2> DEFINE h == Body(g, k + 1)
  <2>3. ASSUME NEW t \in SUBSET (1 .. k) PROVE h[t] = g[t]
    <3>1. t \in SUBSET (1 .. k + 1)
      BY <2>2
    <3>2. QED
      BY <2>1, <3>1
  <2>4. ASSUME NEW t \in SUBSET (1 .. k + 1), t # {}
        PROVE  t \ {Max(t)} \in SUBSET (1 .. k)
    <3>1. Max(t) \in t /\ \A i \in t : i <= Max(t)
      BY <2>2, <2>4, MaxExists
    <3>2. PICK m : m = Max(t)
      OBVIOUS
    <3>3. m \in 1 .. k + 1 /\ \A i \in t : i \in 1 .. k + 1 /\ i <= m
      BY <2>4, <3>1, <3>2
    <3>4. \A i \in 1 .. k + 1 : i <= m /\ i # m => i \in 1 .. k
      BY <2>2, <3>3
    <3>5. QED
      BY <3>2, <3>3, <3>4
  <2>5. ASSUME NEW t \in SUBSET (1 .. k + 1)
        PROVE  h[t] = IF t = {} THEN NothingRead
                      ELSE ReadOne(rd, c, before, h[t \ {Max(t)}], s[Max(t)])
    BY <2>3, <2>4
  <2>6. h = [t \in SUBSET (1 .. k + 1) |-> h[t]]
    OBVIOUS
  <2> HIDE DEF h
  <2>7. h = Body(h, k + 1)
    BY <2>5, <2>6
  <2>8. QED
    BY <2>2, <2>7
<1>3. n \in S
  <2> HIDE DEF S
  <2>1. QED
    BY <1>1, <1>2, PrefixInduction
<1>4. QED
  BY <1>3

Reads(rd, c, before, s, k) == CHOOSE g : g = ReadSets(rd, c, before, s, k, g)

LEMMA ReadsEquation ==
    ASSUME NEW n \in Nat, NEW rd, NEW c, NEW before, NEW s
    PROVE  Reads(rd, c, before, s, n) =
              ReadSets(rd, c, before, s, n, Reads(rd, c, before, s, n))
<1>1. \E g : g = ReadSets(rd, c, before, s, n, g)
  BY ReadsExist
<1>2. QED
  BY <1>1 DEF Reads

\* The last block a chunk accepts is one of its own.
LEMMA TipIsOwn ==
    ASSUME NEW rd, NEW c, NEW before, NEW S, NEW blocks \in Seq(S)
    PROVE  LET r == ReadBlocks(rd, c, before, blocks)
           IN  r.tip = NoBlock \/ r.tip[1] = c
<1>0. PICK s : s = Parsed(blocks)
  OBVIOUS
<1>1. PICK n \in Nat : DOMAIN s = 1 .. n
  BY <1>0, ParsedIsCounted
<1> DEFINE h == Reads(rd, c, before, s, n)
<1>2. h = ReadSets(rd, c, before, s, n, h)
  BY ReadsEquation
<1>3. ReadBlocks(rd, c, before, blocks) = h[1 .. n]
  <2>1. ReadBlocks(rd, c, before, blocks) =
          (CHOOSE g : g = [t \in SUBSET DOMAIN Parsed(blocks) |->
                             IF t = {} THEN NothingRead
                             ELSE ReadOne(rd, c, before, g[t \ {Max(t)}],
                                          Parsed(blocks)[Max(t)])])
            [DOMAIN Parsed(blocks)]
    BY Zenon DEF ReadBlocks, FoldLeft, MapThenFoldSet, Max
  <2>2. QED
    BY <1>0, <1>1, <2>1, Zenon DEF Reads, ReadSets
<1> HIDE DEF h
<1> DEFINE OwnTip(r) == r.tip = NoBlock \/ r.tip[1] = c
           K == {k \in 0 .. n : OwnTip(h[1 .. k])}
<1>4. 0 \in K
  <2>1. 1 .. 0 = {} /\ 0 \in 0 .. n
    OBVIOUS
  <2>2. h[{}] = NothingRead
    BY <1>2 DEF ReadSets
  <2>3. QED
    BY <2>1, <2>2 DEF NothingRead, NoBlock
<1>5. ASSUME NEW r, NEW blk, OwnTip(r)
      PROVE  OwnTip(ReadOne(rd, c, before, r, blk))
  <2>1. \/ ReadOne(rd, c, before, r, blk).tip = r.tip
        \/ ReadOne(rd, c, before, r, blk).tip = <<c, r.n + 1>>
    BY DEF ReadOne
  <2>2. \A m : <<c, m>>[1] = c
    OBVIOUS
  <2>3. QED
    BY <1>5, <2>1, <2>2
<1>6. ASSUME NEW k \in 0 .. n - 1, k \in K PROVE k + 1 \in K
  <2>1. k + 1 \in 0 .. n /\ k + 1 \in Nat \ {0} /\ (k + 1) - 1 = k
        /\ 1 .. k + 1 \in SUBSET (1 .. n)
    BY <1>6
  <2>2. 1 .. k + 1 # {} /\ Max(1 .. k + 1) = k + 1
        /\ (1 .. k + 1) \ {k + 1} = 1 .. (k + 1) - 1
    BY <2>1, LastIndex
  <2>3. h[1 .. k + 1] = ReadOne(rd, c, before, h[1 .. k], s[k + 1])
    BY <1>2, <2>1, <2>2 DEF ReadSets
  <2>4. QED
    BY <1>5, <1>6, <2>1, <2>3
<1> HIDE DEF K
<1>7. n \in K
  <2>1. 0 .. n \subseteq K
    BY <1>4, <1>6, PrefixInduction
  <2>2. n \in 0 .. n
    OBVIOUS
  <2>3. QED
    BY <2>1, <2>2
<1>8. QED
  BY <1>3, <1>7 DEF K

-----------------------------------------------------------------------------
(* What the threads of day3 enter.                                           *)

\* Where the threads of day3 are, which have no step of their own for heads,
\* and what they have read before they wait to enter it.
OldThreadsInStep ==
    /\ file \in Files
    /\ DOMAIN pc = Chunks
    /\ reader = "day3" => \A c \in Chunks :
          /\ pc[c] \notin {"lockHead", "insertHead"}
          /\ pc[c] \in {"lockTail", "insertTail"} =>
                /\ ReadChunk(c).refused = {}
                /\ ReadChunk(c).tip # NoBlock

\* What is in the containers, also while they are filled.
EnteredWhole(c) ==
    LET r == ReadChunk(c)
    IN  /\ <<c, 1>> \in heads =>
              /\ r.refused = {} /\ HasHead(c, r)
              /\ r.heap[r.tip].blk.hash \in DOMAIN tails
        /\ (\E h \in DOMAIN tails : tails[h][1] = c) =>
              r.refused = {} /\ (<<c, 1>> \in heads <=> HasHead(c, r))

OldInv ==
    /\ OldThreadsInStep
    /\ reader = "day3" => \A c \in Chunks : EnteredWhole(c)

\* The file does not change, so a chunk is always read in the same way.
LEMMA OldFileStays ==
    ASSUME [ReadersNext]_vars
    PROVE  /\ reader' = reader /\ file' = file
           /\ \A c \in Chunks : ReadChunk(c)' = ReadChunk(c)
<1>1. reader' = reader /\ file' = file
  BY DEF ReadersNext, vars, Main, Ended, doReadChunk, Read,
         ReadCrashes, Lock, InsertHead, InsertTail,
         LaunchThread, WaitThread, ParallelFor, Barrier,
         LinkHead, NoPredecessor, AllLinked, ScanTail,
         PrintReport
<1>2. ASSUME NEW c \in Chunks PROVE ReadChunk(c)' = ReadChunk(c)
  BY <1>1 DEF ReadChunk
<1>3. QED
  BY <1>1, <1>2

LEMMA OldTipIsOwn ==
    ASSUME file \in Files, NEW c \in Chunks
    PROVE  ReadChunk(c).tip = NoBlock \/ ReadChunk(c).tip[1] = c
<1>1. file[c].blocks \in Seq(Range(file[c].blocks))
  BY FilesAssumption DEF Chunks
<1>2. PICK before : before = IF c = 1 THEN NoBalances ELSE file[c - 1].map
  OBVIOUS
<1>3. ReadChunk(c) = ReadBlocks(reader, c, before, file[c].blocks)
  BY <1>2 DEF ReadChunk
<1>4. QED
  BY <1>1, <1>3, TipIsOwn

LEMMA OldThreadsStep == OldInv /\ [ReadersNext]_vars => OldThreadsInStep'
<1> SUFFICES ASSUME OldInv, [ReadersNext]_vars PROVE OldThreadsInStep'
  OBVIOUS
<1>1. /\ reader' = reader /\ file' = file
      /\ \A c \in Chunks : ReadChunk(c)' = ReadChunk(c)
  BY OldFileStays
<1>2. OldThreadsInStep
  BY DEF OldInv
<1>3. CASE UNCHANGED pc
  BY <1>1, <1>2, <1>3 DEF OldThreadsInStep, Chunks
<1>4. ASSUME NEW c \in Chunks, Read(c) PROVE OldThreadsInStep'
  <2> DEFINE r == ReadChunk(c)
  <2>1. PICK to : pc' = [pc EXCEPT ![c] = to]
                  /\ (reader = "day3" => /\ to \notin {"lockHead", "insertHead", "insertTail"}
                                         /\ to = "lockTail" => r.refused = {} /\ r.tip # NoBlock)
    BY <1>4 DEF Read, Move, GivenUp, NoBlock
  <2>2. QED
    BY <1>1, <1>2, <2>1 DEF OldThreadsInStep, Chunks
<1>5. ASSUME NEW c \in Chunks, doReadChunk(c), ~Read(c)
      PROVE  OldThreadsInStep'
  <2>1. PICK to : \/ UNCHANGED pc
                  \/ /\ pc' = [pc EXCEPT ![c] = to]
                     /\ \/ to = "exit"
                        \/ reader = "day1"
                        \/ pc[c] = "lockTail" /\ to = "insertTail"
                        \/ pc[c] \in {"lockHead", "insertHead"}
    <3>1. CASE ReadCrashes(c)
      BY <3>1 DEF ReadCrashes
    <3>2. CASE Lock(c, "lockHead", "insertHead")
      BY <3>2 DEF Lock, Move
    <3>3. CASE InsertHead(c)
      <4>1. PICK to : pc' = [pc EXCEPT ![c] = to] /\ pc[c] = "insertHead"
        BY <3>3 DEF InsertHead, Move
      <4>2. QED
        BY <4>1
    <3>4. CASE Lock(c, "lockTail", "insertTail")
      BY <3>4 DEF Lock, Move
    <3>5. CASE InsertTail(c)
      BY <3>5 DEF InsertTail, Move
    <3>6. QED
      BY <1>5, <3>1, <3>2, <3>3, <3>4, <3>5 DEF doReadChunk
  <2>2. reader # "day3" => DOMAIN pc' = Chunks
    BY <1>2, <2>1 DEF OldThreadsInStep
  <2>3. QED
    BY <1>1, <1>2, <2>1, <2>2 DEF OldThreadsInStep, Chunks
<1>6. CASE LaunchThread
  BY <1>1, <1>2, <1>6 DEF LaunchThread, OldThreadsInStep, Chunks
<1>7. CASE ParallelFor
  BY <1>1, <1>2, <1>7 DEF ParallelFor, OldThreadsInStep, Chunks
<1>8. QED
  <2>1. \/ UNCHANGED pc \/ LaunchThread \/ ParallelFor
        \/ \E c \in Chunks : doReadChunk(c)
    BY DEF ReadersNext, vars, Main, Ended,
           WaitThread, Barrier, LinkHead, NoPredecessor,
           AllLinked, ScanTail, PrintReport
  <2>2. QED
    BY <1>3, <1>4, <1>5, <1>6, <1>7, <2>1

\* Entering a tail enters the whole chunk and disturbs no other one.
LEMMA InsertTailWhole ==
    ASSUME OldInv, reader = "day3", NEW c \in Chunks, InsertTail(c),
           NEW d \in Chunks
    PROVE  EnteredWhole(d)'
<1>1. ReadChunk(d)' = ReadChunk(d)
  <2>1. reader' = reader /\ file' = file
    BY DEF InsertTail
  <2>2. QED
    BY <2>1 DEF ReadChunk
<1>2. PICK r : r = ReadChunk(c)
  OBVIOUS
<1>3. r.refused = {} /\ r.tip[1] = c
  <2>1. pc[c] = "insertTail"
    BY DEF InsertTail, Move
  <2>2. QED
    BY <1>2, <2>1, OldTipIsOwn DEF OldInv, OldThreadsInStep
<1>4. PICK hash : hash = r.heap[r.tip].blk.hash
  OBVIOUS
<1>5. /\ DOMAIN tails' = DOMAIN tails \cup {hash}
      /\ tails'[hash] = r.tip
      /\ \A h \in DOMAIN tails \ {hash} : tails'[h] = tails[h]
      /\ heads' = IF HasHead(c, r) THEN heads \cup {<<c, 1>>} ELSE heads
  BY <1>2, <1>4 DEF InsertTail, Put
<1>6. EnteredWhole(d)
  BY DEF OldInv
<1>7. CASE d = c
  <2>1. /\ <<c, 1>> \in heads' => HasHead(c, r)
        /\ HasHead(c, r) => <<c, 1>> \in heads'
    BY <1>2, <1>5, <1>6, <1>7 DEF EnteredWhole
  <2>2. QED
    BY <1>1, <1>2, <1>3, <1>4, <1>5, <1>7, <2>1 DEF EnteredWhole, HasHead
<1>8. CASE d # c
  <2>1. <<d, 1>> \in heads' <=> <<d, 1>> \in heads
    BY <1>5, <1>8
  <2>2. (\E h \in DOMAIN tails' : tails'[h][1] = d)
           => \E h \in DOMAIN tails : tails[h][1] = d
    BY <1>3, <1>5, <1>8
  <2>3. QED
    BY <1>1, <1>5, <1>6, <2>1, <2>2 DEF EnteredWhole, HasHead
<1>9. QED
  BY <1>7, <1>8

LEMMA EnteredWholeStep ==
    OldInv /\ [ReadersNext]_vars
       => (reader' = "day3" => \A c \in Chunks : EnteredWhole(c)')
<1> SUFFICES ASSUME OldInv, [ReadersNext]_vars, reader' = "day3",
                    NEW d \in Chunks
             PROVE  EnteredWhole(d)'
  OBVIOUS
<1>1. /\ reader' = reader /\ file' = file
      /\ \A c \in Chunks : ReadChunk(c)' = ReadChunk(c)
  BY OldFileStays
<1>2. CASE UNCHANGED <<heads, tails>>
  BY <1>1, <1>2 DEF OldInv, EnteredWhole, HasHead
<1>3. ASSUME NEW c \in Chunks, InsertTail(c) PROVE EnteredWhole(d)'
  BY <1>1, <1>3, InsertTailWhole
<1>4. \A c \in Chunks : ~InsertHead(c)
  BY <1>1 DEF OldInv, OldThreadsInStep, InsertHead, Move
<1>5. QED
  <2>1. UNCHANGED <<heads, tails>> \/ \E c \in Chunks : InsertTail(c)
    BY <1>4 DEF ReadersNext, vars, Main, Ended, doReadChunk, Read,
         ReadCrashes, Lock,
         LaunchThread, WaitThread, ParallelFor, Barrier,
         LinkHead, NoPredecessor, AllLinked, ScanTail,
         PrintReport
  <2>2. QED
    BY <1>2, <1>3, <2>1

\* Whatever the chunks hold and in whichever order the threads of day3 enter
\* what they have read, a chunk counts whole or not at all
\* (day3 readindexed.cpp:88-135).
THEOREM ChunksAreWhole == ReadersSpec => []ChunkIsWhole
<1>1. ReadersInit => OldInv
  <2> SUFFICES ASSUME ReadersInit PROVE OldInv
    OBVIOUS
  <2>1. OldThreadsInStep
    BY DEF ReadersInit, OldThreadsInStep, Chunks
  <2>2. \A c \in Chunks : EnteredWhole(c)
    <3>1. heads = {} /\ DOMAIN tails = {}
      BY DEF ReadersInit, NoMap
    <3>2. QED
      BY <3>1 DEF EnteredWhole
  <2>3. QED
    BY <2>1, <2>2 DEF OldInv
<1>2. OldInv /\ [ReadersNext]_vars => OldInv'
  <2>1. Chunks' = Chunks
    BY DEF Chunks
  <2>2. QED
    BY <2>1, OldThreadsStep, EnteredWholeStep DEF OldInv
<1>3. OldInv => ChunkIsWhole
  BY DEF OldInv, EnteredWhole, ChunkIsWhole
<1>4. QED
  BY <1>1, <1>2, <1>3, PTL DEF ReadersSpec

=============================================================================
