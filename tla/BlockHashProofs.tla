--------------------------- MODULE BlockHashProofs ---------------------------
(***************************************************************************)
(* Proofs about BlockHash for every file, block size and number of         *)
(* threads: types, mutual exclusion, the claims of the threads, the        *)
(* printed table, and the implementation of BlockHashing.                  *)
(***************************************************************************)
EXTENDS BlockHash, TLAPS

-----------------------------------------------------------------------------
(* Facts about the sizes.                                                   *)

\* Products with a natural number are monotone.
LEMMA MulMono ==
    ASSUME NEW a \in Nat, NEW b \in Nat, NEW c \in Nat, a <= b
    PROVE  a * c <= b * c
<1> DEFINE d == b - a
<1>1. d \in Nat /\ b = a + d
  OBVIOUS
<1>2. b * c = a * c + d * c /\ d * c \in Nat /\ a * c \in Nat
  BY <1>1
<1> HIDE DEF d
<1>3. QED
  BY <1>1, <1>2

\* The table has an entry with index b exactly when the file has a byte of
\* block b (lines 101-103).
LEMMA BlockCount ==
    ASSUME NEW b \in Nat
    PROVE  /\ HashCount \in Nat \ {0}
           /\ b * BlockSize < Size <=> b < HashCount
<1> DEFINE q == Size \div BlockSize
           r == Size % BlockSize
<1>1. q \in Nat /\ r \in Nat /\ r < BlockSize /\ Size = BlockSize * q + r
  BY SizeAssumption
<1>2. HashCount = q + (IF r # 0 THEN 1 ELSE 0)
  BY DEF HashCount
<1> HIDE DEF q, r
<1>3. HashCount \in Nat
  BY <1>1, <1>2
<1>4. HashCount # 0
  <2>1. SUFFICES ASSUME q = 0, r = 0 PROVE FALSE
    BY <1>1, <1>2
  <2>2. Size = BlockSize * 0 + 0
    BY <1>1, <2>1
  <2>3. QED
    BY <2>2, SizeAssumption
<1>5. q * BlockSize = BlockSize * q /\ q * BlockSize \in Nat
  BY <1>1, SizeAssumption
<1>6. (q + 1) * BlockSize = q * BlockSize + BlockSize
  BY <1>1, SizeAssumption
<1>7. b * BlockSize \in Nat
  BY SizeAssumption
<1>8. CASE b < q
  <2>1. (b + 1) * BlockSize <= q * BlockSize
    BY <1>1, <1>8, MulMono, SizeAssumption
  <2>2. (b + 1) * BlockSize = b * BlockSize + BlockSize
    BY SizeAssumption
  <2>3. QED
    BY <1>1, <1>2, <1>3, <1>4, <1>5, <1>7, <1>8, <2>1, <2>2, SizeAssumption
<1>9. CASE b = q
  BY <1>1, <1>2, <1>3, <1>4, <1>5, <1>9, SizeAssumption
<1>10. CASE b > q
  <2>1. (q + 1) * BlockSize <= b * BlockSize
    BY <1>1, <1>10, MulMono, SizeAssumption
  <2>2. QED
    BY <1>1, <1>2, <1>3, <1>4, <1>5, <1>6, <1>7, <1>10, <2>1, SizeAssumption
<1>11. QED
  BY <1>1, <1>8, <1>9, <1>10

\* A hash is computed from a set of offsets.
LEMMA HashType ==
    ASSUME NEW p \in Nat
    PROVE  HashOf(p) \in SUBSET Nat
<1> SUFFICES ASSUME NEW i \in 0 .. (BlockSize \div LongSize) - 1
             PROVE  p + WordSize * i \in Nat
  BY DEF HashOf
<1>1. BlockSize \div LongSize \in Int
  BY SizeAssumption
<1>2. i \in Nat
  BY <1>1
<1>3. WordSize * i \in Nat
  BY <1>2, SizeAssumption
<1>4. QED
  BY <1>3

\* The words of a hash that starts inside the file are inside the file: one of
\* the pointers is less than a word, so less than a long, before the end.
LEMMA HashInside ==
    ASSUME NEW p \in Nat, p <= Size, NEW w \in HashOf(p)
    PROVE  w + WordSize <= Size
<1>1. PICK i \in 0 .. (BlockSize \div LongSize) - 1 :
         w = p + WordSize * i /\ \A m \in 0 .. i : ~AtEnd(p + WordSize * m)
  BY DEF HashOf
<1>2. i \in Nat
  BY <1>1, SizeAssumption
<1> DEFINE k == (Size - p) \div WordSize
<1>3. /\ k \in Nat /\ WordSize * k <= Size - p
      /\ Size - p < WordSize * k + WordSize
  <2> DEFINE n == Size - p
             r == n % WordSize
  <2>1. n \in Nat
    BY SizeAssumption
  <2> HIDE DEF n
  <2>2. n \div WordSize \in Nat /\ r \in Nat /\ r < WordSize
        /\ n = WordSize * (n \div WordSize) + r
    BY <2>1, SizeAssumption
  <2>3. k = n \div WordSize
    BY DEF n
  <2>4. k \in Nat /\ n = WordSize * k + r
    BY <2>2, <2>3
  <2> HIDE DEF k, r
  <2>5. WordSize * k \in Nat
    BY <2>4, SizeAssumption
  <2>6. WordSize * k <= n /\ n < WordSize * k + WordSize
    BY <2>1, <2>2, <2>4, <2>5, SizeAssumption
  <2>7. QED
    BY <2>4, <2>6 DEF n
<1> HIDE DEF k
<1>4. AtEnd(p + WordSize * k)
  <2>1. WordSize * k \in Nat
    BY <1>3, SizeAssumption
  <2>2. QED
    BY <1>3, <2>1, SizeAssumption DEF AtEnd
<1>5. i < k
  BY <1>1, <1>2, <1>3, <1>4
<1>6. WordSize * i + WordSize <= WordSize * k
  <2>1. (i + 1) * WordSize <= k * WordSize
    BY <1>2, <1>3, <1>5, MulMono, SizeAssumption
  <2>2. (i + 1) * WordSize = WordSize * i + WordSize /\ k * WordSize = WordSize * k
    BY <1>2, <1>3, SizeAssumption
  <2>3. QED
    BY <2>1, <2>2
<1>7. WordSize * i \in Nat /\ WordSize * k \in Nat
  BY <1>2, <1>3, SizeAssumption
<1>8. QED
  BY <1>1, <1>3, <1>6, <1>7, SizeAssumption

-----------------------------------------------------------------------------
(* The inductive invariant.                                                 *)

\* Between a lock and an unlock the cursors name the same block, except in
\* the thread that has moved one and not yet the other.
Cursors ==
    /\ optr <= HashCount
    /\ (\A t \in Threads : pc[t] # "claimed") => dataptr = optr * BlockSize
    /\ \A t \in Threads : pc[t] = "claimed" =>
        /\ optr < HashCount
        /\ cptr[t] = optr * BlockSize
        /\ dataptr = (optr + 1) * BlockSize

\* Claims that have not been stored yet.
Claims ==
    \A t \in Threads : pc[t] = "hash" =>
        /\ chash[t] < optr
        /\ cptr[t] = chash[t] * BlockSize
        /\ hashes[chash[t]] = Unhashed
        /\ \A u \in Threads \ {t} : pc[u] = "hash" => chash[u] # chash[t]

\* An entry below optr is filled or about to be, one above it is untouched.
Table ==
    \A b \in Blocks :
        IF b < optr
        THEN hashes[b] = BlockHashOf(b)
             \/ \E t \in Threads : pc[t] = "hash" /\ chash[t] = b
        ELSE hashes[b] = Unhashed

\* A thread leaves only when the file is exhausted, and main waits for all.
Leaving ==
    /\ \A t \in Threads : pc[t] = "exited" => HashCount <= optr
    /\ mainPc = "create" => \A t \in Threads : ctr <= t => pc[t] = "none"
    /\ mainPc = "join" => \A t \in Threads : t < ctr => pc[t] = "exited"
    /\ mainPc \in {"print", "printed"} => \A t \in Threads : pc[t] = "exited"

IInv == TypeOK /\ Mutex /\ Cursors /\ Claims /\ Table /\ Leaving

\* At most one thread is between lock and unlock.
LEMMA OneInside ==
    ASSUME TypeOK, Mutex, NEW t \in Threads, InCritical(t),
           NEW u \in Threads, InCritical(u)
    PROVE  u = t
  BY DEF Mutex

LEMMA InitInv == Init => IInv
<1> SUFFICES ASSUME Init PROVE IInv
  OBVIOUS
<1> USE NumThreadsAssumption DEF Init, Threads
<1>1. TypeOK
  BY DEF TypeOK
<1>2. Mutex
  BY DEF Mutex, InCritical, Nobody
<1>3. Cursors
  BY BlockCount, SizeAssumption DEF Cursors
<1>4. Claims /\ Table /\ Leaving
  BY DEF Claims, Table, Leaving, Blocks
<1>5. QED
  BY <1>1, <1>2, <1>3, <1>4 DEF IInv

LEMMA TypeStep == IInv /\ [Next]_vars => TypeOK'
<1> SUFFICES ASSUME IInv, [Next]_vars PROVE TypeOK'
  OBVIOUS
<1> USE NumThreadsAssumption, SizeAssumption DEF Threads, TypeOK
<1>0. TypeOK
  BY DEF IInv
<1>1. CASE CreateThread
  BY <1>0, <1>1 DEF CreateThread, Move
<1>2. CASE CreateFails
  BY <1>0, <1>2 DEF CreateFails
<1>3. CASE JoinThread
  BY <1>0, <1>3 DEF JoinThread
<1>4. CASE PrintHashes
  BY <1>0, <1>4 DEF PrintHashes
<1>5. ASSUME NEW t \in Threads, LockMutex(t) PROVE TypeOK'
  BY <1>0, <1>5 DEF LockMutex, Move
<1>6. ASSUME NEW t \in Threads, Leave(t) PROVE TypeOK'
  BY <1>0, <1>6 DEF Leave, Move
<1>7. ASSUME NEW t \in Threads, ClaimBlock(t) PROVE TypeOK'
  BY <1>0, <1>7 DEF ClaimBlock, Move
<1>8. ASSUME NEW t \in Threads, ClaimEntry(t) PROVE TypeOK'
  BY <1>0, <1>8 DEF ClaimEntry, Move
<1>9. ASSUME NEW t \in Threads, StoreHash(t) PROVE TypeOK'
  <2>1. HashOf(cptr[t]) \in SUBSET Nat
    BY <1>0, HashType
  <2>2. QED
    BY <1>0, <1>9, <2>1 DEF StoreHash, Move
<1>10. CASE UNCHANGED vars
  BY <1>0, <1>10 DEF vars
<1>11. QED
  BY <1>1, <1>2, <1>3, <1>4, <1>5, <1>6, <1>7, <1>8, <1>9, <1>10
  DEF Next, Main, Hashit, Ended

LEMMA MutexStep == IInv /\ [Next]_vars => Mutex'
<1> SUFFICES ASSUME IInv, [Next]_vars PROVE Mutex'
  OBVIOUS
<1> USE DEF Threads, Mutex, InCritical, Nobody
<1>0. TypeOK /\ Mutex
  BY DEF IInv
<1>1. CASE CreateThread
  BY <1>0, <1>1 DEF CreateThread, Move, TypeOK
<1>2. CASE CreateFails \/ JoinThread \/ PrintHashes \/ UNCHANGED vars
  BY <1>0, <1>2 DEF CreateFails, JoinThread, PrintHashes, vars
<1>3. ASSUME NEW t \in Threads, LockMutex(t) PROVE Mutex'
  BY <1>0, <1>3 DEF LockMutex, Move, TypeOK
<1>4. ASSUME NEW t \in Threads, Leave(t) PROVE Mutex'
  BY <1>0, <1>4 DEF Leave, Move, TypeOK
<1>5. ASSUME NEW t \in Threads, ClaimBlock(t) PROVE Mutex'
  BY <1>0, <1>5 DEF ClaimBlock, Move, TypeOK
<1>6. ASSUME NEW t \in Threads, ClaimEntry(t) PROVE Mutex'
  BY <1>0, <1>6 DEF ClaimEntry, Move, TypeOK
<1>7. ASSUME NEW t \in Threads, StoreHash(t) PROVE Mutex'
  BY <1>0, <1>7 DEF StoreHash, Move, TypeOK
<1>8. QED
  BY <1>1, <1>2, <1>3, <1>4, <1>5, <1>6, <1>7 DEF Next, Main, Hashit, Ended

LEMMA CursorsStep == IInv /\ [Next]_vars => Cursors'
<1> SUFFICES ASSUME IInv, [Next]_vars PROVE Cursors'
  OBVIOUS
<1> USE SizeAssumption DEF Cursors
<1>0. TypeOK /\ Mutex /\ Cursors /\ HashCount \in Nat
  BY BlockCount DEF IInv
<1>1. CASE CreateThread
  BY <1>0, <1>1 DEF CreateThread, Move, TypeOK
<1>2. CASE CreateFails \/ JoinThread \/ PrintHashes \/ UNCHANGED vars
  BY <1>0, <1>2 DEF CreateFails, JoinThread, PrintHashes, vars
<1>3. ASSUME NEW t \in Threads, LockMutex(t) PROVE Cursors'
  BY <1>0, <1>3 DEF LockMutex, Move, TypeOK
<1>4. ASSUME NEW t \in Threads, Leave(t) PROVE Cursors'
  BY <1>0, <1>4 DEF Leave, Move, TypeOK
<1>5. ASSUME NEW t \in Threads, ClaimBlock(t) PROVE Cursors'
  <2>1. \A u \in Threads : pc[u] # "claimed"
    BY <1>0, <1>5 DEF ClaimBlock, Move, Mutex, InCritical
  <2>2. dataptr = optr * BlockSize /\ optr \in Nat
    BY <1>0, <2>1 DEF TypeOK
  <2>3. optr < HashCount
    BY <1>5, <2>2, BlockCount DEF ClaimBlock
  <2>4. (optr + 1) * BlockSize = optr * BlockSize + BlockSize
    BY <2>2
  <2>5. \A u \in Threads : pc'[u] = "claimed" <=> u = t
    BY <1>0, <1>5, <2>1 DEF ClaimBlock, Move, TypeOK
  <2>6. QED
    BY <1>0, <1>5, <2>2, <2>3, <2>4, <2>5 DEF ClaimBlock, TypeOK
<1>6. ASSUME NEW t \in Threads, ClaimEntry(t) PROVE Cursors'
  <2>1. \A u \in Threads : pc'[u] # "claimed"
    BY <1>0, <1>6 DEF ClaimEntry, Move, Mutex, InCritical, TypeOK
  <2>2. optr < HashCount /\ dataptr = (optr + 1) * BlockSize
    BY <1>0, <1>6 DEF ClaimEntry, Move
  <2>3. QED
    BY <1>0, <1>6, <2>1, <2>2 DEF ClaimEntry, TypeOK
<1>7. ASSUME NEW t \in Threads, StoreHash(t) PROVE Cursors'
  BY <1>0, <1>7 DEF StoreHash, Move, TypeOK
<1>8. QED
  BY <1>1, <1>2, <1>3, <1>4, <1>5, <1>6, <1>7 DEF Next, Main, Hashit, Ended

\* The claim of a thread in IInv names an entry of the table.
LEMMA ClaimInTable ==
    ASSUME IInv, NEW t \in Threads, pc[t] = "hash"
    PROVE  chash[t] \in Blocks
  BY BlockCount DEF IInv, TypeOK, Cursors, Claims, Blocks

LEMMA ClaimsStep == IInv /\ [Next]_vars => Claims'
<1> SUFFICES ASSUME IInv, [Next]_vars PROVE Claims'
  OBVIOUS
<1> USE DEF Claims
<1>0. TypeOK /\ Mutex /\ Cursors /\ Claims /\ Table /\ HashCount \in Nat
  BY BlockCount DEF IInv
<1>1. CASE CreateThread
  BY <1>0, <1>1 DEF CreateThread, Move, TypeOK
<1>2. CASE CreateFails \/ JoinThread \/ PrintHashes \/ UNCHANGED vars
  BY <1>0, <1>2 DEF CreateFails, JoinThread, PrintHashes, vars
<1>3. ASSUME NEW t \in Threads, LockMutex(t) PROVE Claims'
  BY <1>0, <1>3 DEF LockMutex, Move, TypeOK
<1>4. ASSUME NEW t \in Threads, Leave(t) PROVE Claims'
  BY <1>0, <1>4 DEF Leave, Move, TypeOK
<1>5. ASSUME NEW t \in Threads, ClaimBlock(t) PROVE Claims'
  BY <1>0, <1>5 DEF ClaimBlock, Move, TypeOK
<1>6. ASSUME NEW t \in Threads, ClaimEntry(t) PROVE Claims'
  <2>1. optr \in Nat /\ optr < HashCount /\ cptr[t] = optr * BlockSize
    BY <1>0, <1>6 DEF ClaimEntry, Move, Cursors, TypeOK
  <2>2. hashes[optr] = Unhashed
    BY <1>0, <2>1 DEF Table, Blocks
  <2>3. /\ \A u \in Threads : chash'[u] = IF u = t THEN optr ELSE chash[u]
        /\ \A u \in Threads : pc'[u] = IF u = t THEN "hash" ELSE pc[u]
        /\ optr' = optr + 1 /\ hashes' = hashes /\ cptr' = cptr
    BY <1>0, <1>6 DEF ClaimEntry, Move, TypeOK
  <2>4. \A u \in Threads : pc[u] = "hash" => chash[u] \in Nat /\ chash[u] < optr
    BY <1>0 DEF TypeOK
  <2>5. QED
    BY <1>0, <2>1, <2>2, <2>3, <2>4
<1>7. ASSUME NEW t \in Threads, StoreHash(t) PROVE Claims'
  <2>1. /\ \A u \in Threads : pc'[u] = IF u = t THEN "idle" ELSE pc[u]
        /\ UNCHANGED <<chash, cptr, optr>>
        /\ pc[t] = "hash"
    BY <1>0, <1>7 DEF StoreHash, Move, TypeOK
  <2>2. \A b \in Blocks : b # chash[t] => hashes'[b] = hashes[b]
    BY <1>0, <1>7 DEF StoreHash, TypeOK
  <2>3. \A u \in Threads : pc[u] = "hash" => chash[u] \in Blocks
    BY ClaimInTable
  <2>4. QED
    BY <1>0, <2>1, <2>2, <2>3
<1>8. QED
  BY <1>1, <1>2, <1>3, <1>4, <1>5, <1>6, <1>7 DEF Next, Main, Hashit, Ended

LEMMA TableStep == IInv /\ [Next]_vars => Table'
<1> SUFFICES ASSUME IInv, [Next]_vars PROVE Table'
  OBVIOUS
<1> USE DEF Table
<1>0. TypeOK /\ Cursors /\ Claims /\ Table /\ HashCount \in Nat
  BY BlockCount DEF IInv
<1>1. CASE CreateThread
  BY <1>0, <1>1 DEF CreateThread, Move, TypeOK
<1>2. CASE CreateFails \/ JoinThread \/ PrintHashes \/ UNCHANGED vars
  BY <1>0, <1>2 DEF CreateFails, JoinThread, PrintHashes, vars
<1>3. ASSUME NEW t \in Threads, LockMutex(t) PROVE Table'
  BY <1>0, <1>3 DEF LockMutex, Move, TypeOK
<1>4. ASSUME NEW t \in Threads, Leave(t) PROVE Table'
  BY <1>0, <1>4 DEF Leave, Move, TypeOK
<1>5. ASSUME NEW t \in Threads, ClaimBlock(t) PROVE Table'
  BY <1>0, <1>5 DEF ClaimBlock, Move, TypeOK
<1>6. ASSUME NEW t \in Threads, ClaimEntry(t) PROVE Table'
  <2>1. /\ \A u \in Threads : chash'[u] = IF u = t THEN optr ELSE chash[u]
        /\ \A u \in Threads : pc'[u] = IF u = t THEN "hash" ELSE pc[u]
        /\ optr' = optr + 1 /\ hashes' = hashes
        /\ pc[t] = "claimed" /\ optr \in Nat
    BY <1>0, <1>6 DEF ClaimEntry, Move, TypeOK
  <2> SUFFICES ASSUME NEW b \in Blocks
               PROVE  IF b < optr'
                      THEN hashes[b] = BlockHashOf(b)
                           \/ \E u \in Threads : pc'[u] = "hash" /\ chash'[u] = b
                      ELSE hashes[b] = Unhashed
    BY <2>1
  <2>2. b \in Int
    BY DEF Blocks
  <2>3. CASE b = optr
    BY <2>1, <2>3
  <2>4. CASE b # optr
    <3>1. b < optr' <=> b < optr
      BY <2>1, <2>2, <2>4
    <3>2. QED
      BY <1>0, <2>1, <3>1
  <2>5. QED
    BY <2>3, <2>4
<1>7. ASSUME NEW t \in Threads, StoreHash(t) PROVE Table'
  <2>1. /\ \A u \in Threads : pc'[u] = IF u = t THEN "idle" ELSE pc[u]
        /\ UNCHANGED <<chash, optr>>
        /\ pc[t] = "hash"
    BY <1>0, <1>7 DEF StoreHash, Move, TypeOK
  <2>2. chash[t] \in Blocks /\ chash[t] < optr
    BY <1>0, <2>1, ClaimInTable DEF Claims
  <2>3. hashes'[chash[t]] = BlockHashOf(chash[t])
    BY <1>0, <1>7, <2>1, <2>2 DEF StoreHash, BlockHashOf, TypeOK, Claims
  <2>4. \A b \in Blocks : b # chash[t] => hashes'[b] = hashes[b]
    BY <1>0, <1>7 DEF StoreHash, TypeOK
  <2>5. QED
    BY <1>0, <2>1, <2>2, <2>3, <2>4
<1>8. QED
  BY <1>1, <1>2, <1>3, <1>4, <1>5, <1>6, <1>7 DEF Next, Main, Hashit, Ended

LEMMA LeavingStep == IInv /\ [Next]_vars => Leaving'
<1> SUFFICES ASSUME IInv, [Next]_vars PROVE Leaving'
  OBVIOUS
<1> USE NumThreadsAssumption DEF Leaving, Threads
<1>0. TypeOK /\ Mutex /\ Cursors /\ Leaving /\ HashCount \in Nat
  BY BlockCount DEF IInv
<1>1. CASE CreateThread
  BY <1>0, <1>1 DEF CreateThread, Move, TypeOK
<1>2. CASE CreateFails
  BY <1>0, <1>2 DEF CreateFails
<1>3. CASE JoinThread
  BY <1>0, <1>3 DEF JoinThread, TypeOK
<1>4. CASE PrintHashes \/ UNCHANGED vars
  BY <1>0, <1>4 DEF PrintHashes, vars
<1>5. ASSUME NEW t \in Threads, LockMutex(t) PROVE Leaving'
  BY <1>0, <1>5 DEF LockMutex, Move, TypeOK
<1>6. ASSUME NEW t \in Threads, Leave(t) PROVE Leaving'
  <2>1. \A u \in Threads : pc[u] # "claimed"
    BY <1>0, <1>6 DEF Leave, Move, Mutex, InCritical
  <2>2. optr \in Nat /\ ~(optr * BlockSize < Size)
    BY <1>0, <1>6, <2>1, SizeAssumption DEF Leave, Cursors, TypeOK
  <2>3. HashCount <= optr
    BY <1>0, <2>2, BlockCount
  <2>4. QED
    BY <1>0, <1>6, <2>3 DEF Leave, Move, TypeOK
<1>7. ASSUME NEW t \in Threads, ClaimBlock(t) PROVE Leaving'
  BY <1>0, <1>7 DEF ClaimBlock, Move, TypeOK
<1>8. ASSUME NEW t \in Threads, ClaimEntry(t) PROVE Leaving'
  BY <1>0, <1>8 DEF ClaimEntry, Move, TypeOK
<1>9. ASSUME NEW t \in Threads, StoreHash(t) PROVE Leaving'
  BY <1>0, <1>9 DEF StoreHash, Move, TypeOK
<1>10. QED
  BY <1>1, <1>2, <1>3, <1>4, <1>5, <1>6, <1>7, <1>8, <1>9
  DEF Next, Main, Hashit, Ended

-----------------------------------------------------------------------------
(* The theorems.                                                            *)

\* IInv holds in every state of every execution of the pool.
THEOREM Invariance == Spec => []IInv
<1>1. IInv /\ [Next]_vars => IInv'
  BY TypeStep, MutexStep, CursorsStep, ClaimsStep, TableStep, LeavingStep
  DEF IInv
<1>2. QED
  BY InitInv, <1>1, PTL DEF Spec

\* Every variable keeps its type: no cursor, claim or entry leaves its range.
THEOREM TypeCorrect == Spec => []TypeOK
  BY Invariance, PTL DEF IInv

\* At most one thread moves the cursors at a time.
THEOREM MutualExclusion == Spec => []Mutex
  BY Invariance, PTL DEF IInv

\* A thread about to store owns the entry that belongs to its block.
THEOREM ClaimsAreMatched == Spec => []ClaimsMatch
<1>1. IInv => ClaimsMatch
  BY ClaimInTable DEF IInv, Claims, ClaimsMatch
<1>2. QED
  BY Invariance, <1>1, PTL

\* No word is read from past the end of the mapped file: the loop of
\* calculate_and_store_hash looks at the end before every word (lines 22-29).
THEOREM ReadsStayInside == Spec => []ReadsInsideFile
<1>1. IInv => ReadsInsideFile
  <2> SUFFICES ASSUME IInv, NEW t \in Threads, pc[t] = "hash", NEW w \in HashOf(cptr[t])
               PROVE  w + WordSize <= Size
    BY DEF ReadsInsideFile
  <2>1. chash[t] \in Blocks /\ cptr[t] = chash[t] * BlockSize
    BY ClaimInTable DEF IInv, Claims
  <2>2. chash[t] \in Nat /\ chash[t] < HashCount
    BY <2>1, BlockCount DEF Blocks
  <2>3. cptr[t] \in Nat /\ cptr[t] < Size
    BY <2>1, <2>2, BlockCount DEF IInv, TypeOK
  <2>4. QED
    BY <2>3, HashInside, SizeAssumption
<1>2. QED
  BY Invariance, <1>1, PTL

\* When main prints, every entry holds the hash of its block.
LEMMA TableComplete ==
    ASSUME IInv, mainPc \in {"print", "printed"}, NEW b \in Blocks
    PROVE  hashes[b] = BlockHashOf(b)
<1>1. \A t \in Threads : pc[t] = "exited"
  BY DEF IInv, Leaving
<1>2. 0 \in Threads
  BY NumThreadsAssumption DEF Threads
<1>3. HashCount <= optr
  BY <1>1, <1>2 DEF IInv, Leaving
<1>4. b < optr
  BY <1>3, BlockCount DEF Blocks, IInv, TypeOK
<1>5. QED
  BY <1>1, <1>4 DEF IInv, Table

\* The table printed does not depend on the number of threads or their order.
THEOREM SerialResult == Spec => []PrintsSerialResult
<1>1. IInv => PrintsSerialResult
  BY TableComplete DEF PrintsSerialResult
<1>2. QED
  BY Invariance, <1>1, PTL

\* The two modules speak of the same blocks and hashes.
LEMMA SameFile ==
    /\ Hashing!Blocks = Blocks
    /\ \A b : Hashing!BlockHashOf(b) = BlockHashOf(b)
  BY DEF Blocks, Hashing!Blocks, HashCount, Hashing!HashCount,
         BlockHashOf, Hashing!BlockHashOf, HashOf, Hashing!HashOf,
         AtEnd, Hashing!AtEnd

\* The pool implements the abstract hasher: initial states map to initial
\* states, storing a hash is Hash of the claimed entry, the printing of main
\* is PrintTable, and every other step stutters.
THEOREM Implementation == Spec => ImplementsHashing
<1>1. Init => Hashing!Init
  BY SameFile DEF Init, Hashing!Init, printed
<1>2. IInv /\ [Next]_vars => [Hashing!Next]_Hashing!hashVars
  <2> SUFFICES ASSUME IInv, [Next]_vars
               PROVE  [Hashing!Next]_Hashing!hashVars
    OBVIOUS
  <2> USE DEF Hashing!hashVars, printed
  <2>1. CASE CreateThread \/ CreateFails \/ JoinThread \/ UNCHANGED vars
    BY <2>1 DEF CreateThread, CreateFails, JoinThread, vars
  <2>2. CASE PrintHashes
    <3>1. \A b \in Blocks : hashes[b] = BlockHashOf(b)
      BY <2>2, TableComplete DEF PrintHashes
    <3>2. QED
      BY <2>2, <3>1, SameFile DEF PrintHashes, Hashing!Next, Hashing!PrintTable
  <2>3. ASSUME NEW t \in Threads,
               LockMutex(t) \/ Leave(t) \/ ClaimBlock(t) \/ ClaimEntry(t)
        PROVE  UNCHANGED Hashing!hashVars
    BY <2>3 DEF LockMutex, Leave, ClaimBlock, ClaimEntry
  <2>4. ASSUME NEW t \in Threads, StoreHash(t) PROVE Hashing!Next
    <3>1. pc[t] = "hash"
      BY <2>4 DEF StoreHash, Move
    <3>2. chash[t] \in Blocks
      BY <3>1, ClaimInTable
    <3>3. hashes[chash[t]] = Unhashed /\ cptr[t] = chash[t] * BlockSize
      BY <3>1 DEF IInv, Claims
    <3>4. mainPc # "printed"
      BY <3>1 DEF IInv, Leaving
    <3>5. Hashing!Hash(chash[t])
      BY <2>4, <3>3, <3>4, SameFile DEF StoreHash, Hashing!Hash, BlockHashOf
    <3>6. QED
      BY <3>2, <3>5, SameFile DEF Hashing!Next
  <2>5. QED
    BY <2>1, <2>2, <2>3, <2>4 DEF Next, Main, Hashit, Ended
<1>3. QED
  BY Invariance, <1>1, <1>2, PTL DEF Spec, Hashing!Spec, ImplementsHashing

=============================================================================
