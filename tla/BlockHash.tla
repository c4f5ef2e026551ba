------------------------------ MODULE BlockHash ------------------------------
(***************************************************************************)
(* day3/practice-exercises/block_hash.c: a pool of threads that share two  *)
(* cursors under one mutex, dataptr into the mapped file and optr into the *)
(* table of hashes.  A thread claims the next block and the next entry     *)
(* under the lock and computes the hash outside it.  Pointers are offsets  *)
(* from buff and from hashes.                                              *)
(***************************************************************************)
EXTENDS HashedFile

CONSTANT
    NumThreads   \* argv[2], between 1 and MAX_THREADS

ASSUME NumThreadsAssumption == NumThreads \in 1 .. 64

VARIABLES
    mainPc,      \* where main is
    ctr,         \* main's loop counter
    pc,          \* where each thread is
    lock,        \* holder of the mutex, or Nobody
    dataptr,     \* shared: offset of the next block to hash
    optr,        \* shared: index of the next entry to fill
    cptr,        \* per thread: the block it claimed
    chash,       \* per thread: the entry it claimed
    hashes       \* the table

vars == <<mainPc, ctr, pc, lock, dataptr, optr, cptr, chash, hashes>>

printed == mainPc = "printed"

\* The abstract hasher: its table is the table, printed when main has printed.
Hashing == INSTANCE BlockHashing

Threads == 0 .. NumThreads - 1
Nobody  == -1

-----------------------------------------------------------------------------

Init ==
    /\ mainPc = "create"
    /\ ctr = 0
    /\ pc = [t \in Threads |-> "none"]
    /\ lock = Nobody
    /\ dataptr = 0
    /\ optr = 0
    /\ cptr = [t \in Threads |-> 0]
    /\ chash = [t \in Threads |-> 0]
    /\ hashes = [b \in Blocks |-> Unhashed]

Move(t, from, to) ==
    /\ pc[t] = from
    /\ pc' = [pc EXCEPT ![t] = to]

\* main --------------------------------------------------------------------
\* (A definition commented "Slip" is what a plausible programming error would
\* make of the one below it; no specification uses it.)

\* Slip: the counter is not reset before the joining loop.
CreateThreadNoReset ==
    /\ mainPc = "create"
    /\ Move(ctr, "none", "idle")
    /\ ctr' = ctr + 1
    /\ mainPc' = IF ctr + 1 = NumThreads THEN "join" ELSE "create"
    /\ UNCHANGED <<lock, dataptr, optr, cptr, chash, hashes>>

CreateThread ==
    /\ mainPc = "create"
    /\ Move(ctr, "none", "idle")
    /\ ctr' = IF ctr + 1 = NumThreads THEN 0 ELSE ctr + 1
    /\ mainPc' = IF ctr + 1 = NumThreads THEN "join" ELSE "create"
    /\ UNCHANGED <<lock, dataptr, optr, cptr, chash, hashes>>

\* pthread_create fails: main calls exit(-1) and every thread dies with it.
CreateFails ==
    /\ mainPc = "create"
    /\ mainPc' = "failed"
    /\ UNCHANGED <<ctr, pc, lock, dataptr, optr, cptr, chash, hashes>>

\* Slip: main does not wait for the thread.
JoinThreadEarly ==
    /\ mainPc = "join"
    /\ ctr' = IF ctr + 1 = NumThreads THEN 0 ELSE ctr + 1
    /\ mainPc' = IF ctr + 1 = NumThreads THEN "print" ELSE "join"
    /\ UNCHANGED <<pc, lock, dataptr, optr, cptr, chash, hashes>>

JoinThread ==
    /\ mainPc = "join"
    /\ pc[ctr] = "exited"
    /\ ctr' = IF ctr + 1 = NumThreads THEN 0 ELSE ctr + 1
    /\ mainPc' = IF ctr + 1 = NumThreads THEN "print" ELSE "join"
    /\ UNCHANGED <<pc, lock, dataptr, optr, cptr, chash, hashes>>

PrintHashes ==
    /\ mainPc = "print"
    /\ mainPc' = "printed"
    /\ UNCHANGED <<ctr, pc, lock, dataptr, optr, cptr, chash, hashes>>

\* hashit ------------------------------------------------------------------

Alive == mainPc # "failed"

LockMutex(t) ==
    /\ Alive
    /\ lock = Nobody
    /\ Move(t, "idle", "check")
    /\ lock' = t
    /\ UNCHANGED <<mainPc, ctr, dataptr, optr, cptr, chash, hashes>>

\* Slip: the thread goes round once more instead of leaving.
LeaveAgain(t) ==
    /\ Alive
    /\ dataptr >= Size
    /\ Move(t, "check", "idle")
    /\ lock' = Nobody
    /\ UNCHANGED <<mainPc, ctr, dataptr, optr, cptr, chash, hashes>>

\* No block is left: unlock and pthread_exit.
Leave(t) ==
    /\ Alive
    /\ dataptr >= Size
    /\ Move(t, "check", "exited")
    /\ lock' = Nobody
    /\ UNCHANGED <<mainPc, ctr, dataptr, optr, cptr, chash, hashes>>

\* Slip: the mutex is released between the two cursors.
ClaimBlockUnlock(t) ==
    /\ Alive
    /\ dataptr < Size
    /\ Move(t, "check", "claimed")
    /\ cptr' = [cptr EXCEPT ![t] = dataptr]
    /\ dataptr' = dataptr + BlockSize
    /\ lock' = Nobody
    /\ UNCHANGED <<mainPc, ctr, optr, chash, hashes>>

\* cptr = dataptr; dataptr += BLOCK_SIZE
ClaimBlock(t) ==
    /\ Alive
    /\ dataptr < Size
    /\ Move(t, "check", "claimed")
    /\ cptr' = [cptr EXCEPT ![t] = dataptr]
    /\ dataptr' = dataptr + BlockSize
    /\ UNCHANGED <<mainPc, ctr, lock, optr, chash, hashes>>

\* chash = optr; optr++; unlock
ClaimEntry(t) ==
    /\ Alive
    /\ Move(t, "claimed", "hash")
    /\ chash' = [chash EXCEPT ![t] = optr]
    /\ optr' = optr + 1
    /\ lock' = Nobody
    /\ UNCHANGED <<mainPc, ctr, dataptr, cptr, hashes>>

\* Slip: the hash goes where the shared cursor is now.
StoreHashShared(t) ==
    /\ Alive
    /\ Move(t, "hash", "idle")
    /\ hashes' = [hashes EXCEPT ![optr] = HashOf(cptr[t])]
    /\ UNCHANGED <<mainPc, ctr, lock, dataptr, optr, cptr, chash>>

\* *chash = calculate_and_store_hash(cptr, endptr), outside the lock.
StoreHash(t) ==
    /\ Alive
    /\ Move(t, "hash", "idle")
    /\ hashes' = [hashes EXCEPT ![chash[t]] = HashOf(cptr[t])]
    /\ UNCHANGED <<mainPc, ctr, lock, dataptr, optr, cptr, chash>>

Hashit(t) ==
    \/ LockMutex(t)
    \/ Leave(t)
    \/ ClaimBlock(t)
    \/ ClaimEntry(t)
    \/ StoreHash(t)

Main == CreateThread \/ JoinThread \/ PrintHashes

\* The program has ended.
Ended == mainPc \in {"printed", "failed"} /\ UNCHANGED vars

Next == Main \/ CreateFails \/ Ended \/ \E t \in Threads : Hashit(t)

Spec == Init /\ [][Next]_vars

\* The scheduler runs main and every thread whenever they can take a step.
\* A thread that waits for the mutex needs no strong fairness: the others run
\* out of blocks.
Fairness == WF_vars(Main) /\ \A t \in Threads : WF_vars(Hashit(t))

FairSpec == Spec /\ Fairness

-----------------------------------------------------------------------------

TypeOK ==
    /\ mainPc \in {"create", "join", "print", "printed", "failed"}
    /\ ctr \in Threads
    /\ pc \in [Threads -> {"none", "idle", "check", "claimed", "hash", "exited"}]
    /\ lock \in Threads \cup {Nobody}
    /\ dataptr \in Nat
    /\ optr \in Nat
    /\ cptr \in [Threads -> Nat]
    /\ chash \in [Threads -> Nat]
    /\ hashes \in [Blocks -> {Unhashed} \cup SUBSET Nat]

InCritical(t) == pc[t] \in {"check", "claimed"}

\* The mutex protects the two cursors: a thread between lock and unlock is
\* its holder, so no two threads move the cursors at once (lines 41-50).
Mutex == \A t \in Threads : InCritical(t) <=> lock = t

\* A thread about to store its hash owns the entry that belongs to its block,
\* the entry is inside the malloc'ed table, and no other thread has claimed
\* either: the two cursors never drift apart across the lock (lines 46-52).
ClaimsMatch ==
    \A t \in Threads : pc[t] = "hash" =>
        /\ chash[t] \in Blocks
        /\ cptr[t] = chash[t] * BlockSize
        /\ hashes[chash[t]] = Unhashed
        /\ \A u \in Threads \ {t} : pc[u] = "hash" => chash[u] # chash[t]

\* What main prints is the serial result, whatever the number of threads and
\* their order (run.sh compares one thread with 32 of them).
PrintsSerialResult ==
    mainPc \in {"print", "printed"} =>
        \A b \in Blocks : hashes[b] = BlockHashOf(b)

\* No hash is computed from bytes past the end of the mapped file.
ReadsInsideFile ==
    \A t \in Threads : pc[t] = "hash" =>
        \A w \in HashOf(cptr[t]) : w + WordSize <= Size

\* Every thread leaves the pool and main prints, unless a thread could not
\* be created.
Terminates == <>(mainPc \in {"printed", "failed"})

\* The pool implements the abstract hasher.
ImplementsHashing == Hashing!Spec

=============================================================================
