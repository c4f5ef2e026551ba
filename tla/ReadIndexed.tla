----------------------------- MODULE ReadIndexed -----------------------------
(***************************************************************************)
(* readindexed.cpp of day4/challenge-problems/src: main creates, launches  *)
(* and joins one thread per chunk with a thmgr_t; a thread reads its chunk *)
(* with a map of its own and enters the first block of the chunk into      *)
(* heads and the last into tails, which all threads share under a mutex;   *)
(* main then links every head to the tail that precedes it and looks for   *)
(* the longest chain.                                                      *)
(*                                                                         *)
(* Objects are <<chunk, n>>; <<chunk, 0>> is the block that stands for the *)
(* predecessor of a chunk, with the balances of the previous chunk's map.  *)
(* The lengths that readChunk returns are summed up and never used; they   *)
(* are left out, as are the two attempts to start a thread or a process    *)
(* past the manager (lines 219-233).                                       *)
(***************************************************************************)
EXTENDS BlockTree

CONSTANTS
    Truncated,     \* bytes that do not hold a whole block
    NumChunks,     \* chunks in the header
    MAX_THREADS,   \* see ThreadManager
    Files          \* files to be read, sequences of NumChunks chunks

ASSUME ChunkAssumption == NumChunks \in Nat /\ MAX_THREADS \in Nat

ASSUME FilesAssumption ==
    \A f \in Files : \A c \in 1 .. NumChunks :
        f[c].blocks \in Seq(Range(f[c].blocks))

VARIABLES
    file,          \* the file
    mainPc,        \* where main is
    chunk,         \* main's loop counter, 1 .. NumChunks
    slots, life, phase, cursor, result,      \* the thread manager
    pc,            \* where each chunk's thread is
    pos,           \* per thread: next block of the chunk
    bmap,          \* per thread: blocks accepted in the chunk
    tip,           \* per thread: last block accepted
    mutex,         \* holder of the mutex, or 0
    heap,          \* the block objects of all threads
    heads, tails,  \* shared: first blocks; hash -> last block
    linked,        \* heads main has linked
    scanned,       \* hashes of the tails main has looked at
    valid,         \* main's flag
    best           \* main's tip and length

threadVars == <<pc, pos, bmap, tip, mutex>>
mergeVars  == <<linked, scanned, valid, best>>
vars == <<file, mainPc, chunk, slots, life, phase, cursor, result,
          threadVars, heap, heads, tails, mergeVars>>

TM == INSTANCE ThreadManager
        WITH NumThreads <- NumChunks, Secure <- FALSE

Chunks == 1 .. NumChunks

\* Thread manager number of the thread of a chunk.
Tid(c) == c - 1

report ==
    CASE mainPc = "aborted" ->
            [status |-> "aborted", hash |-> Zero, length |-> 0]
      [] mainPc = "done" /\ valid /\ best.id # NoBlock ->
            [status |-> "tip", hash |-> heap[best.id].blk.hash,
             length |-> best.length]
      [] mainPc = "done" /\ ~(valid /\ best.id # NoBlock) ->
            [status |-> "invalid", hash |-> Zero, length |-> 0]
      [] OTHER -> [status |-> "none", hash |-> Zero, length |-> 0]

Reading == INSTANCE ChainReading

-----------------------------------------------------------------------------

Init ==
    /\ file \in Files
    /\ TM!Init
    /\ mainPc = IF phase = "open" THEN "create" ELSE "aborted"
    /\ chunk = 1
    /\ pc = [c \in Chunks |-> "none"]
    /\ pos = [c \in Chunks |-> 1]
    /\ bmap = [c \in Chunks |-> NoMap]
    /\ tip = [c \in Chunks |-> NoBlock]
    /\ mutex = 0
    /\ heap = NoMap
    /\ heads = {}
    /\ tails = NoMap
    /\ linked = {}
    /\ scanned = {}
    /\ valid = TRUE
    /\ best = [id |-> NoBlock, length |-> 0]

Move(c, from, to) ==
    /\ pc[c] = from
    /\ pc' = [pc EXCEPT ![c] = to]

Running == mainPc # "aborted"

-----------------------------------------------------------------------------
(* readChunk.                                                               *)

BlockAt(c) == file[c].blocks[pos[c]]

HasBlock(c) == pos[c] <= Len(file[c].blocks) /\ BlockAt(c) # Truncated

\* The dummy block: its hash is whatever prev_hash of the first block says.
Dummy(c) ==
    [blk |-> [hash |-> BlockAt(c).prev], prev |-> NoBlock, length |-> 1,
     balances |-> file[c - 1].map]

UsesDummy(c) == pos[c] = 1 /\ c > 1

\* The heap in which the block is validated.
HeapFor(c) == IF UsesDummy(c) THEN Put(heap, <<c, 0>>, Dummy(c)) ELSE heap

PrevFor(c) ==
    IF UsesDummy(c) THEN <<c, 0>> ELSE Predecessor(BlockAt(c), bmap[c])

\* is_coinbase of a valid first block asserts that it has no predecessor.
CoinbaseAsserts(c) == UsesDummy(c) /\ BlockAt(c).prev = Zero

\* Slip: a refused block is not skipped.
ParseBlockValid(c) ==
    /\ Running
    /\ HasBlock(c)
    /\ LET id == <<c, pos[c]>>
           h  == HeapFor(c)
           ok == IsValid(h, BlockAt(c), PrevFor(c))
       IN  /\ ~(ok /\ CoinbaseAsserts(c))
           /\ heap' = Put(h, id, NewBlock(h, BlockAt(c), PrevFor(c)))
           /\ bmap' = IF ok THEN [bmap EXCEPT ![c] = Put(@, BlockAt(c).hash, id)]
                            ELSE bmap
           /\ pos' = IF ok THEN [pos EXCEPT ![c] = @ + 1] ELSE pos
           /\ tip' = IF ok THEN [tip EXCEPT ![c] = id] ELSE tip
           /\ Move(c, "parse",
                   IF ok /\ pos[c] = 1 /\ BlockAt(c).prev # Zero
                   THEN "lockHead" ELSE "parse")
    /\ UNCHANGED <<file, mainPc, chunk, slots, life, phase, cursor, result,
                   mutex, heads, tails, mergeVars>>

\* One turn of the loop, up to the mutex.
ParseBlock(c) ==
    /\ Running
    /\ HasBlock(c)
    /\ LET id == <<c, pos[c]>>
           h  == HeapFor(c)
           ok == IsValid(h, BlockAt(c), PrevFor(c))
       IN  /\ ~(ok /\ CoinbaseAsserts(c))
           /\ heap' = Put(h, id, NewBlock(h, BlockAt(c), PrevFor(c)))
           /\ bmap' = IF ok THEN [bmap EXCEPT ![c] = Put(@, BlockAt(c).hash, id)]
                            ELSE bmap
           /\ tip' = IF ok THEN [tip EXCEPT ![c] = id] ELSE tip
           /\ Move(c, "parse",
                   IF ok /\ pos[c] = 1 /\ BlockAt(c).prev # Zero
                   THEN "lockHead" ELSE "parse")
    /\ pos' = [pos EXCEPT ![c] = @ + 1]
    /\ UNCHANGED <<file, mainPc, chunk, slots, life, phase, cursor, result,
                   mutex, heads, tails, mergeVars>>

ParseAborts(c) ==
    /\ Running
    /\ pc[c] = "parse"
    /\ HasBlock(c)
    /\ CoinbaseAsserts(c)
    /\ IsValid(HeapFor(c), BlockAt(c), PrevFor(c))
    /\ mainPc' = "aborted"
    /\ UNCHANGED <<file, chunk, slots, life, phase, cursor, result,
                   threadVars, heap, heads, tails, mergeVars>>

Lock(c, from, to) ==
    /\ Running
    /\ mutex = 0
    /\ Move(c, from, to)
    /\ mutex' = c
    /\ UNCHANGED <<file, mainPc, chunk, slots, life, phase, cursor, result,
                   pos, bmap, tip, heap, heads, tails, mergeVars>>

\* Slip: the set is assigned.
InsertHeadOnly(c) ==
    /\ Running
    /\ Move(c, "insertHead", "parse")
    /\ heads' = {<<c, 1>>}
    /\ mutex' = 0
    /\ UNCHANGED <<file, mainPc, chunk, slots, life, phase, cursor, result,
                   pos, bmap, tip, heap, tails, mergeVars>>

\* heads.insert and unlock.
InsertHead(c) ==
    /\ Running
    /\ Move(c, "insertHead", "parse")
    /\ heads' = heads \cup {<<c, 1>>}
    /\ mutex' = 0
    /\ UNCHANGED <<file, mainPc, chunk, slots, life, phase, cursor, result,
                   pos, bmap, tip, heap, tails, mergeVars>>

\* Slip: whatever the balances.
TipMatchesMapAny(c) == tip[c] # NoBlock

TipMatchesMap(c) ==
    tip[c] # NoBlock /\ BalanceMapsEqual(heap[tip[c]].balances, file[c].map)

\* The chunk is used up, or its bytes do not hold another block.
FinishChunk(c) ==
    /\ Running
    /\ ~HasBlock(c)
    /\ Move(c, "parse", IF TipMatchesMap(c) THEN "lockTail" ELSE "exit")
    /\ UNCHANGED <<file, mainPc, chunk, slots, life, phase, cursor, result,
                   pos, bmap, tip, mutex, heap, heads, tails, mergeVars>>

\* tails[tip->blk_hash] = tip and unlock.
InsertTail(c) ==
    /\ Running
    /\ Move(c, "insertTail", "exit")
    /\ tails' = Put(tails, heap[tip[c]].blk.hash, tip[c])
    /\ mutex' = 0
    /\ UNCHANGED <<file, mainPc, chunk, slots, life, phase, cursor, result,
                   pos, bmap, tip, heap, heads, mergeVars>>

\* doReadChunk ends in pthread_exit.
ExitThread(c) ==
    /\ Running
    /\ Move(c, "exit", "none")
    /\ TM!ThreadExit(Tid(c))
    /\ UNCHANGED <<file, mainPc, chunk, pos, bmap, tip, mutex, heap, heads,
                   tails, mergeVars>>

ReadChunk(c) ==
    \/ ParseBlock(c)
    \/ ParseAborts(c)
    \/ Lock(c, "lockHead", "insertHead")
    \/ InsertHead(c)
    \/ FinishChunk(c)
    \/ Lock(c, "lockTail", "insertTail")
    \/ InsertTail(c)
    \/ ExitThread(c)

-----------------------------------------------------------------------------
(* main.                                                                    *)

\* Lines 203-215: assert(create(...) == i), then launch.
CreateThread ==
    /\ mainPc = "create"
    /\ TM!Create
    /\ mainPc' = IF result' = Tid(chunk) THEN "launch" ELSE "aborted"
    /\ UNCHANGED <<file, chunk, threadVars, heap, heads, tails, mergeVars>>

LaunchThread ==
    /\ mainPc = "launch"
    /\ TM!Launch(Tid(chunk))
    /\ pc' = [pc EXCEPT ![chunk] = "parse"]
    /\ chunk' = IF chunk = NumChunks THEN 1 ELSE chunk + 1
    /\ mainPc' = IF chunk = NumChunks THEN "wait" ELSE "create"
    /\ UNCHANGED <<file, pos, bmap, tip, mutex, heap, heads, tails, mergeVars>>

\* Lines 236-239.
WaitThread ==
    /\ mainPc = "wait"
    /\ TM!Wait(Tid(chunk))
    /\ chunk' = IF chunk = NumChunks THEN 1 ELSE chunk + 1
    /\ mainPc' = IF chunk = NumChunks THEN "delete" ELSE "wait"
    /\ UNCHANGED <<file, threadVars, heap, heads, tails, mergeVars>>

\* delete tmgr: the destructor joins what is left, that is, nothing.
DeleteManager ==
    /\ mainPc = "delete"
    /\ TM!Destroy \/ TM!WaitAll
    /\ mainPc' = IF phase' = "closed" THEN "link" ELSE "delete"
    /\ UNCHANGED <<file, chunk, threadVars, heap, heads, tails, mergeVars>>

\* Lines 245-254, in the order of the set, which is that of addresses.
LinkHead ==
    \E p \in heads \ linked :
        LET h == heap[p].blk.prev
        IN  /\ mainPc = "link"
            /\ h \in DOMAIN tails
            /\ heap' = [heap EXCEPT ![p].prev = tails[h],
                                    ![p].length = LengthFrom(heap, tails[h]),
                                    ![p].balances = heap[tails[h]].balances]
            /\ linked' = linked \cup {p}
            /\ UNCHANGED <<file, mainPc, chunk, slots, life, phase, cursor,
                           result, threadVars, heads, tails, scanned, valid,
                           best>>

\* "unable to find pred": the loop is left at once.
NoPredecessor ==
    /\ mainPc = "link"
    /\ \E p \in heads \ linked : heap[p].blk.prev \notin DOMAIN tails
    /\ mainPc' = "scan"
    /\ valid' = FALSE
    /\ UNCHANGED <<file, chunk, slots, life, phase, cursor, result,
                   threadVars, heap, heads, tails, linked, scanned, best>>

AllLinked ==
    /\ mainPc = "link"
    /\ heads = linked
    /\ mainPc' = "scan"
    /\ UNCHANGED <<file, chunk, slots, life, phase, cursor, result,
                   threadVars, heap, heads, tails, mergeVars>>

\* Slip: lengths stay what the threads computed.
RecomputedNot(id) == heap

\* recompute_length of an object, which recomputes its predecessors first.
Recomputed(id) ==
    [x \in DOMAIN heap |->
        IF x \in Path(heap, id)
        THEN [heap[x] EXCEPT !.length = Cardinality(Path(heap, x))]
        ELSE heap[x]]

\* Lines 258-264, in the order of the hash table.
ScanTail ==
    /\ mainPc = "scan"
    /\ \E h \in DOMAIN tails \ scanned :
          LET t == tails[h]
          IN  /\ heap' = Recomputed(t)
              /\ best' = IF best.length < heap'[t].length
                         THEN [id |-> t, length |-> heap'[t].length]
                         ELSE best
              /\ scanned' = scanned \cup {h}
    /\ UNCHANGED <<file, mainPc, chunk, slots, life, phase, cursor, result,
                   threadVars, heads, tails, linked, valid>>

\* Lines 265-269: report.
PrintReport ==
    /\ mainPc = "scan"
    /\ scanned = DOMAIN tails
    /\ mainPc' = "done"
    /\ UNCHANGED <<file, chunk, slots, life, phase, cursor, result,
                   threadVars, heap, heads, tails, mergeVars>>

Main ==
    \/ CreateThread
    \/ LaunchThread
    \/ WaitThread
    \/ DeleteManager
    \/ LinkHead
    \/ NoPredecessor
    \/ AllLinked
    \/ ScanTail
    \/ PrintReport

Ended == mainPc \in {"done", "aborted"} /\ UNCHANGED vars

Next == Main \/ Ended \/ \E c \in Chunks : ReadChunk(c)

Spec == Init /\ [][Next]_vars

\* Something runs as long as something can run; nothing more is asked of the
\* scheduler, since every step brings main or a thread nearer to its end.
Fairness == WF_vars(Next)

FairSpec == Spec /\ Fairness

-----------------------------------------------------------------------------

TypeOK ==
    /\ TM!TypeOK
    /\ mainPc \in {"create", "launch", "wait", "delete", "link", "scan",
                   "done", "aborted"}
    /\ chunk \in Chunks \cup {1}
    /\ pc \in [Chunks -> {"none", "parse", "lockHead", "insertHead",
                          "lockTail", "insertTail", "exit"}]
    /\ \A c \in Chunks : pos[c] \in 1 .. Len(file[c].blocks) + 1
    /\ mutex \in Chunks \cup {0}
    /\ heads \subseteq DOMAIN heap
    /\ Range(tails) \subseteq DOMAIN heap
    /\ linked \subseteq heads
    /\ scanned \subseteq DOMAIN tails
    /\ valid \in BOOLEAN

\* main reads and links the shared objects when no thread is left that could
\* change them (lines 236-264).
MergeIsAlone ==
    mainPc \in {"link", "scan", "done"} =>
        \A c \in Chunks : pc[c] = "none" /\ life[Tid(c)] = "none"

\* No insertion is lost: when main starts to link, every chunk whose last
\* block has the balances of its map has an entry in tails for the hash of
\* that block, and every chunk that begins with a valid block that is no
\* coinbase has it in heads.
NoInsertionLost ==
    (mainPc = "link" /\ linked = {}) => \A c \in Chunks :
        /\ TipMatchesMap(c) => heap[tip[c]].blk.hash \in DOMAIN tails
        /\ (<<c, 1>> \in Range(bmap[c]) /\ heap[<<c, 1>>].blk.prev # Zero) =>
              <<c, 1>> \in heads

\* Nothing else is entered: what main links a head to is the last block of a
\* chunk, under its hash, and has the balances that follow the chunk.
TailsAreTrusted ==
    (mainPc = "link" /\ linked = {}) => \A h \in DOMAIN tails :
        \E d \in Chunks : /\ TipMatchesMap(d)
                          /\ tails[h] = tip[d]
                          /\ heap[tip[d]].blk.hash = h

\* The chain that is reported holds real blocks only: every dummy has been
\* replaced by the block it stood for, and its length counts no dummy.
NoDummyReported ==
    report.status = "tip" =>
        /\ \A c \in Chunks : <<c, 0>> \notin Path(heap, best.id)
        /\ best.length = Cardinality(Path(heap, best.id))

\* Together: how the shared containers are filled and handed to main.
MergeIsSound ==
    TypeOK /\ MergeIsAlone /\ NoInsertionLost /\ TailsAreTrusted

\* The threads and the merge together report what ChainReading allows,
\* whatever the order of the threads and of the containers.
ImplementsChainReading == Reading!Spec

\* The program ends with a report or with a failed assert.
Terminates == <>(mainPc \in {"done", "aborted"})

=============================================================================
