------------------------------ MODULE OldReaders ------------------------------
(***************************************************************************)
(* The first two readers of indexed files: day1/readindexed.cpp, which     *)
(* reads the chunks in an OpenMP loop, and                                 *)
(* day3/challenge-problems/src/readindexed.cpp, which reads them with a    *)
(* thmgr_t.  They differ in what a chunk contributes and merge the chunks  *)
(* in the same way.  ReadIndexed models the reader of day4.                *)
(*                                                                         *)
(* A thread shares nothing but heads and tails with the others, so reading *)
(* its chunk is one operator and a step of its own are the insertions.     *)
(* The lengths that readChunk returns are summed up (in day1 by all        *)
(* threads without a lock) and never used; they are left out.              *)
(***************************************************************************)
EXTENDS BlockTree

CONSTANTS
    Truncated,     \* bytes that do not hold a whole block
    NumChunks,     \* chunks in the header
    Files          \* files to be read, sequences of NumChunks chunks

ASSUME ChunkAssumption == NumChunks \in Nat \ {0}

ASSUME FilesAssumption ==
    \A f \in Files : \A c \in 1 .. NumChunks :
        f[c].blocks \in Seq(Range(f[c].blocks))

VARIABLES
    reader,        \* "day1" or "day3"
    file,          \* the file, a sequence of chunks [blocks, map]
    mainPc,        \* where main is
    chunk,         \* main's loop counter
    pc,            \* where the thread of each chunk is
    mutex,         \* holder of the mutex, or 0
    heap,          \* the block objects of the chunks that have been read
    heads, tails,  \* shared: first blocks; hash -> last block
    linked,        \* heads main has linked
    scanned,       \* hashes of the tails main has looked at
    valid, best    \* main's flag, tip and length

vars == <<reader, file, mainPc, chunk, pc, mutex, heap, heads, tails, linked,
          scanned, valid, best>>

Chunks == 1 .. NumChunks

report ==
    CASE mainPc = "aborted" ->
            [status |-> "aborted", hash |-> Zero, length |-> 0]
      [] mainPc = "done" /\ valid /\ best.id # NoBlock ->
            [status |-> "tip", hash |-> heap[best.id].blk.hash,
             length |-> best.length]
      [] mainPc = "done" /\ ~(valid /\ best.id # NoBlock) ->
            [status |-> "invalid", hash |-> Zero, length |-> 0]
      [] OTHER -> [status |-> "none", hash |-> Zero, length |-> 0]

Reading == INSTANCE ChainReading

-----------------------------------------------------------------------------
(* readChunk, as far as it is private to the thread.                        *)

\* The blocks of a chunk up to bytes that do not parse.
Parsed(blocks) ==
    SubSeq(blocks, 1, SelectInSeq(blocks \o <<Truncated>>,
                                  LAMBDA blk : blk = Truncated) - 1)

\* day1 hangs the first block of all chunks but the first on a dummy with the
\* hash it asks for; day3 hangs every first block on one that is no coinbase,
\* and that dummy has no hash.  The dummy has the balances to start from.
UsesDummy(rd, c, blk) == IF rd = "day1" THEN c > 1 ELSE blk.prev # Zero

Dummy(rd, before, blk) ==
    [blk      |-> [hash |-> IF rd = "day1" THEN blk.prev ELSE Truncated],
     prev     |-> NoBlock,
     length   |-> 1,
     balances |-> before]

Validated(rd, blk, bal) ==
    IF rd = "day1" THEN ValidateDay1(blk, bal) ELSE Validate(blk, bal)

\* One turn of the loop.  day1 keeps the longest chain of the chunk and skips
\* what is invalid; day3 keeps the last block and gives up the chunk.
ReadOne(rd, c, before, acc, blk) ==
    LET id    == <<c, acc.n + 1>>
        dummy == acc.n = 0 /\ UsesDummy(rd, c, blk)
        h     == IF dummy THEN Put(acc.heap, <<c, 0>>, Dummy(rd, before, blk))
                          ELSE acc.heap
        prev  == IF dummy THEN <<c, 0>> ELSE Predecessor(blk, acc.bmap)
        v     == Validated(rd, blk, StartBalances(h, prev))
        new   == [blk |-> blk, prev |-> prev, length |-> LengthFrom(h, prev),
                  balances |-> v.balances]
        taken == v.ok /\ (rd = "day1" =>
                            acc.tip = NoBlock \/ h[acc.tip].length < new.length)
    IN  [n       |-> acc.n + 1,
         heap    |-> Put(h, id, new),
         bmap    |-> IF v.ok THEN Put(acc.bmap, blk.hash, id) ELSE acc.bmap,
         tip     |-> IF taken THEN id ELSE acc.tip,
         refused |-> acc.refused \cup (IF v.ok THEN {} ELSE {id})]

NothingRead ==
    [n |-> 0, heap |-> NoMap, bmap |-> NoMap, tip |-> NoBlock, refused |-> {}]

ReadBlocks(rd, c, before, blocks) ==
    FoldLeft(LAMBDA acc, blk : ReadOne(rd, c, before, acc, blk),
             NothingRead, Parsed(blocks))

\* A chunk starts from the balances of the map before it.
ReadChunk(c) ==
    ReadBlocks(reader, c, IF c = 1 THEN NoBalances ELSE file[c - 1].map,
               file[c].blocks)

\* Slip: day3 goes on after a bad block, as the other readers do.
GivenUpNever(r) == FALSE

\* day3 returns at the first block that is not valid.
GivenUp(r) == reader = "day3" /\ r.refused # {}

\* day1 compares the balances of its tip with the map in both directions,
\* day3 looks for those of its tip in the map.
TipMatchesMap(c, r) ==
    LET bal == r.heap[r.tip].balances
    IN  IF reader = "day1"
        THEN r.tip # NoBlock /\ BalanceMapsEqual(bal, file[c].map)
        ELSE \A x \in DOMAIN bal : x \in DOMAIN file[c].map /\ file[c].map[x] = bal[x]

\* is_coinbase of day1 asserts that a valid block without a predecessor in
\* its prev_hash has none in prev_block; day3 takes the balances of a null tip
\* when nothing has been parsed.
Crashes(c, r) ==
    IF reader = "day1"
    THEN c > 1 /\ r.n > 0 /\ <<c, 1>> \notin r.refused
         /\ r.heap[<<c, 1>>].blk.prev = Zero
    ELSE r.refused = {} /\ r.tip = NoBlock

\* The first block of the chunk is one to be linked.
HasHead(c, r) ==
    r.n > 0 /\ <<c, 1>> \notin r.refused /\ r.heap[<<c, 1>>].blk.prev # Zero

-----------------------------------------------------------------------------

ReadersInit ==
    /\ reader \in {"day1", "day3"}
    /\ file \in Files
    /\ mainPc = "launch"
    /\ chunk = 1
    /\ pc = [c \in Chunks |-> "none"]
    /\ mutex = 0
    /\ heap = NoMap
    /\ heads = {}
    /\ tails = NoMap
    /\ linked = {}
    /\ scanned = {}
    /\ valid = TRUE
    /\ best = [id |-> NoBlock, length |-> 0]

Move(c, from, to) ==
    /\ mainPc # "aborted"
    /\ pc[c] = from
    /\ pc' = [pc EXCEPT ![c] = to]

mainVars == <<mainPc, chunk, linked, scanned, valid, best>>

\* The chunk is read up to the first lock.
Read(c) ==
    LET r == ReadChunk(c)
    IN  /\ ~Crashes(c, r)
        /\ heap' = r.heap @@ heap
        /\ Move(c, "read",
                CASE GivenUp(r) -> "exit"
                  [] reader = "day1" /\ HasHead(c, r) -> "lockHead"
                  [] ~GivenUp(r) /\ ~(reader = "day1" /\ HasHead(c, r)) ->
                        IF r.tip # NoBlock /\ TipMatchesMap(c, r)
                        THEN "lockTail" ELSE "exit")
        /\ UNCHANGED <<reader, file, mutex, heads, tails, mainVars>>

ReadCrashes(c) ==
    /\ mainPc # "aborted"
    /\ pc[c] = "read"
    /\ Crashes(c, ReadChunk(c))
    /\ mainPc' = "aborted"
    /\ UNCHANGED <<reader, file, chunk, pc, mutex, heap, heads, tails, linked,
                   scanned, valid, best>>

Lock(c, from, to) ==
    /\ mutex = 0
    /\ Move(c, from, to)
    /\ mutex' = c
    /\ UNCHANGED <<reader, file, heap, heads, tails, mainVars>>

\* day1, at the first block.
InsertHead(c) ==
    /\ Move(c, "insertHead",
            LET r == ReadChunk(c)
            IN  IF r.tip # NoBlock /\ TipMatchesMap(c, r) THEN "lockTail" ELSE "exit")
    /\ heads' = heads \cup {<<c, 1>>}
    /\ mutex' = 0
    /\ UNCHANGED <<reader, file, heap, tails, mainVars>>

\* tails[tip->blk_hash] = tip; day3 enters the first block here.
InsertTail(c) ==
    LET r == ReadChunk(c)
    IN  /\ Move(c, "insertTail", "exit")
        /\ tails' = Put(tails, r.heap[r.tip].blk.hash, r.tip)
        /\ heads' = IF reader = "day3" /\ HasHead(c, r)
                    THEN heads \cup {<<c, 1>>} ELSE heads
        /\ mutex' = 0
        /\ UNCHANGED <<reader, file, heap, mainVars>>

doReadChunk(c) ==
    \/ Read(c)
    \/ ReadCrashes(c)
    \/ Lock(c, "lockHead", "insertHead")
    \/ InsertHead(c)
    \/ Lock(c, "lockTail", "insertTail")
    \/ InsertTail(c)

-----------------------------------------------------------------------------
(* main.                                                                    *)

\* day3 creates and launches one thread after the other.
LaunchThread ==
    /\ reader = "day3"
    /\ mainPc = "launch"
    /\ pc' = [pc EXCEPT ![chunk] = "read"]
    /\ chunk' = IF chunk = NumChunks THEN 1 ELSE chunk + 1
    /\ mainPc' = IF chunk = NumChunks THEN "wait" ELSE "launch"
    /\ UNCHANGED <<reader, file, mutex, heap, heads, tails, linked, scanned,
                   valid, best>>

\* ... and waits for them in turn.
WaitThread ==
    /\ reader = "day3"
    /\ mainPc = "wait"
    /\ pc[chunk] = "exit"
    /\ chunk' = chunk + 1
    /\ mainPc' = IF chunk = NumChunks THEN "link" ELSE "wait"
    /\ UNCHANGED <<reader, file, pc, mutex, heap, heads, tails, linked, scanned,
                   valid, best>>

\* The OpenMP loop of day1: any iterations may run at once.
ParallelFor ==
    /\ reader = "day1"
    /\ mainPc = "launch"
    /\ pc' = [c \in Chunks |-> "read"]
    /\ mainPc' = "wait"
    /\ UNCHANGED <<reader, file, chunk, mutex, heap, heads, tails, linked,
                   scanned, valid, best>>

\* Its end is a barrier.
Barrier ==
    /\ reader = "day1"
    /\ mainPc = "wait"
    /\ \A c \in Chunks : pc[c] = "exit"
    /\ mainPc' = "link"
    /\ UNCHANGED <<reader, file, chunk, pc, mutex, heap, heads, tails, linked,
                   scanned, valid, best>>

\* Every head gets the tail with the hash it asks for, in any order.
LinkHead ==
    \E p \in heads \ linked :
        LET h == heap[p].blk.prev
        IN  /\ mainPc = "link"
            /\ h \in DOMAIN tails
            /\ heap' = [heap EXCEPT ![p].prev = tails[h],
                                    ![p].length = LengthFrom(heap, tails[h]),
                                    ![p].balances = heap[tails[h]].balances]
            /\ linked' = linked \cup {p}
            /\ UNCHANGED <<reader, file, mainPc, chunk, pc, mutex, heads, tails,
                           scanned, valid, best>>

\* Slip: the loop does not set the flag.
NoPredecessorQuiet ==
    /\ mainPc = "link"
    /\ \E p \in heads \ linked : heap[p].blk.prev \notin DOMAIN tails
    /\ mainPc' = "scan"
    /\ UNCHANGED <<reader, file, chunk, pc, mutex, heap, heads, tails, linked,
                   scanned, valid, best>>

NoPredecessor ==
    /\ mainPc = "link"
    /\ \E p \in heads \ linked : heap[p].blk.prev \notin DOMAIN tails
    /\ mainPc' = "scan"
    /\ valid' = FALSE
    /\ UNCHANGED <<reader, file, chunk, pc, mutex, heap, heads, tails, linked,
                   scanned, best>>

AllLinked ==
    /\ mainPc = "link"
    /\ heads = linked
    /\ mainPc' = "scan"
    /\ UNCHANGED <<reader, file, chunk, pc, mutex, heap, heads, tails, linked,
                   scanned, valid, best>>

\* recompute_length of the tail and its predecessors; the longest is kept.
ScanTail ==
    /\ mainPc = "scan"
    /\ \E h \in DOMAIN tails \ scanned :
          LET t == tails[h]
          IN  /\ heap' = [x \in DOMAIN heap |->
                            IF x \in Path(heap, t)
                            THEN [heap[x] EXCEPT !.length = Cardinality(Path(heap, x))]
                            ELSE heap[x]]
              /\ best' = IF best.length < heap'[t].length
                         THEN [id |-> t, length |-> heap'[t].length]
                         ELSE best
              /\ scanned' = scanned \cup {h}
    /\ UNCHANGED <<reader, file, mainPc, chunk, pc, mutex, heads, tails, linked,
                   valid>>

PrintReport ==
    /\ mainPc = "scan"
    /\ scanned = DOMAIN tails
    /\ mainPc' = "done"
    /\ UNCHANGED <<reader, file, chunk, pc, mutex, heap, heads, tails, linked,
                   scanned, valid, best>>

Main ==
    \/ LaunchThread
    \/ WaitThread
    \/ ParallelFor
    \/ Barrier
    \/ LinkHead
    \/ NoPredecessor
    \/ AllLinked
    \/ ScanTail
    \/ PrintReport

Ended == mainPc \in {"done", "aborted"} /\ UNCHANGED vars

ReadersNext == Main \/ Ended \/ \E c \in Chunks : doReadChunk(c)

ReadersSpec == ReadersInit /\ [][ReadersNext]_vars

-----------------------------------------------------------------------------

\* A file that rewritechain made from a chain of valid blocks is reported as
\* the sequential reader reports it; a tip that is named is a block that the
\* sequential reader accepts at that length.  The second holds of day1 if the
\* chunks follow each other or the maps are right, of day3, which does not ask
\* whether the map holds more than the balances of the tip, if the maps are.
ReportIsRight ==
    /\ (report.status # "none" /\ Reading!WellIndexed(file)) =>
            report = Reading!Sequential(file)
    /\ (report.status = "tip"
            /\ (Reading!HonestMaps(file)
                \/ (reader = "day1" /\ Reading!InOrder(file)))) =>
            report \in Reading!Accepted(file)

\* A chunk of day3 counts whole or not at all, although it returns from the
\* middle of a chunk and fills two shared containers: where its head or its
\* tail is in them, each of its blocks was valid and the other one is there
\* too (unless it is a coinbase; a tail may be replaced by one with its hash).
ChunkIsWhole ==
    (reader = "day3" /\ mainPc \in {"link", "scan", "done"}) =>
        \A c \in Chunks :
            LET r == ReadChunk(c)
            IN  /\ <<c, 1>> \in heads =>
                      r.refused = {} /\ r.heap[r.tip].blk.hash \in DOMAIN tails
                /\ (\E h \in DOMAIN tails : tails[h][1] = c) =>
                      r.refused = {} /\ (<<c, 1>> \in heads <=> HasHead(c, r))

=============================================================================
