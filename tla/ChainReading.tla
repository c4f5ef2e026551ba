---------------------------- MODULE ChainReading ----------------------------
(***************************************************************************)
(* What reading an indexed file promises, without chunks read in parallel: *)
(* one report.  For a file as rewritechain writes it from a chain of valid *)
(* blocks it is the report of the sequential reader on the same blocks.    *)
(* For any other file it may be a failure, and if it names a block then    *)
(* the sequential reader accepts that block at that length, too, provided  *)
(* that the chunks follow each other or the maps are right: the reader     *)
(* starts a chunk from the map before it but links it by the hash.         *)
(***************************************************************************)
EXTENDS BlockTree

CONSTANT Truncated     \* stands for bytes that do not hold a whole block

VARIABLES
    file,              \* sequence of chunks [blocks, map]
    report             \* [status, hash, length]

readingVars == <<file, report>>

Report(status, hash, length) ==
    [status |-> status, hash |-> hash, length |-> length]

NoReport == Report("none", Zero, 0)
Invalid  == Report("invalid", Zero, 0)
Aborted  == Report("aborted", Zero, 0)

\* The blocks of the file that a reader can parse, in order.
BlocksOf(f) ==
    LET all == FlattenSeq([i \in DOMAIN f |-> f[i].blocks])
    IN  FlattenSeq([j \in DOMAIN all |->
                       IF all[j] = Truncated THEN <<>> ELSE <<all[j]>>])

Accepted(f) ==
    LET r == ReadAll(BlocksOf(f))
    IN  {Report("tip", h, r.heap[r.bmap[h]].length) : h \in DOMAIN r.bmap}

Sequential(f) ==
    LET r == ReadAll(BlocksOf(f))
    IN  Report("tip", r.heap[r.tip].blk.hash, r.heap[r.tip].length)

\* A chain of valid blocks, cut into chunks with the right maps.
WellIndexed(f) ==
    LET blocks == BlocksOf(f)
        r == ReadAll(blocks)
    IN  /\ \A i \in DOMAIN f :
              /\ f[i].blocks # <<>>
              /\ Truncated \notin ToSet(f[i].blocks)
        /\ \A i \in DOMAIN blocks :
              /\ blocks[i].hash \in DOMAIN r.bmap
              /\ blocks[i].prev = IF i = 1 THEN Zero ELSE blocks[i - 1].hash
        /\ \A i \in DOMAIN f :
              LET last == r.bmap[Last(f[i].blocks).hash]
              IN  BalanceMapsEqual(f[i].map, r.heap[last].balances)

\* Every chunk continues the one before it.
InOrder(f) ==
    \A i \in DOMAIN f \ {1} :
        (f[i].blocks # <<>> /\ f[i - 1].blocks # <<>>
            /\ f[i].blocks[1] # Truncated /\ Last(f[i - 1].blocks) # Truncated)
        => f[i].blocks[1].prev = Last(f[i - 1].blocks).hash

\* Every map holds the balances of the last block before it that the
\* sequential reader accepts; there is one.
HonestMaps(f) ==
    LET r == ReadAll(BlocksOf(f))
    IN  \A i \in DOMAIN f :
            LET ok == SelectSeq(f[i].blocks,
                                LAMBDA blk : blk # Truncated
                                             /\ blk.hash \in DOMAIN r.bmap
                                             /\ r.heap[r.bmap[blk.hash]].blk = blk)
            IN  /\ ok # <<>>
                /\ BalanceMapsEqual(f[i].map,
                        r.heap[r.bmap[Last(ok).hash]].balances)

\* Any block at any length.
Anything(f) ==
    LET blocks == BlocksOf(f)
    IN  {Report("tip", blocks[i].hash, n) :
            i \in DOMAIN blocks, n \in 1 .. Len(blocks) + Len(f)}

Allowed(f) ==
    IF WellIndexed(f) THEN {Sequential(f)}
    ELSE {Invalid, Aborted} \cup
         (IF InOrder(f) \/ HonestMaps(f) THEN Accepted(f) ELSE Anything(f))

Init == report = NoReport

Finish ==
    /\ report = NoReport
    /\ report' # NoReport
    /\ report' \in Allowed(file)
    /\ UNCHANGED file

Spec == Init /\ [][Finish]_readingVars

=============================================================================
