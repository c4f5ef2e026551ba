---------------------------- MODULE RewriteChain ----------------------------
(***************************************************************************)
(* rewritechain.cpp of day4: read a chain block by block, then write the   *)
(* chain of the last block as an indexed file.  Unlike readchain it enters *)
(* every block into the map, valid or not, and requires every block but    *)
(* the first to have a predecessor.  The text of day1 is the same, but for *)
(* the validation that it is linked with, which has other balances for a   *)
(* block with an amount of zero.                                           *)
(***************************************************************************)
EXTENDS ChainFile, IndexedFile

CONSTANT ChunkCounts    \* values of the argument num-of-chunks

\* The indices of the blocks of a file are values of an unsigned.
ASSUME RewriteAssumption == ChunkCounts \subseteq Nat /\ MaxBlocks < UnsignedWrap

VARIABLES
    chunks,        \* the argument, 0 until it is looked at
    file,          \* the blocks read
    wheap, wbmap, wtip,
    output,        \* the indexed file
    outcome        \* "reading", "written", or how the program broke off

writerVars == <<chunks, file, wheap, wbmap, wtip, output, outcome>>

WriterInit ==
    /\ chunks = 0
    /\ file = <<>>
    /\ wheap = NoMap
    /\ wbmap = NoMap
    /\ wtip = NoBlock
    /\ output = <<>>
    /\ outcome = "reading"

\* The blocks of the chain of id, the first one first, as block objects.
Chain(h, id) ==
    LET chain[x \in DOMAIN h] ==
            IF h[x].prev = NoBlock THEN <<h[x]>>
            ELSE Append(chain[h[x].prev], h[x])
    IN  chain[id]

\* Lines 140-160: map and tip whatever validate says, then the assert of
\* line 156.
WriterRead(blk) ==
    LET id   == <<1, Len(file) + 1>>
        prev == Predecessor(blk, wbmap)
    IN  /\ outcome = "reading"
        /\ Len(file) < MaxBlocks
        /\ file' = Append(file, blk)
        /\ wheap' = Put(wheap, id, NewBlock(wheap, blk, prev))
        /\ wbmap' = Put(wbmap, blk.hash, id)
        /\ wtip' = id
        /\ outcome' = IF file = <<>> \/ prev # NoBlock
                      THEN "reading" ELSE "orphan"
        /\ UNCHANGED <<chunks, output>>

\* The asserts of rewrite_chain, in their order: lines 13, 24 and 66.  A file
\* without blocks leaves no tip, which line 19 dereferences.
Verdict(chain, n) ==
    CASE n <= 1                                         -> "chunks"
      [] n > 1 /\ chain = <<>>                          -> "crash"
      [] n > 1 /\ chain # <<>>
            /\ wheap[wtip].length # Len(chain)          -> "length"
      [] n > 1 /\ chain # <<>>
            /\ wheap[wtip].length = Len(chain)
            /\ Cardinality(Cuts(Len(chain), n)) # n     -> "maps"
      [] OTHER                                          -> "written"

\* rewrite_chain, called at the end of the file.
Rewrite(n) ==
    LET chain == IF wtip = NoBlock THEN <<>> ELSE Chain(wheap, wtip)
    IN  /\ outcome = "reading"
        /\ chunks' = n
        /\ outcome' = Verdict(chain, n)
        /\ output' = IF outcome' = "written"
                     THEN Rewritten([i \in DOMAIN chain |-> chain[i].blk],
                                    [i \in DOMAIN chain |-> chain[i].balances],
                                    n)
                     ELSE <<>>
        /\ UNCHANGED <<file, wheap, wbmap, wtip>>

WriterNext ==
    \/ \E blk \in Pool : WriterRead(blk)
    \/ \E n \in ChunkCounts : Rewrite(n)

WriterSpec == WriterInit /\ [][WriterNext]_writerVars

-----------------------------------------------------------------------------

\* The blocks of the output, chunk after chunk.
Flat == FlattenSeq([i \in DOMAIN output |-> output[i].blocks])

\* Whatever the number of chunks, the file holds the whole chain of the tip
\* in order, no block twice and none left out, and no chunk is empty.
WholeChainWritten ==
    outcome = "written" =>
        /\ Flat = [i \in DOMAIN Chain(wheap, wtip) |-> Chain(wheap, wtip)[i].blk]
        /\ \A i \in DOMAIN output : output[i].blocks # <<>>

\* assert (next_map.size() == tip->length), line 24: the length counted while
\* reading is the number of blocks on the way back to the first one.
LengthIsMapSize == outcome # "length"

\* assert (mapStartOffsets.size() == chunks), line 66: as long as there are as
\* many blocks as chunks, every chunk that was asked for gets its map.
ChunksHaveMaps == outcome = "maps" => Len(Chain(wheap, wtip)) < chunks

=============================================================================
