------------------------------ MODULE ChainTools ------------------------------
(***************************************************************************)
(* readchain and rewritechain given the same file: the objects, maps and   *)
(* tips of readchain keep their names, those of rewritechain begin with w. *)
(* readchain goes on to the end of a file that makes rewritechain abort.   *)
(***************************************************************************)
EXTENDS ReadChain, RewriteChain

ToolsInit == Init /\ WriterInit

ReadBoth(blk) ==
    /\ ReadNext(blk)
    /\ \/ WriterRead(blk)
       \/ outcome = "orphan" /\ UNCHANGED writerVars

RewriteFile(n) == Rewrite(n) /\ UNCHANGED vars

ToolsNext ==
    \/ \E blk \in Pool : ReadBoth(blk)
    \/ \E n \in ChunkCounts : RewriteFile(n)

ToolsSpec == ToolsInit /\ [][ToolsNext]_<<vars, writerVars>>

-----------------------------------------------------------------------------

\* Whatever the number of chunks, the indexed file holds the whole chain of
\* its tip in order (rewritechain.cpp:36-104), and the assert of line 24 on
\* the lengths counted while reading holds; that of line 66 on the number of
\* maps can fail only with fewer blocks than chunks.
NothingLost == WholeChainWritten /\ LengthIsMapSize /\ ChunksHaveMaps

\* The map written after a chunk is what readchain has for the last block of
\* the chunk, if readchain accepts every block of the file.
MapsAreBalances ==
    (/\ outcome = "written"
     /\ \A id \in DOMAIN heap : IsValid(heap, heap[id].blk, heap[id].prev)) =>
        \A i \in DOMAIN output :
            LET h == Last(output[i].blocks).hash
            IN  BalanceMapsEqual(output[i].map, heap[bmap[h]].balances)

=============================================================================
