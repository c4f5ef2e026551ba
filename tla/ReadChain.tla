------------------------------ MODULE ReadChain ------------------------------
(***************************************************************************)
(* readchain.cpp: a block chain read block by block.  The file is any      *)
(* sequence of blocks of Pool, which has forks, orphans, refused blocks    *)
(* and repetitions.  heap, bmap and tip are those of day4 (day3 too), the  *)
(* tip the last block that validated.  The program of day1 reads the same  *)
(* file into objects of its own, validates them without a test of the      *)
(* amounts, and replaces its tip by longer chains only.                    *)
(***************************************************************************)
EXTENDS ChainFile

VARIABLES
    heap, bmap, tip,
    heap1, bmap1,  \* the objects and the map of day1
    longest        \* its tip

day1 == <<heap1, bmap1, longest>>

vars == <<heap, bmap, tip, day1>>

Init ==
    /\ heap = NoMap /\ bmap = NoMap /\ tip = NoBlock
    /\ heap1 = NoMap /\ bmap1 = NoMap /\ longest = NoBlock

Read(blk) ==
    LET r == ReadBlock([heap |-> heap, bmap |-> bmap, tip |-> tip], blk)
    IN  /\ Cardinality(DOMAIN heap) < MaxBlocks
        /\ heap' = r.heap
        /\ bmap' = r.bmap
        /\ tip' = r.tip

\* The object of a block that day1 read after prev and validated.
NewBlockDay1(h, blk, prev) ==
    [blk      |-> blk,
     prev     |-> prev,
     length   |-> LengthFrom(h, prev),
     balances |-> ValidateDay1(blk, StartBalances(h, prev)).balances]

IsValidDay1(h, blk, prev) == ValidateDay1(blk, StartBalances(h, prev)).ok

\* Slip: the last block is the tip, as in day4.
LongerOfLast(h, old, new) == new

\* day1/readchain.cpp:50-54
LongerOf(h, old, new) ==
    IF old = NoBlock \/ h[old].length < h[new].length THEN new ELSE old

ReadDay1(blk) ==
    LET id   == <<1, Cardinality(DOMAIN heap1) + 1>>
        prev == Predecessor(blk, bmap1)
    IN  /\ heap1' = Put(heap1, id, NewBlockDay1(heap1, blk, prev))
        /\ IF IsValidDay1(heap1, blk, prev)
           THEN /\ bmap1' = Put(bmap1, blk.hash, id)
                /\ longest' = LongerOf(heap1', longest, id)
           ELSE UNCHANGED <<bmap1, longest>>

ReadNext(blk) == Read(blk) /\ ReadDay1(blk)

Next == \E blk \in Pool : ReadNext(blk)

Spec == Init /\ [][Next]_vars

-----------------------------------------------------------------------------

\* The objects that validated and that the map or a later block can reach.
Accepted == UNION {Path(heap, bmap[h]) : h \in DOMAIN bmap}

\* The predecessors of an accepted block have all been accepted: nothing that
\* failed to validate is ever built upon (readchain.cpp:48-50).
ChainsAreValid ==
    \A id \in Accepted : IsValid(heap, heap[id].blk, heap[id].prev)

\* No block of the file moves an amount of zero.
NoZeroAmounts ==
    \A id \in DOMAIN heap :
        \A tx \in ToSet(heap[id].blk.txs) : tx.amount > 0

\* The two rules for the tip.  day1 reports the longest of the chains that it
\* accepts and never goes back to a shorter one (day1/readchain.cpp:48-55).  On
\* a file without forks, where every hash that day4 accepts is on the path of
\* its tip, both versions report the same, unless an amount is zero: day1 then
\* accepts a block that day4 refuses, and its chain may be longer.
TipRules ==
    /\ longest # NoBlock =>
          \A h \in DOMAIN bmap1 : heap1[bmap1[h]].length <= heap1[longest].length
    /\ (/\ tip # NoBlock /\ NoZeroAmounts
        /\ DOMAIN bmap = {heap[id].blk.hash : id \in Path(heap, tip)}) =>
          /\ heap[tip].blk.hash = heap1[longest].blk.hash
          /\ heap[tip].length = heap1[longest].length

=============================================================================
