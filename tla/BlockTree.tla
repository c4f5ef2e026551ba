------------------------------ MODULE BlockTree ------------------------------
(***************************************************************************)
(* The block_t objects a reader of day1, day3 or day4 builds: a heap of    *)
(* objects that point to their predecessors.  An object is known by a pair *)
(* <<reader, n>>, the n-th block of a reader; it is a record               *)
(*     [blk, prev, length, balances]                                       *)
(* of the block it was read from, the object prev_block points to, and the *)
(* members length and balances.  A block map sends hashes to objects.      *)
(***************************************************************************)
EXTENDS Ledger

NoBlock == <<0, 0>>     \* a null pointer

NoMap == [h \in {} |-> NoBlock]

\* What block_t::read finds for prev_block: nothing for a coinbase block and
\* for a predecessor that is not in the map.
Predecessor(blk, bmap) ==
    IF blk.prev # Zero /\ blk.prev \in DOMAIN bmap
    THEN bmap[blk.prev]
    ELSE NoBlock

\* set_prev_block and reset_balances: balances to start from, and length.
StartBalances(heap, prev) ==
    IF prev = NoBlock THEN NoBalances ELSE heap[prev].balances

LengthFrom(heap, prev) ==
    IF prev = NoBlock THEN 1 ELSE heap[prev].length + 1

\* The object of a block read after prev, validated.
NewBlock(heap, blk, prev) ==
    [blk      |-> blk,
     prev     |-> prev,
     length   |-> LengthFrom(heap, prev),
     balances |-> Validate(blk, StartBalances(heap, prev)).balances]

IsValid(heap, blk, prev) == Validate(blk, StartBalances(heap, prev)).ok

\* The object and its predecessors.
Path(heap, id) ==
    LET path[x \in DOMAIN heap] ==
            IF heap[x].prev = NoBlock
            THEN {x}
            ELSE {x} \cup path[heap[x].prev]
    IN  path[id]

-----------------------------------------------------------------------------
(* A reader that takes the blocks in the order of the file: readchain.cpp.  *)

EmptyReader == [heap |-> NoMap, bmap |-> NoMap, tip |-> NoBlock]

\* Slip: refused blocks are remembered as well.
ReadBlockAll(r, blk) ==
    LET id   == <<1, Cardinality(DOMAIN r.heap) + 1>>
        prev == Predecessor(blk, r.bmap)
    IN  [heap |-> Put(r.heap, id, NewBlock(r.heap, blk, prev)),
         bmap |-> Put(r.bmap, blk.hash, id),
         tip  |-> IF IsValid(r.heap, blk, prev) THEN id ELSE r.tip]

\* One turn of the loop of main (day4): a block that validates is entered
\* into the map and becomes the tip, another one is forgotten.
ReadBlock(r, blk) ==
    LET id   == <<1, Cardinality(DOMAIN r.heap) + 1>>
        prev == Predecessor(blk, r.bmap)
        ok   == IsValid(r.heap, blk, prev)
    IN  [heap |-> Put(r.heap, id, NewBlock(r.heap, blk, prev)),
         bmap |-> IF ok THEN Put(r.bmap, blk.hash, id) ELSE r.bmap,
         tip  |-> IF ok THEN id ELSE r.tip]

ReadAll(file) == FoldLeft(ReadBlock, EmptyReader, file)

=============================================================================
