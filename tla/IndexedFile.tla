----------------------------- MODULE IndexedFile -----------------------------
(***************************************************************************)
(* The indexed file of day3/challenge-problems/src/IndexedFileFormat.md as *)
(* rewrite_chain writes it (rewritechain.cpp:10-104, the same in day1 and  *)
(* day4): the blocks of a chain cut into chunks, and after each chunk the  *)
(* balances of its last block.  A file is a sequence of records            *)
(*     [blocks, map];                                                      *)
(* offsets and sizes are positions of the parts and are not modelled.      *)
(***************************************************************************)
EXTENDS Integers, Sequences, FiniteSets

CONSTANT UnsignedWrap    \* 2^32, the values of an unsigned

ASSUME WrapAssumption == UnsignedWrap \in Nat \ {0}

\* Slip: the last chunk ends where its share ends.
ChunkEndsEven(size, chunks) ==
    {((size \div chunks) * (i + 1) - 1) % UnsignedWrap : i \in 0 .. chunks - 1}

\* chunkEnds: the indices of the last blocks of the chunks (lines 37-43).
\* size_t subtraction wraps, and the set keeps the low bits of the result.
ChunkEnds(size, chunks) ==
    {((IF i = chunks - 1 THEN size ELSE (size \div chunks) * (i + 1)) - 1)
        % UnsignedWrap : i \in 0 .. chunks - 1}

\* The ends that are indices of blocks: each makes a chunk and a map.
Cuts(size, chunks) == ChunkEnds(size, chunks) \cap (0 .. size - 1)

\* The chunk that ends at block e starts after the previous end.
ChunkStart(size, chunks, e) ==
    IF \E d \in Cuts(size, chunks) : d < e
    THEN 1 + CHOOSE d \in Cuts(size, chunks) :
                 d < e /\ \A f \in Cuts(size, chunks) : f < e => f <= d
    ELSE 0

\* The i-th cut, in the order of the blocks.
CutAt(size, chunks, i) ==
    CHOOSE e \in Cuts(size, chunks) :
        Cardinality({d \in Cuts(size, chunks) : d <= e}) = i

\* Slip: the map of the first block of the chunk.
RewrittenFirst(blocks, balances, chunks) ==
    LET size == Len(blocks)
    IN  [i \in 1 .. Cardinality(Cuts(size, chunks)) |->
            LET e == CutAt(size, chunks, i)
            IN  [blocks |-> SubSeq(blocks, ChunkStart(size, chunks, e) + 1, e + 1),
                 map    |-> balances[ChunkStart(size, chunks, e) + 1]]]

\* The chunks written for blocks 1 .. size with the given balances.
Rewritten(blocks, balances, chunks) ==
    LET size == Len(blocks)
    IN  [i \in 1 .. Cardinality(Cuts(size, chunks)) |->
            LET e == CutAt(size, chunks, i)
            IN  [blocks |-> SubSeq(blocks, ChunkStart(size, chunks, e) + 1, e + 1),
                 map    |-> balances[e + 1]]]

=============================================================================
