----------------------------- MODULE HashedFile -----------------------------
(***************************************************************************)
(* The file that day3/practice-exercises/block_hash.c hashes, and the hash *)
(* of one of its blocks.  Pointers are offsets from the start of the file. *)
(***************************************************************************)
EXTENDS Integers

CONSTANTS
    Size,        \* bytes of the file (sbuf.st_size); mmap refuses 0
    BlockSize,   \* BLOCK_SIZE
    LongSize,    \* sizeof(unsigned long)
    WordSize,    \* sizeof(unsigned)
    Unhashed     \* what malloc leaves in an entry of the table

ASSUME SizeAssumption ==
    /\ Size \in Nat \ {0}
    /\ BlockSize \in Nat \ {0}
    /\ LongSize \in Nat \ {0}
    /\ WordSize \in Nat \ {0}
    /\ WordSize <= LongSize

\* Blocks of the file; the last one may be shorter than BlockSize.
HashCount == (Size \div BlockSize) + (IF Size % BlockSize # 0 THEN 1 ELSE 0)

Blocks == 0 .. HashCount - 1

\* Slip: the loop does not look at the end of the file.
AtEndUnchecked(ptr) == FALSE

\* The loop of calculate_and_store_hash leaves at a pointer with less than a
\* long before the end of the file.  The comparison is unsigned: a pointer
\* past the end would look far from it.
AtEnd(ptr) == ptr <= Size /\ Size - ptr < LongSize

\* The offsets of the words calculate_and_store_hash folds into the hash of
\* the block at ptr.  The arithmetic on the words is not modelled: two hashes
\* are the same when they were computed from the same words.
HashOf(ptr) ==
    {ptr + WordSize * i : i \in
        {n \in 0 .. (BlockSize \div LongSize) - 1 :
            \A m \in 0 .. n : ~AtEnd(ptr + WordSize * m)}}

BlockHashOf(b) == HashOf(b * BlockSize)

=============================================================================
