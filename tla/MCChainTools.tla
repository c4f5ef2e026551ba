----------------------------- MODULE MCChainTools -----------------------------
(* ChainTools for TLC: files of at most MaxBlocks blocks out of a pool that *)
(* has two coinbase blocks, payments, forks, blocks that do not validate,   *)
(* one of which day1 accepts, an orphan, and two copies of a block of which *)
(* one has a bad signature.                                                 *)
EXTENDS ChainTools

CONSTANTS a, b, c

Pay(s, d, ch, n, ok) ==
    [source |-> s, dest |-> d, change |-> ch, amount |-> n, signed |-> ok]

Blk(h, p, txs, r, ok) ==
    [hash |-> h, prev |-> p, txs |-> txs, reward |-> r, hashed |-> ok]

MCPool ==
    {Blk("g1", Zero, <<>>, a, TRUE),
     Blk("g2", Zero, <<>>, b, TRUE),
     \* a pays b, and b pays part of it on
     Blk("p1", "g1", <<Pay(a, b, c, 2, TRUE)>>, a, TRUE),
     Blk("p1", "g1", <<Pay(a, b, c, 2, FALSE)>>, a, TRUE),
     Blk("p2", "p1", <<Pay(b, c, a, 1, TRUE), Pay(a, c, b, 3, TRUE)>>, b, TRUE),
     \* the rest of a chain of five
     Blk("p3", "p2", <<>>, c, TRUE),
     Blk("p4", "p3", <<Pay(c, a, b, 2, TRUE)>>, a, TRUE),
     \* a second child of g1, and a child of that one
     Blk("f1", "g1", <<Pay(a, a, b, 1, TRUE)>>, c, TRUE),
     Blk("f2", "f1", <<>>, c, TRUE),
     \* a payment of nothing, which day1 accepts
     Blk("z1", "p1", <<Pay(a, b, c, 0, TRUE)>>, c, TRUE),
     \* money that is not there, a bad hash, a child of the bad hash
     Blk("x1", "g1", <<Pay(a, b, c, 1, TRUE), Pay(a, b, c, 3, TRUE)>>, b, TRUE),
     Blk("x2", "p1", <<>>, b, FALSE),
     Blk("x3", "x2", <<>>, b, TRUE)}

=============================================================================
