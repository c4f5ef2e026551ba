----------------------------- MODULE SampleFiles -----------------------------
(* Indexed files for the model checker: a chain of four blocks in three      *)
(* chunks as rewritechain writes it, and files that differ from it in one    *)
(* place.                                                                    *)
EXTENDS BlockTree, IndexedFile

CONSTANTS Truncated, NumChunks, a, b, c

Pay(s, d, ch, n, ok) ==
    [source |-> s, dest |-> d, change |-> ch, amount |-> n, signed |-> ok]

Blk(h, p, txs, r, ok) ==
    [hash |-> h, prev |-> p, txs |-> txs, reward |-> r, hashed |-> ok]

G1 == Blk("g1", Zero, <<>>, a, TRUE)
P1 == Blk("p1", "g1", <<Pay(a, b, c, 2, TRUE)>>, a, TRUE)
P2 == Blk("p2", "p1", <<Pay(b, c, a, 1, TRUE)>>, b, TRUE)
P3 == Blk("p3", "p2", <<Pay(c, a, b, 2, TRUE)>>, c, TRUE)

Chain == <<G1, P1, P2, P3>>

\* Blocks that do not belong: a bad hash, a bad signature, a second coinbase,
\* a fork without and with a payment only the blocks before it allow.
Strangers ==
    {[P2 EXCEPT !.hashed = FALSE],
     Blk("p1", "g1", <<Pay(a, b, c, 2, FALSE)>>, a, TRUE),
     Blk("g2", Zero, <<>>, b, TRUE),
     Blk("f1", "g1", <<>>, b, TRUE),
     Blk("f2", "g1", <<Pay(b, a, c, 1, TRUE)>>, c, TRUE)}

BalancesOf(blocks) ==
    LET r == ReadAll(blocks)
    IN  [i \in DOMAIN blocks |-> r.heap[<<1, i>>].balances]

Good == Rewritten(Chain, BalancesOf(Chain), NumChunks)

\* The same chain cut elsewhere.
Recut ==
    {[i \in 1 .. 3 |->
        LET from == IF i = 1 THEN 1 ELSE cut[i - 1] + 1
        IN  [blocks |-> SubSeq(Chain, from, cut[i]),
             map |-> BalancesOf(Chain)[cut[i]]]] :
        cut \in {<<1, 3, 4>>, <<2, 3, 4>>}}

\* A chunk without blocks, with blocks that do not parse, with another block,
\* with another map, and chunks exchanged or repeated.
Damaged ==
    {[Good EXCEPT ![i].blocks = <<>>] : i \in 1 .. 3}
    \cup {[Good EXCEPT ![i].blocks = Append(@, Truncated)] : i \in 1 .. 3}
    \cup {[Good EXCEPT ![i].blocks[1] = s] : i \in 1 .. 3, s \in Strangers}
    \cup {[Good EXCEPT ![i].map = m] :
            i \in 1 .. 3, m \in {NoBalances, c :> 3} \cup {Good[j].map : j \in 1 .. 3}}
    \cup {<<Good[p[1]], Good[p[2]], Good[p[3]]>> : p \in [1 .. 3 -> 1 .. 3]}

\* A fork in the last chunk with the map that the reader will compute for it,
\* and with the map it ought to have.
Forked ==
    {<<Good[1], Good[2],
       [blocks |-> <<s>>, map |-> Validate(s, bal).balances]>> :
        s \in {t \in Strangers : t.prev = "g1"},
        bal \in {Good[1].map, Good[2].map}}

\* A payment that is only covered by a wrong map of the chunk before it.
Overdrawn ==
    LET x == Blk("x", "p1", <<Pay(b, c, a, 9, TRUE)>>, b, TRUE)
        m == b :> 20
    IN  {<<Good[1], [Good[2] EXCEPT !.map = m],
           [blocks |-> <<x>>, map |-> Validate(x, m).balances]>>}

\* A map that holds more than its chunk leaves, and a payment only that covers.
Enriched ==
    LET m == (b :> 20) @@ Good[1].map
        x == Blk("x", "g1", <<Pay(b, c, a, 9, TRUE)>>, b, TRUE)
        y == Blk("y", "x", <<>>, c, TRUE)
        n == Validate(x, m).balances
    IN  {<<[Good[1] EXCEPT !.map = m], [blocks |-> <<x>>, map |-> n],
           [blocks |-> <<y>>, map |-> Validate(y, n).balances]>>}

\* A last chunk with a fork in it, and the map of either end.
TwoEnds ==
    LET f == Blk("f3", "p2", <<>>, b, TRUE)
    IN  {[Good EXCEPT ![3].blocks = Append(@, f), ![3].map = m] :
            m \in {Good[3].map, Validate(f, BalancesOf(Chain)[3]).balances}}

SampleFiles ==
    {Good} \cup Recut \cup Damaged \cup Forked \cup Overdrawn \cup Enriched
    \cup TwoEnds

=============================================================================
