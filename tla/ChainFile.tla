----------------------------- MODULE ChainFile -----------------------------
(***************************************************************************)
(* The files that readchain and rewritechain are given: sequences of at    *)
(* most MaxBlocks blocks, each any block of Pool.                          *)
(***************************************************************************)
EXTENDS BlockTree

CONSTANTS
    Pool,         \* blocks that may come next in a file
    MaxBlocks     \* bound on the length of a file

\* A transaction without its signature, which is not part of any hash.
Unsigned(tx) == [tx EXCEPT !.signed = FALSE]

\* Blocks that say the same but for the signatures of their transactions.
SayTheSame(x, y) ==
    /\ x.prev = y.prev /\ x.reward = y.reward
    /\ [i \in DOMAIN x.txs |-> Unsigned(x.txs[i])]
         = [i \in DOMAIN y.txs |-> Unsigned(y.txs[i])]

\* What SHA-256 is trusted for: blocks with the same hash are the same, and as
\* the hash of a block is computed from that of its predecessor, any set of
\* hashes has one that was computed before all others.
HashAssumption ==
    LET true == {x \in Pool : x.hashed}
    IN  /\ \A x, y \in true : x.hash = y.hash => SayTheSame(x, y)
        /\ \A H \in SUBSET {x.hash : x \in true} :
              H # {} => \E x \in true : x.hash \in H /\ x.prev \notin H

ASSUME FileAssumption ==
    /\ MaxBlocks \in Nat
    /\ \A x \in Pool :
          /\ x.hashed \in BOOLEAN
          /\ x.txs \in Seq([source : {t.source : t \in ToSet(x.txs)},
                            dest   : {t.dest   : t \in ToSet(x.txs)},
                            change : {t.change : t \in ToSet(x.txs)},
                            amount : Nat, signed : BOOLEAN])
    /\ HashAssumption

=============================================================================
