--------------------------- MODULE MCValidateBlock ---------------------------
(* Every block of at most two transactions between three addresses, on top  *)
(* of balances that chains of at most two blocks leave; files of some of    *)
(* them are cut at any cell or have any cell changed.                       *)
EXTENDS ValidateBlock

CONSTANTS a, b, c

MCAddr == {a, b, c}

MCTxns ==
    [source : {a, b}, dest : MCAddr, change : MCAddr, amount : 0 .. 2,
     signed : {TRUE}]
    \cup {[source |-> a, dest |-> b, change |-> c, amount |-> 1,
           signed |-> FALSE]}

MCStarts ==
    {NoBalances, a :> 3, a :> 2 @@ b :> 1, a :> 3 @@ b :> 3 @@ c :> 0}

MCDamaged(d) ==
    /\ d.reward = a /\ d.hashed
    /\ \A i \in DOMAIN d.txs :
          d.txs[i].amount = 1 /\ d.txs[i].change = c /\ d.txs[i].dest \in {a, b}

MCRubbish ==
    {Number(n) : n \in -1 .. MaxSize} \cup {sha256(<<>>), Address(b)}

=============================================================================
