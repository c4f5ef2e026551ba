------------------------------ MODULE GenChain ------------------------------
(***************************************************************************)
(* create_chain_and_write of day4/challenge-problems/src/genchain.cpp: a   *)
(* chain of random payments between addresses whose private keys the       *)
(* program holds.  The program keeps its own amount for every such address *)
(* (utxos) beside the balances of the block it is building, and updates    *)
(* the two by different rules.  Every rand() and the order of the hash     *)
(* table are free choices.  A fresh key is a name that nothing in the      *)
(* state mentions any more.                                                *)
(***************************************************************************)
EXTENDS Ledger, FiniteSetsExt

CONSTANTS
    Addrs,               \* names for addresses, integers
    Arguments,           \* pairs <<num_blocks, max_txns_per_block>>
    MAX_TRANSACTIONS     \* 64, what a block in a file may hold

ASSUME GenAssumption ==
    /\ Arguments \subseteq Nat \X Nat
    /\ \A arg \in Arguments : arg[1] * BLOCK_REWARD < Wrap    \* arg[1] is an unsigned
    /\ MAX_TRANSACTIONS \in Nat
    /\ Addrs \subseteq Int

VARIABLES
    numBlocks,    \* num_blocks
    numTxns,      \* max_txns_per_block, also the least number of utxos
    pc,           \* "start", "txn", "validate", "write", "done", "aborted",
                  \* "crashed"
    blockIndex,
    utxos,        \* address -> amount
    reward,       \* reward address of the block
    prevBal,      \* balances of prev_block
    bal,          \* balances of the block under construction
    txs,          \* its transactions
    txIndex       \* transactions tried

genVars == <<numBlocks, numTxns, pc, blockIndex, utxos, reward, prevBal, bal, txs, txIndex>>

GenInit ==
    /\ \E arg \in Arguments : numBlocks = arg[1] /\ numTxns = arg[2]
    /\ pc = "start"
    /\ blockIndex = 0
    /\ utxos = NoBalances
    /\ reward = 0
    /\ prevBal = NoBalances
    /\ bal = NoBalances
    /\ txs = <<>>
    /\ txIndex = 0

-----------------------------------------------------------------------------

\* The n smallest names that are in no use.
Fresh(n, used) ==
    CHOOSE s \in kSubset(n, Addrs \ used) :
        /\ IsFiniteSet(s)
        /\ \A x \in s, y \in Addrs \ (used \cup s) : x < y

\* Fresh addresses, which own nothing, join u until it has least of them.
FilledUp(u, used, least) ==
    LET missing == least - Cardinality(DOMAIN u)
        new == IF missing > 0 THEN Fresh(missing, used \cup DOMAIN u) ELSE {}
    IN  [x \in DOMAIN u \cup new |-> IF x \in DOMAIN u THEN u[x] ELSE 0]

\* Slip: one too few.
EnsureMinUtxosLess(u, used) == FilledUp(u, used, numTxns - 1)

\* ensure_min_utxos.
EnsureMinUtxos(u, used) == FilledUp(u, used, numTxns)

\* find_spendable may return any of these.
FindSpendable == {a \in DOMAIN utxos : utxos[a] > 0 /\ a # reward}

Block == [hash |-> blockIndex + 1, prev |-> blockIndex, txs |-> txs,
          reward |-> reward, hashed |-> TRUE]

\* Slip: the next block does not start from the balances of the last one.
StartBlockEmpty ==
    /\ pc = "start"
    /\ blockIndex < numBlocks
    /\ utxos' = EnsureMinUtxos(utxos, DOMAIN prevBal)
    /\ reward' \in DOMAIN utxos'
    /\ bal' = NoBalances
    /\ txs' = <<>>
    /\ txIndex' = 0
    /\ pc' = IF blockIndex = 0 THEN "validate" ELSE "txn"
    /\ UNCHANGED <<numBlocks, numTxns, blockIndex, prevBal>>

\* Lines 85-101: a reward address, and the coinbase or an empty next block.
StartBlock ==
    /\ pc = "start"
    /\ blockIndex < numBlocks
    /\ utxos' = EnsureMinUtxos(utxos, DOMAIN prevBal)
    /\ reward' \in DOMAIN utxos'
    /\ bal' = prevBal
    /\ txs' = <<>>
    /\ txIndex' = 0
    /\ pc' = IF blockIndex = 0 THEN "validate" ELSE "txn"
    /\ UNCHANGED <<numBlocks, numTxns, blockIndex, prevBal>>

\* rand() % utxos.size() with no utxos.
StartWithNone ==
    /\ pc = "start"
    /\ blockIndex < numBlocks
    /\ DOMAIN EnsureMinUtxos(utxos, DOMAIN prevBal) = {}
    /\ pc' = "crashed"
    /\ UNCHANGED <<numBlocks, numTxns, blockIndex, utxos, reward, prevBal, bal, txs,
                   txIndex>>

\* Slip: the spender keeps its amount and its place.
PaidSpenderStays(spend, recv, change, amount) ==
    [utxos EXCEPT ![recv] = @ + amount, ![change] = utxos[spend] - amount]

\* Lines 134-143: the change REPLACES what the change address had.
Paid(spend, recv, change, amount) ==
    LET u == [utxos EXCEPT ![recv] = @ + amount,
                           ![change] = utxos[spend] - amount]
    IN  Restrict(u, DOMAIN u \ {spend})

\* One turn of the loop: a payment, add_transaction, whose result nobody
\* looks at, and the utxos.
CreateTxn ==
    /\ pc = "txn"
    /\ txIndex < numTxns
    /\ \E spend \in FindSpendable :
       \E recv \in DOMAIN utxos \ {spend} :
       \E change \in DOMAIN utxos \ {spend, recv} :
       \E amount \in 1 .. utxos[spend] :
          LET tx == [source |-> spend, dest |-> recv, change |-> change,
                     amount |-> amount, signed |-> TRUE]
              ok == TxnValidate(tx) /\ BalanceAvailable(tx, bal)
          IN  /\ txs' = IF ok THEN Append(txs, tx) ELSE txs
              /\ bal' = IF ok THEN UpdateBalances(tx, bal) ELSE bal
              /\ utxos' = EnsureMinUtxos(
                     Paid(spend, recv, change, amount),
                     DOMAIN prevBal \cup DOMAIN bal \cup DOMAIN utxos
                         \cup {t.source : t \in ToSet(txs)})
    /\ txIndex' = txIndex + 1
    /\ UNCHANGED <<numBlocks, numTxns, pc, blockIndex, reward, prevBal>>

\* assert(recv) or assert(change) fails.
CreateTxnAborts ==
    /\ pc = "txn"
    /\ txIndex < numTxns
    /\ FindSpendable # {}
    /\ Cardinality(DOMAIN utxos) < 3
    /\ pc' = "aborted"
    /\ UNCHANGED <<numBlocks, numTxns, blockIndex, utxos, reward, prevBal, bal, txs,
                   txIndex>>

\* All the transactions are made, or there is nothing to spend.
EndTxns ==
    /\ pc = "txn"
    /\ txIndex = numTxns \/ FindSpendable = {}
    /\ pc' = "validate"
    /\ UNCHANGED <<numBlocks, numTxns, blockIndex, utxos, reward, prevBal, bal, txs,
                   txIndex>>

\* assert(block->validate()), which computes the balances anew.
ValidateBlock ==
    /\ pc = "validate"
    /\ pc' = IF Validate(Block, prevBal).ok THEN "write" ELSE "aborted"
    /\ bal' = Validate(Block, prevBal).balances
    /\ UNCHANGED <<numBlocks, numTxns, blockIndex, utxos, reward, prevBal, txs, txIndex>>

\* Lines 156-158: write, and the reward; utxos[reward_addr] is a null pointer
\* if the address is not there any more.
WriteBlock ==
    /\ pc = "write"
    /\ Len(txs) <= MAX_TRANSACTIONS
    /\ prevBal' = bal
    /\ blockIndex' = blockIndex + 1
    /\ IF reward \in DOMAIN utxos
       THEN /\ utxos' = [utxos EXCEPT ![reward] = @ + BLOCK_REWARD]
            /\ pc' = "start"
       ELSE /\ pc' = "crashed"
            /\ UNCHANGED utxos
    /\ UNCHANGED <<numBlocks, numTxns, reward, bal, txs, txIndex>>

\* The assert of block_t::write (blockchain.cpp:138) fails: nothing has
\* bounded the transactions that were added.
WriteBlockAborts ==
    /\ pc = "write"
    /\ Len(txs) > MAX_TRANSACTIONS
    /\ pc' = "aborted"
    /\ UNCHANGED <<numBlocks, numTxns, blockIndex, utxos, reward, prevBal, bal, txs,
                   txIndex>>

Finish ==
    /\ pc = "start"
    /\ blockIndex = numBlocks
    /\ pc' = "done"
    /\ UNCHANGED <<numBlocks, numTxns, blockIndex, utxos, reward, prevBal, bal, txs,
                   txIndex>>

Ended == pc \in {"done", "aborted", "crashed"} /\ UNCHANGED genVars

GenNext ==
    \/ StartBlock
    \/ StartWithNone
    \/ CreateTxn
    \/ CreateTxnAborts
    \/ EndTxns
    \/ ValidateBlock
    \/ WriteBlock
    \/ WriteBlockAborts
    \/ Finish
    \/ Ended

GenSpec == GenInit /\ [][GenNext]_genVars

-----------------------------------------------------------------------------

\* What the program believes an address to own is covered by the block under
\* construction, although the two are kept by different rules (a change that
\* is assigned, lines 134-143, against one that is added, transaction.cpp:134).
AmountsCovered ==
    pc \in {"start", "txn"} => \A a \in DOMAIN utxos :
        utxos[a] > 0 => a \in DOMAIN bal /\ bal[a] >= utxos[a]

\* The validation of the whole block ends with the same balances as the
\* transactions one by one, before the reward.
RevalidationAgrees ==
    pc = "validate" /\ blockIndex > 0 =>
        Validate(Block, prevBal).balances = Credit(bal, reward, BLOCK_REWARD)

\* assert(recv), assert(change) and assert(block->validate()) hold (lines 115,
\* 124, 39 and 150), unless the program is to keep no more than two addresses, which
\* leaves none for the change; the assert of block_t::write fails only if the
\* program was asked for more transactions than a block may have and made
\* them; and the address that gets the reward is still known when it gets it
\* (line 158), unless there is no address at all (88).
AssertsHold ==
    /\ pc = "aborted" => numTxns = 2 \/ Len(txs) \in MAX_TRANSACTIONS + 1 .. numTxns
    /\ pc = "crashed" => numTxns = 0

=============================================================================
