------------------------------- MODULE Ledger -------------------------------
(***************************************************************************)
(* The money of the block chain: txn_t and block_t of                      *)
(* day4/challenge-problems/src (day3 has the same code) and the first      *)
(* version of day1, as operators on balance maps.                          *)
(*                                                                         *)
(* A balance map is a function from the addresses it has an entry for to   *)
(* uint64_t amounts.  A transaction is a record                            *)
(*     [source, dest, change, amount, signed]                              *)
(* where signed says that the public key hashes to source, that tx_hash is *)
(* the hash of the transaction and that the signature verifies.  A block   *)
(* is a record                                                             *)
(*     [hash, prev, txs, reward, hashed]                                   *)
(* where hash is the stored hash, prev the stored hash of the predecessor, *)
(* reward the reward address and hashed says that the stored hash is the   *)
(* hash of the transactions, the reward address and prev.  The signature   *)
(* of a transaction is not part of any hash.                               *)
(***************************************************************************)
EXTENDS Integers, Sequences, Functions, SequencesExt

CONSTANTS
    BLOCK_REWARD,   \* 100 in the code
    Wrap,           \* 2^64: amounts are unsigned and wrap around
    Zero            \* the prev_hash of a coinbase block

ASSUME LedgerAssumption ==
    /\ BLOCK_REWARD \in Nat \ {0}
    /\ Wrap \in Nat \ {0}
    /\ BLOCK_REWARD < Wrap

NoBalances == [a \in {} |-> 0]

\* map[key] = value of an std::unordered_map.
Put(map, key, value) ==
    [k \in DOMAIN map \cup {key} |-> IF k = key THEN value ELSE map[k]]

-----------------------------------------------------------------------------
(* Transactions.                                                            *)

TxnValidate(tx) == tx.amount > 0 /\ tx.signed

\* day1 has no test of the amount.
TxnValidateDay1(tx) == tx.signed

BalanceAvailable(tx, bal) ==
    tx.source \in DOMAIN bal /\ bal[tx.source] >= tx.amount

\* balances[a] += n, which creates a missing entry with 0.
Credit(bal, a, n) ==
    LET old == IF a \in DOMAIN bal THEN bal[a] ELSE 0
    IN  Put(bal, a, (old + n) % Wrap)

\* Slip: the source keeps its entry.
UpdateBalancesNoErase(tx, bal) ==
    Credit(Credit(bal, tx.dest, tx.amount),
           tx.change, bal[tx.source] - tx.amount)

\* The change is computed first; the source loses its entry last, whatever
\* was credited to it.
UpdateBalances(tx, bal) ==
    LET paid == Credit(Credit(bal, tx.dest, tx.amount),
                       tx.change, bal[tx.source] - tx.amount)
    IN  Restrict(paid, DOMAIN paid \ {tx.source})

-----------------------------------------------------------------------------
(* Blocks.  Both versions return the verdict and the balances they leave in *)
(* the block; a block refused midway keeps the balances reached so far.     *)

ApplyTxn(acc, tx) ==
    IF acc.ok /\ TxnValidate(tx) /\ BalanceAvailable(tx, acc.balances)
    THEN [acc EXCEPT !.balances = UpdateBalances(tx, acc.balances)]
    ELSE [acc EXCEPT !.ok = FALSE]

\* Slip: the reward comes first.
ValidateRewardFirst(blk, bal) ==
    LET end == FoldLeft(ApplyTxn,
                        [ok |-> TRUE, balances |-> Credit(bal, blk.reward, BLOCK_REWARD)],
                        blk.txs)
    IN  [end EXCEPT !.ok = @ /\ blk.hashed]

\* block_t::validate, from the balances that reset_balances leaves.
Validate(blk, bal) ==
    LET end == FoldLeft(ApplyTxn, [ok |-> TRUE, balances |-> bal], blk.txs)
    IN  IF end.ok
        THEN [ok |-> blk.hashed,
              balances |-> Credit(end.balances, blk.reward, BLOCK_REWARD)]
        ELSE end

ApplyTxnDay1(acc, tx) ==
    IF acc.ok /\ BalanceAvailable(tx, acc.balances)
    THEN [acc EXCEPT !.balances = UpdateBalances(tx, acc.balances)]
    ELSE [acc EXCEPT !.ok = FALSE]

\* Slip: the last signature decides.
ValidateDay1Last(blk, bal) ==
    LET end == FoldLeft(ApplyTxnDay1, [ok |-> TRUE, balances |-> bal], blk.txs)
    IN  IF blk.txs # <<>> /\ ~TxnValidateDay1(Last(blk.txs))
        THEN [ok |-> FALSE, balances |-> bal]
        ELSE IF end.ok
        THEN [ok |-> blk.hashed,
              balances |-> Credit(end.balances, blk.reward, BLOCK_REWARD)]
        ELSE end

\* day1: every signature first, then the balances.
ValidateDay1(blk, bal) ==
    LET end == FoldLeft(ApplyTxnDay1, [ok |-> TRUE, balances |-> bal], blk.txs)
    IN  IF \E i \in DOMAIN blk.txs : ~TxnValidateDay1(blk.txs[i])
        THEN [ok |-> FALSE, balances |-> bal]
        ELSE IF end.ok
        THEN [ok |-> blk.hashed,
              balances |-> Credit(end.balances, blk.reward, BLOCK_REWARD)]
        ELSE end

-----------------------------------------------------------------------------
(* Comparing balance maps.                                                  *)

\* included_in: a zero entry is as good as none.
IncludedIn(m1, m2) ==
    \A a \in DOMAIN m1 :
        IF m1[a] = 0 THEN a \in DOMAIN m2 => m2[a] = 0
                     ELSE a \in DOMAIN m2 /\ m2[a] = m1[a]

BalanceMapsEqual(m1, m2) == IncludedIn(m1, m2) /\ IncludedIn(m2, m1)

-----------------------------------------------------------------------------

\* All the money of a map, for the properties.
Supply(bal) == SumFunction(bal)

=============================================================================
