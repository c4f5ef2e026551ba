---------------------------- MODULE ValidateBlock ----------------------------
(***************************************************************************)
(* One block from its writer to its validation: built, written to a file   *)
(* with a block that follows it, perhaps damaged there, read back by       *)
(* block_t::read from a stream and from a buffer, validated on top of      *)
(* given balances by the code of day4 and by that of day1, and written     *)
(* again to an indexed file.  Ledger says what validation does, and        *)
(* ChainFormat what is in the file.                                        *)
(***************************************************************************)
EXTENDS ChainFormat

CONSTANTS
    Addr,        \* addresses
    Txns,        \* transactions a block may hold
    MaxTxns,     \* at most so many of them
    Starts,      \* balances of the predecessor
    Damaged(_),  \* the blocks whose file may be damaged
    Rubbish      \* cells that damage may leave

\* A key of one cell can be written, and nobody owns the foreign signatures;
\* the rewards of a chain add up to less than 2^64.
ASSUME BlockAssumption ==
    /\ MaxSize > 1
    /\ MaxTxns \in 0 .. MAX_TRANSACTIONS
    /\ "other" \notin Addr
    /\ Txns \subseteq [source : Addr, dest : Addr, change : Addr, amount : Nat,
                       signed : BOOLEAN]
    /\ \A cell \in Rubbish : AsNumber(cell) \in Int
    /\ \A bal \in Starts :
          /\ IsFiniteSet(DOMAIN bal)
          /\ DOMAIN bal \subseteq Addr
          /\ bal \in [DOMAIN bal -> Nat]
          /\ Supply(bal) + BLOCK_REWARD < Wrap

VARIABLES
    blk,         \* the block of Ledger, as built and then as read
    file,        \* the cells of the file
    hit,         \* the first cell that is damaged, or 0
    stream,      \* the blocks that read(istream&) finds in the file
    buffer,      \* the blocks that read(data, blkSz) finds
    balances,    \* balances of blk: those of its predecessor, then its own
    before,      \* the balances of its predecessor
    day1,        \* verdict and balances of day1's code
    status       \* "built", "written", "read", "valid", "invalid", "indexed"

vars == <<blk, file, hit, stream, buffer, balances, before, day1, status>>

Block == [hash : {"block"}, prev : {Zero}, txs : SeqOf(Txns, MaxTxns),
          reward : Addr, hashed : BOOLEAN]

\* The transaction and the block that a block of Ledger stands for: one that
\* is not signed has the signature of somebody else.
TxnOf(tx) ==
    LET t == NewTxn(tx.source, Address(tx.source), Address(tx.dest),
                    Address(tx.change), Number(tx.amount))
    IN  IF tx.signed THEN t ELSE [t EXCEPT !.signature = sign("other", t.hash)]

BlockOf(b) ==
    LET new == [reward |-> Address(b.reward), prev |-> ZeroHash, hash |-> sha256(<<>>),
                txs |-> [i \in DOMAIN b.txs |-> TxnOf(b.txs[i])]]
    IN  IF b.hashed THEN [new EXCEPT !.hash = compute_block_hash(new)] ELSE new

\* The block behind it in the file.
NextBlock(c) ==
    LET n == [reward |-> c.reward, prev |-> c.hash, hash |-> ZeroHash, txs |-> <<>>]
    IN  [n EXCEPT !.hash = compute_block_hash(n)]

Written == <<BlockOf(blk), NextBlock(BlockOf(blk))>>

\* And back: what validate sees of the cells.
AddrOf(cell) ==
    IF \E a \in Addr : Address(a) = cell
    THEN CHOOSE a \in Addr : Address(a) = cell ELSE cell

LedgerTxn(t) ==
    [source |-> AddrOf(t.source), dest |-> AddrOf(t.dest),
     change |-> AddrOf(t.change), amount |-> AsNumber(t.amount),
     signed |-> Signed(t)]

LedgerBlock(c) ==
    [hash |-> "block", prev |-> Zero, reward |-> AddrOf(c.reward),
     txs |-> [i \in DOMAIN c.txs |-> LedgerTxn(c.txs[i])], hashed |-> Hashed(c)]

-----------------------------------------------------------------------------

Init ==
    /\ blk \in Block
    /\ before = NoBalances
    /\ balances = NoBalances
    /\ day1 = [ok |-> FALSE, balances |-> NoBalances]
    /\ status = "built"
    /\ file = <<>>
    /\ hit = 0
    /\ stream = <<>>
    /\ buffer = <<>>

WriteFile ==
    /\ status = "built"
    /\ file' = BlockWrite(Written[1]) \o BlockWrite(Written[2])
    /\ status' = "written"
    /\ UNCHANGED <<blk, hit, stream, buffer, balances, before, day1>>

\* The file loses its end, or a cell of it changes.
DamageFile ==
    /\ status = "written"
    /\ hit = 0
    /\ Damaged(blk)
    /\ \E i \in DOMAIN file :
          /\ hit' = i
          /\ \/ file' = SubSeq(file, 1, i - 1)
             \/ \E cell \in Rubbish \ {file[i]} : file' = [file EXCEPT ![i] = cell]
    /\ UNCHANGED <<blk, stream, buffer, balances, before, day1, status>>

ReadFile ==
    /\ status = "written"
    /\ stream' = StreamBlocks(file)
    /\ buffer' = BufferBlocks(file, 0, Len(file))
    /\ status' = "read"
    /\ UNCHANGED <<blk, file, hit, balances, before, day1>>

\* block_t::validate resets the balances to those of the predecessor, so that
\* validating again gives the same answer.
ValidateStep ==
    /\ status \in {"read", "valid", "invalid"}
    /\ buffer # <<>>
    /\ before' \in IF status = "read" THEN Starts ELSE {before}
    /\ blk' = LedgerBlock(buffer[1])
    /\ LET r == Validate(blk', before')
       IN  /\ balances' = r.balances
           /\ status' = IF r.ok THEN "valid" ELSE "invalid"
    /\ day1' = ValidateDay1(blk', before')
    /\ UNCHANGED <<file, hit, stream, buffer>>

\* The blocks as two chunks, with the balances that they leave as maps.
Chunks ==
    LET bal == [cell \in {Address(a) : a \in DOMAIN balances} |->
                    balances[AddrOf(cell)]]
    IN  <<[blocks |-> <<Written[1]>>, map |-> bal],
          [blocks |-> <<Written[2]>>,
           map |-> Credit(bal, Written[2].reward, BLOCK_REWARD)]>>

RewriteFile ==
    /\ status = "valid"
    /\ hit = 0
    /\ file' = rewrite_chain(Chunks)
    /\ status' = "indexed"
    /\ UNCHANGED <<blk, hit, stream, buffer, balances, before, day1>>

Next == WriteFile \/ DamageFile \/ ReadFile \/ ValidateStep \/ RewriteFile

Spec == Init /\ [][Next]_vars

-----------------------------------------------------------------------------

Sources == {blk.txs[i].source : i \in DOMAIN blk.txs}

PaysItself(tx) == tx.source \in {tx.dest, tx.change}

\* A valid block creates its reward and nothing else: money moves inside the
\* block, except that what a transaction pays back to its own source is lost,
\* because the source's entry is erased last (transaction.cpp:126-140).
OnlyRewardIsCreated ==
    status = "valid" =>
        /\ Supply(balances) <= Supply(before) + BLOCK_REWARD
        /\ (\A i \in DOMAIN blk.txs : ~PaysItself(blk.txs[i])) =>
               Supply(balances) = Supply(before) + BLOCK_REWARD

\* What the block would validate to with the right hash.
Rehashed == Validate([blk EXCEPT !.hashed = TRUE], before)

\* Whatever the verdict, nobody loses money in a block without being the source
\* of a transaction of it.  What a refusal leaves behind depends on where it
\* comes from: the reward is credited after the transactions and before the
\* comparison of the hashes (blockchain.cpp:66-92), so that a block that is
\* refused for a transaction creates nothing, and one that only its hash
\* refutes keeps the balances of an accepted block, its reward included.
OnlySourcesPay ==
    status \in {"valid", "invalid"} =>
        /\ \A a \in DOMAIN before \ Sources :
               a \in DOMAIN balances /\ balances[a] >= before[a]
        /\ (status = "invalid" /\ ~Rehashed.ok) => Supply(balances) <= Supply(before)
        /\ (status = "invalid" /\ Rehashed.ok) =>
               /\ balances = Rehashed.balances
               /\ blk.reward \in DOMAIN balances
               /\ balances[blk.reward] >= BLOCK_REWARD
               /\ Supply(balances) <= Supply(before) + BLOCK_REWARD

\* The two-pass validation of day1 accepts the blocks that day4 accepts, with
\* the same balances, as long as no amount is zero (day1/blockchain.cpp:107).
VersionsAgree ==
    (status \in {"valid", "invalid"} /\ \A i \in DOMAIN blk.txs : blk.txs[i].amount > 0) =>
        /\ day1.ok <=> status = "valid"
        /\ status = "valid" => day1.balances = balances

\* What is written is read back, by both readers, over the whole file and
\* through the offsets of an indexed file, which are made from size() and not
\* from what has been written; and the digests and signatures of the block
\* say of it what Ledger assumes.
WrittenIsRead ==
    /\ (status = "read" /\ hit = 0) =>
          /\ stream = Written /\ buffer = Written
          /\ Len(file) = BlockSize(Written[1]) + BlockSize(Written[2])
          /\ LedgerBlock(Written[1]) = blk
          /\ \A i \in DOMAIN Written[1].txs : Writable(Written[1].txs[i])
    /\ status = "indexed" => ReadChunks(file) = Chunks

\* A block passes every test but that of the balances.
Accepted(c) == Hashed(c) /\ \A i \in DOMAIN c.txs : Signed(c.txs[i])

\* In a damaged file a reader may lose its place, but it accepts only blocks
\* that were written, among them those before the damage, and no key makes it
\* throw; read(data, blkSz) accepts nothing that read(istream&) does not.
DamageIsContained ==
    status = "read" =>
        LET Good(blocks) == {c \in ToSet(blocks) : Accepted(c)}
        IN  /\ Good(stream) \subseteq ToSet(Written)
            /\ Good(buffer) \subseteq Good(stream)
            /\ hit > BlockSize(Written[1]) => stream # <<>> /\ stream[1] = Written[1]
                                              /\ buffer # <<>> /\ buffer[1] = Written[1]
            /\ \A c \in ToSet(stream) \cup ToSet(buffer) :
                  \A i \in DOMAIN c.txs : ~Throws(c.txs[i])

=============================================================================
