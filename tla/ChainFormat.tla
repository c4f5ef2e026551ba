----------------------------- MODULE ChainFormat -----------------------------
(***************************************************************************)
(* How transactions, blocks, balance maps and indexed files are written    *)
(* and read, and what the digests and signatures in them say:              *)
(* transaction.cpp, blockchain.cpp and crypto.cpp of day1, day3 and day4,  *)
(* the header of rewritechain.cpp and extractHeader of readindexed.cpp.    *)
(*                                                                         *)
(* A file is a sequence of cells.  A cell stands for a number of any width *)
(* or for a digest, and the variable parts of a transaction, its public    *)
(* key and its signature, are sequences of cells; a size counts cells.     *)
(* Digests and signatures are terms, so that different texts have          *)
(* different digests.  Offsets count from 0.                               *)
(***************************************************************************)
EXTENDS Ledger

CONSTANTS
    MaxSize,            \* 1024, the bound on keys and signatures
    MAX_TRANSACTIONS,   \* 64
    Misread             \* the number that a digest or a key is read as

ASSUME FormatAssumption ==
    /\ MaxSize \in Nat \ {0}
    /\ MAX_TRANSACTIONS \in Nat
    /\ Misread \in Int

Number(n) == <<"number", n>>

AsNumber(cell) == IF cell[1] = "number" THEN cell[2] ELSE Misread

\* hash_result_t(): all bytes are zero.
ZeroHash == Number(0)

sha256(cells) == <<"digest", cells>>

-----------------------------------------------------------------------------
(* Keys.  A key pair is named by its owner.                                 *)

\* What i2d_RSA_PUBKEY makes of the public key.
PublicKey(owner) == <<<<"key", owner>>>>

\* d2i_RSA_PUBKEY succeeds; otherwise the constructor throws.
IsPublicKey(der) == Len(der) = 1 /\ der[1][1] = "key"

Address(owner) == sha256(PublicKey(owner))

sign(owner, digest) == <<<<"signature", owner, digest>>>>

verify(der, digest, signature) == signature = sign(der[1][2], digest)

-----------------------------------------------------------------------------
(* Transactions: [key, source, dest, change, amount, hash, signature].      *)

TxnHash(tx) == sha256(tx.key \o <<tx.source, tx.dest, tx.change, tx.amount>>)

\* What the constructors without a key pair leave.
EmptyTxn ==
    [key |-> <<>>, source |-> ZeroHash, dest |-> ZeroHash, change |-> ZeroHash,
     amount |-> ZeroHash, hash |-> ZeroHash, signature |-> <<>>]

\* The constructor that computes the hash and signs it.
NewTxn(owner, source, dest, change, amount) ==
    LET tx == [EmptyTxn EXCEPT !.key = PublicKey(owner), !.source = source,
                               !.dest = dest, !.change = change, !.amount = amount]
    IN  [tx EXCEPT !.hash = TxnHash(tx), !.signature = sign(owner, TxnHash(tx))]

\* The tests of validate that come before the public key is made from the key.
HashesMatch(tx) == sha256(tx.key) = tx.source /\ TxnHash(tx) = tx.hash

\* Slip: the hash of the transaction is not computed again.
SignedUnhashed(tx) ==
    /\ sha256(tx.key) = tx.source
    /\ IsPublicKey(tx.key)
    /\ verify(tx.key, tx.hash, tx.signature)

Signed(tx) ==
    /\ HashesMatch(tx)
    /\ IsPublicKey(tx.key)
    /\ verify(tx.key, tx.hash, tx.signature)

\* validate leaves with the exception of the constructor.
Throws(tx) == HashesMatch(tx) /\ ~IsPublicKey(tx.key)

\* Slip: the signature is not counted.
TxnSizeUnsigned(tx) == 3 + Len(tx.key) + 4

TxnSize(tx) == 3 + Len(tx.key) + 4 + Len(tx.signature)

\* The asserts of write.
Writable(tx) ==
    Len(tx.key) \in 1 .. MaxSize - 1 /\ Len(tx.signature) \in 1 .. MaxSize - 1

TxnWrite(tx) ==
    <<Number(Len(tx.key)), Number(Len(tx.signature)), tx.amount>> \o tx.key
    \o <<tx.source, tx.dest, tx.change, tx.hash>> \o tx.signature

\* The sizes at offset p are sane.
SaneSizes(f, p) ==
    /\ AsNumber(f[p + 1]) \in 0 .. MaxSize - 1
    /\ AsNumber(f[p + 2]) \in 0 .. MaxSize

\* The transaction at offset p and the offset behind it.
TxnAt(f, p) ==
    LET q == p + 3 + AsNumber(f[p + 1])
        r == q + 4 + AsNumber(f[p + 2])
    IN  [ok   |-> TRUE,
         txn  |-> [key |-> SubSeq(f, p + 4, q), source |-> f[q + 1],
                   dest |-> f[q + 2], change |-> f[q + 3], amount |-> f[p + 3],
                   hash |-> f[q + 4], signature |-> SubSeq(f, q + 5, r)],
         next |-> r]

TxnEnd(f, p) == p + 7 + AsNumber(f[p + 1]) + AsNumber(f[p + 2])

Unread == [ok |-> FALSE, txn |-> EmptyTxn, next |-> 0]

\* read(istream&): sizes that are not sane leave the stream good, and the
\* caller does not look at the result, so a transaction without contents is
\* read; only the end of the file fails the stream.
TxnReadStream(f, p) ==
    IF p + 3 > Len(f) THEN Unread
    ELSE IF ~SaneSizes(f, p)
    THEN [ok |-> TRUE, txn |-> [EmptyTxn EXCEPT !.amount = f[p + 3]], next |-> p + 3]
    ELSE IF TxnEnd(f, p) > Len(f) THEN Unread ELSE TxnAt(f, p)

\* read(buffer, bufsz) of bytes that end at offset end: zero unless the sizes
\* are sane and the transaction is whole.
TxnReadBuffer(f, p, end) ==
    IF p + 3 <= end /\ SaneSizes(f, p) /\ TxnEnd(f, p) <= end
    THEN TxnAt(f, p)
    ELSE Unread

-----------------------------------------------------------------------------
(* Blocks: [reward, prev, hash, txs].                                       *)

compute_block_hash(b) ==
    sha256([i \in DOMAIN b.txs |-> b.txs[i].hash] \o <<b.reward, b.prev>>)

Hashed(b) == compute_block_hash(b) = b.hash

HeaderSize == 4

BlockSize(b) ==
    HeaderSize + SumFunction([i \in DOMAIN b.txs |-> TxnSize(b.txs[i])])

BlockWrite(b) ==
    <<Number(Len(b.txs)), b.reward, b.prev, b.hash>>
    \o FlattenSeq([i \in DOMAIN b.txs |-> TxnWrite(b.txs[i])])

\* One of the readers above; how is "stream" or "buffer".
TxnRead(how, f, p, end) ==
    IF how = "stream" THEN TxnReadStream(f, p) ELSE TxnReadBuffer(f, p, end)

AddTxn(how, f, end, acc) ==
    LET t == TxnRead(how, f, acc.next, end)
    IN  IF acc.ok /\ t.ok
        THEN [ok |-> TRUE, txs |-> Append(acc.txs, t.txn), next |-> t.next]
        ELSE [acc EXCEPT !.ok = FALSE]

\* count transactions from offset p on.
TxnsAt(how, f, p, end, count) ==
    FoldLeft(LAMBDA acc, i : AddTxn(how, f, end, acc),
             [ok |-> TRUE, txs |-> <<>>, next |-> p],
             [i \in 1 .. count |-> i])

BlockAt(f, p, txs) ==
    [reward |-> f[p + 2], prev |-> f[p + 3], hash |-> f[p + 4], txs |-> txs]

NoBlockRead == [ok |-> FALSE, next |-> 0]

\* read(istream&, bmap).
BlockReadStream(f, p) ==
    IF p + HeaderSize > Len(f) \/ AsNumber(f[p + 1]) \notin 0 .. MAX_TRANSACTIONS
    THEN NoBlockRead
    ELSE LET t == TxnsAt("stream", f, p + HeaderSize, Len(f), AsNumber(f[p + 1]))
         IN  [ok |-> t.ok, next |-> t.next, blk |-> BlockAt(f, p, t.txs)]

\* read(data, blkSz, bmap): the count is not bounded, and a negative one is
\* never reached before the bytes end.
BlockReadBuffer(f, p, end) ==
    IF p + HeaderSize > end \/ AsNumber(f[p + 1]) < 0
    THEN NoBlockRead
    ELSE LET t == TxnsAt("buffer", f, p + HeaderSize, end, AsNumber(f[p + 1]))
         IN  [ok |-> t.ok, next |-> t.next, blk |-> BlockAt(f, p, t.txs)]

BlockRead(how, f, p, end) ==
    IF how = "stream" THEN BlockReadStream(f, p) ELSE BlockReadBuffer(f, p, end)

AddBlock(how, f, end, acc) ==
    IF acc.ended \/ acc.next >= end THEN acc
    ELSE LET r == BlockRead(how, f, acc.next, end)
         IN  IF r.ok
             THEN [blocks |-> Append(acc.blocks, r.blk), next |-> r.next,
                   ended |-> FALSE]
             ELSE [acc EXCEPT !.ended = TRUE]

\* Blocks from offset p up to end, until one cannot be read.
BlocksAt(how, f, p, end) ==
    FoldLeft(LAMBDA acc, i : AddBlock(how, f, end, acc),
             [blocks |-> <<>>, next |-> p, ended |-> FALSE],
             [i \in 1 .. (end - p) |-> i]).blocks

StreamBlocks(f) == BlocksAt("stream", f, 0, Len(f))

BufferBlocks(f, p, end) == BlocksAt("buffer", f, p, end)

-----------------------------------------------------------------------------
(* Balance maps and indexed files.                                          *)

balance_map_size(m) == 1 + 2 * Cardinality(DOMAIN m)

\* In the order of the hash table, which is any order.
write_balance_map(m) ==
    <<Number(Cardinality(DOMAIN m))>>
    \o FlattenSeq([i \in 1 .. Cardinality(DOMAIN m) |->
                      LET addr == SetToSeq(DOMAIN m)[i]
                      IN  <<addr, Number(m[addr])>>])

read_balance_map(f, p) ==
    LET n == AsNumber(f[p + 1])
    IN  [addr \in {f[p + 2 * i] : i \in 1 .. n} |->
            AsNumber(f[p + 2 * (CHOOSE i \in 1 .. n : f[p + 2 * i] = addr) + 1])]

\* The sizes of the chunks [blocks, map] and the offsets made from them.
ChunkSize(c) == SumFunction([i \in DOMAIN c.blocks |-> BlockSize(c.blocks[i])])

chunkStartOffsets(chunks) ==
    [i \in DOMAIN chunks |->
        1 + 3 * Len(chunks)
        + SumFunction([j \in 1 .. i - 1 |->
                          ChunkSize(chunks[j]) + balance_map_size(chunks[j].map)])]

mapStartOffsets(chunks) ==
    [i \in DOMAIN chunks |-> chunkStartOffsets(chunks)[i] + ChunkSize(chunks[i])]

Numbers(s) == [i \in DOMAIN s |-> Number(s[i])]

rewrite_chain(chunks) ==
    <<Number(Len(chunks))>>
    \o Numbers(chunkStartOffsets(chunks)) \o Numbers(mapStartOffsets(chunks))
    \o Numbers([i \in DOMAIN chunks |-> balance_map_size(chunks[i].map)])
    \o FlattenSeq([i \in DOMAIN chunks |->
                      FlattenSeq([j \in DOMAIN chunks[i].blocks |->
                                     BlockWrite(chunks[i].blocks[j])])
                      \o write_balance_map(chunks[i].map)])

\* The header, if the file is long enough for it.
extractHeader(f) ==
    LET n == IF f = <<>> THEN 0 ELSE AsNumber(f[1])
    IN  IF f = <<>> \/ Len(f) < 1 + 3 * n
        THEN [size |-> 0]
        ELSE [size     |-> 1 + 3 * n,
              chunkOff |-> [i \in 1 .. n |-> AsNumber(f[1 + i])],
              mapOff   |-> [i \in 1 .. n |-> AsNumber(f[1 + n + i])],
              mapSz    |-> [i \in 1 .. n |-> AsNumber(f[1 + 2 * n + i])]]

\* The chunks as a reader of an indexed file finds them.
ReadChunks(f) ==
    LET h == extractHeader(f)
    IN  [i \in DOMAIN h.chunkOff |->
            [blocks |-> BufferBlocks(f, h.chunkOff[i], h.mapOff[i]),
             map    |-> read_balance_map(f, h.mapOff[i])]]

=============================================================================
