------------------------- MODULE ValidateBlockProofs -------------------------
(***************************************************************************)
(* What a file yields and what validation makes of it, for all blocks,     *)
(* files, damages and balances.                                            *)
(***************************************************************************)
EXTENDS ValidateBlock, LedgerProofs

(* The loops that read transactions and blocks.                             *)

\* The loop of block_t::read over its transactions.
IsTxnLoop(how, f, last, g, n, b, end) ==
    /\ g[0] = b
    /\ \A i \in 1 .. n : g[i] = AddTxn(how, f, last, g[i - 1])
    /\ g[n] = end

LEMMA TxnLoop ==
    ASSUME NEW how, NEW f, NEW last, NEW p, NEW n \in Nat,
           NEW V, NEW b \in V, b = [ok |-> TRUE, txs |-> <<>>, next |-> p],
           \A acc \in V : AddTxn(how, f, last, acc) \in V
    PROVE  \E g \in [0 .. n -> V] :
              IsTxnLoop(how, f, last, g, n, b, TxnsAt(how, f, p, last, n))
<1> DEFINE st == [x \in (1 .. n) \X V |-> AddTxn(how, f, last, x[2])]
           Body(g) == [s \in SUBSET (1 .. n) |->
                         IF s = {} THEN b ELSE AddTxn(how, f, last, g[s \ {Max(s)}])]
           h == CHOOSE g : g = [s \in SUBSET DOMAIN [i \in 1 .. n |-> i] |->
                         IF s = {} THEN b ELSE AddTxn(how, f, last, g[s \ {Max(s)}])]
<1>1. ASSUME NEW acc \in V, NEW i \in 1 .. n PROVE AddTxn(how, f, last, acc) \in V
  OBVIOUS
<1>2. st \in [(1 .. n) \X V -> V]
  BY <1>1
<1>3. PICK g \in [SUBSET (1 .. n) -> V] : IsIndexFold(g, n, b, st)
  <2> HIDE DEF st, Body, h
  <2>1. QED
    BY <1>2, IndexFoldExists
<1>4. g = Body(g)
  <2>1. ASSUME NEW s \in SUBSET (1 .. n), s # {}
        PROVE  g[s] = AddTxn(how, f, last, g[s \ {Max(s)}])
    BY <1>3, <2>1, FoldArguments DEF IsIndexFold
  <2>2. g[{}] = b
    BY <1>3 DEF IsIndexFold
  <2>3. QED
    BY <2>1, <2>2
<1>5. h = Body(h)
  <2>1. h = CHOOSE f0 : f0 = Body(f0)
    OBVIOUS
  <2> HIDE DEF Body, h
  <2>2. QED
    BY <1>4, <2>1
<1>6. TxnsAt(how, f, p, last, n) = h[1 .. n]
  <2>1. TxnsAt(how, f, p, last, n) = h[DOMAIN [i \in 1 .. n |-> i]]
    BY Zenon DEF FoldLeft, MapThenFoldSet, TxnsAt
  <2> HIDE DEF h
  <2>2. QED
    BY <2>1
<1> HIDE DEF h
<1>7. h[{}] = b /\ Folds(h, n, V, st)
  <2>1. ASSUME NEW s \in SUBSET (1 .. n), s # {}, h[s \ {Max(s)}] \in V
        PROVE  h[s] = st[<<Max(s), h[s \ {Max(s)}]>>]
    <3>1. Max(s) \in 1 .. n
      BY <2>1, MaxExists
    <3>2. QED
      BY <1>5, <2>1, <3>1
  <2>2. QED
    BY <1>5, <2>1 DEF Folds
<1>8. PICK f0 \in [0 .. n -> V] : IsLoop(f0, n, b, st, h[1 .. n])
  <2> HIDE DEF st, Body
  <2>1. QED
    BY <1>2, <1>7, IndexFoldSteps
<1>9. ASSUME NEW i \in 1 .. n PROVE f0[i] = AddTxn(how, f, last, f0[i - 1])
  <2>1. <<i, f0[i - 1]>> \in (1 .. n) \X V
    OBVIOUS
  <2>2. QED
    BY <1>8, <2>1 DEF IsLoop
<1>10. QED
  BY <1>6, <1>8, <1>9 DEF IsLoop, IsTxnLoop

\* The loop of the readers over the blocks of a file.
IsBlockLoop(how, f, last, g, n, b, end) ==
    /\ g[0] = b
    /\ \A i \in 1 .. n : g[i] = AddBlock(how, f, last, g[i - 1])
    /\ g[n].blocks = end

LEMMA BlockLoop ==
    ASSUME NEW how, NEW f, NEW last, NEW p, NEW n \in Nat, n = last - p,
           NEW V, NEW b \in V, b = [blocks |-> <<>>, next |-> p, ended |-> FALSE],
           \A acc \in V : AddBlock(how, f, last, acc) \in V
    PROVE  \E g \in [0 .. n -> V] :
              IsBlockLoop(how, f, last, g, n, b, BlocksAt(how, f, p, last))
<1> DEFINE st == [x \in (1 .. n) \X V |-> AddBlock(how, f, last, x[2])]
           Body(g) == [s \in SUBSET (1 .. n) |->
                         IF s = {} THEN b ELSE AddBlock(how, f, last, g[s \ {Max(s)}])]
           h == CHOOSE g : g = [s \in SUBSET DOMAIN [i \in 1 .. n |-> i] |->
                         IF s = {} THEN b ELSE AddBlock(how, f, last, g[s \ {Max(s)}])]
<1>1. ASSUME NEW acc \in V, NEW i \in 1 .. n PROVE AddBlock(how, f, last, acc) \in V
  OBVIOUS
<1>2. st \in [(1 .. n) \X V -> V]
  BY <1>1
<1>3. PICK g \in [SUBSET (1 .. n) -> V] : IsIndexFold(g, n, b, st)
  <2> HIDE DEF st, Body, h
  <2>1. QED
    BY <1>2, IndexFoldExists
<1>4. g = Body(g)
  <2>1. ASSUME NEW s \in SUBSET (1 .. n), s # {}
        PROVE  g[s] = AddBlock(how, f, last, g[s \ {Max(s)}])
    BY <1>3, <2>1, FoldArguments DEF IsIndexFold
  <2>2. g[{}] = b
    BY <1>3 DEF IsIndexFold
  <2>3. QED
    BY <2>1, <2>2
<1>5. h = Body(h)
  <2>1. h = CHOOSE f0 : f0 = Body(f0)
    OBVIOUS
  <2> HIDE DEF Body, h
  <2>2. QED
    BY <1>4, <2>1
<1>6. BlocksAt(how, f, p, last) = h[1 .. n].blocks
  <2>1. BlocksAt(how, f, p, last) = h[DOMAIN [i \in 1 .. n |-> i]].blocks
    BY Zenon DEF FoldLeft, MapThenFoldSet, BlocksAt
  <2> HIDE DEF h
  <2>2. QED
    BY <2>1
<1> HIDE DEF h
<1>7. h[{}] = b /\ Folds(h, n, V, st)
  <2>1. ASSUME NEW s \in SUBSET (1 .. n), s # {}, h[s \ {Max(s)}] \in V
        PROVE  h[s] = st[<<Max(s), h[s \ {Max(s)}]>>]
    <3>1. Max(s) \in 1 .. n
      BY <2>1, MaxExists
    <3>2. QED
      BY <1>5, <2>1, <3>1
  <2>2. QED
    BY <1>5, <2>1 DEF Folds
<1>8. PICK f0 \in [0 .. n -> V] : IsLoop(f0, n, b, st, h[1 .. n])
  <2> HIDE DEF st, Body
  <2>1. QED
    BY <1>2, <1>7, IndexFoldSteps
<1>9. ASSUME NEW i \in 1 .. n PROVE f0[i] = AddBlock(how, f, last, f0[i - 1])
  <2>1. <<i, f0[i - 1]>> \in (1 .. n) \X V
    OBVIOUS
  <2>2. QED
    BY <1>8, <2>1 DEF IsLoop
<1>10. QED
  BY <1>6, <1>8, <1>9 DEF IsLoop, IsBlockLoop

-----------------------------------------------------------------------------
(* What reading a file can give.                                            *)

\* Every cell that is read as a number is an integer.
IsFile(f) == \E S : f \in Seq(S) /\ \A c \in S : AsNumber(c) \in Int

\* The reader looks no further than last, and a stream ends with the file.
Reads(how, f, last) ==
    /\ how \in {"stream", "buffer"}
    /\ last \in 0 .. Len(f)
    /\ how = "stream" => last = Len(f)

TxnsIn(f) ==
    {TxnAt(f, p).txn : p \in 0 .. Len(f) - 3}
    \cup {[EmptyTxn EXCEPT !.amount = f[p + 3]] : p \in 0 .. Len(f) - 3}

TxnStates(f) == [ok : BOOLEAN, txs : Seq(TxnsIn(f)), next : Nat]

BlocksIn(f) == {BlockAt(f, p, txs) : p \in Nat, txs \in Seq(TxnsIn(f))}

BlockStates(f) == [blocks : Seq(BlocksIn(f)), next : Nat, ended : BOOLEAN]

LEMMA CellsAreNumbers ==
    ASSUME NEW f, IsFile(f)
    PROVE  /\ Len(f) \in Nat
           /\ \A i \in 1 .. Len(f) : AsNumber(f[i]) \in Int
  BY DEF IsFile

LEMMA AmountsAreNumbers ==
    ASSUME NEW f, IsFile(f), NEW t \in TxnsIn(f)
    PROVE  AsNumber(t.amount) \in Int
<1>1. PICK p \in 0 .. Len(f) - 3 : \/ t = TxnAt(f, p).txn
                                   \/ t = [EmptyTxn EXCEPT !.amount = f[p + 3]]
  BY DEF TxnsIn
<1>2. t.amount = f[p + 3]
  BY <1>1 DEF TxnAt, EmptyTxn
<1>3. p + 3 \in 1 .. Len(f)
  BY CellsAreNumbers
<1>4. QED
  BY <1>2, <1>3, CellsAreNumbers

\* A transaction that is read lies in the file, and the offset moves on.
LEMMA TxnReadStep ==
    ASSUME NEW f, IsFile(f), NEW how, NEW last, Reads(how, f, last), NEW p \in Nat,
           TxnRead(how, f, p, last).ok
    PROVE  /\ TxnRead(how, f, p, last).txn \in TxnsIn(f)
           /\ TxnRead(how, f, p, last).next \in Nat
<1>1. Len(f) \in Nat /\ \A i \in 1 .. Len(f) : AsNumber(f[i]) \in Int
  BY CellsAreNumbers
<1>2. ~Unread.ok
  BY DEF Unread
<1>3. ASSUME p + 3 <= Len(f), SaneSizes(f, p)
      PROVE  TxnAt(f, p).txn \in TxnsIn(f) /\ TxnAt(f, p).next \in Nat
  <2>1. p \in 0 .. Len(f) - 3
    BY <1>1, <1>3
  <2>2. AsNumber(f[p + 1]) \in Nat /\ AsNumber(f[p + 2]) \in Nat
    BY <1>3, FormatAssumption DEF SaneSizes
  <2>3. TxnAt(f, p).next = p + 3 + AsNumber(f[p + 1]) + 4 + AsNumber(f[p + 2])
    BY DEF TxnAt
  <2>4. QED
    BY <2>1, <2>2, <2>3 DEF TxnsIn
<1>4. CASE how = "stream"
  <2>1. TxnRead(how, f, p, last) = TxnReadStream(f, p)
    BY <1>4 DEF TxnRead
  <2>2. p + 3 <= Len(f)
    BY <1>1, <1>2, <2>1 DEF TxnReadStream
  <2>3. CASE SaneSizes(f, p)
    <3>1. TxnReadStream(f, p) = TxnAt(f, p)
      BY <1>1, <1>2, <2>1, <2>2, <2>3 DEF TxnReadStream
    <3>2. QED
      BY <1>3, <2>1, <2>2, <2>3, <3>1
  <2>4. CASE ~SaneSizes(f, p)
    <3>1. TxnReadStream(f, p) = [ok |-> TRUE, txn |-> [EmptyTxn EXCEPT !.amount = f[p + 3]],
                                 next |-> p + 3]
      BY <1>1, <2>2, <2>4 DEF TxnReadStream
    <3>2. p \in 0 .. Len(f) - 3
      BY <1>1, <2>2
    <3>3. [EmptyTxn EXCEPT !.amount = f[p + 3]] \in TxnsIn(f)
      BY <3>2 DEF TxnsIn
    <3>4. QED
      BY <2>1, <3>1, <3>3
  <2>5. QED
    BY <2>3, <2>4
<1>5. CASE how = "buffer"
  <2>1. TxnRead(how, f, p, last) = TxnReadBuffer(f, p, last)
    BY <1>5 DEF TxnRead
  <2>2. p + 3 <= last /\ SaneSizes(f, p) /\ TxnReadBuffer(f, p, last) = TxnAt(f, p)
    BY <1>2, <2>1 DEF TxnReadBuffer
  <2>3. p + 3 <= Len(f)
    BY <1>1, <2>2 DEF Reads
  <2>4. QED
    BY <1>3, <2>1, <2>2, <2>3
<1>6. QED
  BY <1>4, <1>5 DEF Reads

LEMMA AddTxnStep ==
    ASSUME NEW f, IsFile(f), NEW how, NEW last, Reads(how, f, last), NEW acc \in TxnStates(f)
    PROVE  AddTxn(how, f, last, acc) \in TxnStates(f)
<1> DEFINE t == TxnRead(how, f, acc.next, last)
<1>1. /\ acc.ok \in BOOLEAN /\ acc.txs \in Seq(TxnsIn(f)) /\ acc.next \in Nat
      /\ acc = [ok |-> acc.ok, txs |-> acc.txs, next |-> acc.next]
  BY DEF TxnStates
<1>2. CASE acc.ok /\ t.ok
  <2>1. t.txn \in TxnsIn(f) /\ t.next \in Nat
    BY <1>1, <1>2, TxnReadStep
  <2>2. AddTxn(how, f, last, acc) = [ok |-> TRUE, txs |-> Append(acc.txs, t.txn), next |-> t.next]
    BY <1>2 DEF AddTxn
  <2>3. Append(acc.txs, t.txn) \in Seq(TxnsIn(f))
    BY <1>1, <2>1
  <2>4. QED
    BY <2>1, <2>2, <2>3 DEF TxnStates
<1>3. CASE ~(acc.ok /\ t.ok)
  <2>1. AddTxn(how, f, last, acc) = [acc EXCEPT !.ok = FALSE]
    BY <1>3 DEF AddTxn
  <2>2. AddTxn(how, f, last, acc) = [ok |-> FALSE, txs |-> acc.txs, next |-> acc.next]
    BY <1>1, <2>1
  <2>3. QED
    BY <1>1, <2>2 DEF TxnStates
<1>4. QED
  BY <1>2, <1>3

LEMMA TxnsAtType ==
    ASSUME NEW f, IsFile(f), NEW how, NEW last, Reads(how, f, last),
           NEW p \in Nat, NEW n \in Nat
    PROVE  TxnsAt(how, f, p, last, n) \in TxnStates(f)
<1> DEFINE b == [ok |-> TRUE, txs |-> <<>>, next |-> p]
           V == TxnStates(f)
           e == TxnsAt(how, f, p, last, n)
<1>1. b \in V
  BY DEF TxnStates
<1>2. \A acc \in V : AddTxn(how, f, last, acc) \in V
  BY AddTxnStep
<1> HIDE DEF V, e
<1>3. PICK g \in [0 .. n -> V] : IsTxnLoop(how, f, last, g, n, b, e)
  BY <1>1, <1>2, TxnLoop DEF e
<1>4. n \in 0 .. n /\ g[n] = e
  BY <1>3 DEF IsTxnLoop
<1>5. QED
  BY <1>4 DEF V, e

\* Likewise a block.
LEMMA BlockReadStep ==
    ASSUME NEW f, IsFile(f), NEW how, NEW last, Reads(how, f, last), NEW p \in Nat,
           BlockRead(how, f, p, last).ok
    PROVE  /\ BlockRead(how, f, p, last).blk \in BlocksIn(f)
           /\ BlockRead(how, f, p, last).next \in Nat
<1> DEFINE count == AsNumber(f[p + 1])
           t == TxnsAt(how, f, p + HeaderSize, last, count)
<1>1. Len(f) \in Nat /\ \A i \in 1 .. Len(f) : AsNumber(f[i]) \in Int
  BY CellsAreNumbers
<1>2. ~NoBlockRead.ok
  BY DEF NoBlockRead
<1>3. /\ p + HeaderSize <= last
      /\ count \in Nat
      /\ BlockRead(how, f, p, last) = [ok |-> t.ok, next |-> t.next, blk |-> BlockAt(f, p, t.txs)]
  <2>1. CASE how = "stream"
    <3>1. BlockRead(how, f, p, last) = BlockReadStream(f, p)
      BY <2>1 DEF BlockRead
    <3>2. p + HeaderSize <= Len(f) /\ count \in 0 .. MAX_TRANSACTIONS
      BY <1>1, <1>2, <3>1 DEF BlockReadStream, HeaderSize
    <3>3. last = Len(f)
      BY <2>1 DEF Reads
    <3>4. BlockReadStream(f, p) =
             [ok |-> t.ok, next |-> t.next, blk |-> BlockAt(f, p, t.txs)]
      BY <1>1, <2>1, <3>2, <3>3 DEF BlockReadStream, HeaderSize
    <3>5. QED
      BY <3>1, <3>2, <3>3, <3>4
  <2>2. CASE how = "buffer"
    <3>1. BlockRead(how, f, p, last) = BlockReadBuffer(f, p, last)
      BY <2>2 DEF BlockRead
    <3>2. ~(p + HeaderSize > last) /\ ~(count < 0)
      BY <1>2, <3>1 DEF BlockReadBuffer
    <3>3. p + HeaderSize <= last /\ p + 1 \in 1 .. Len(f)
      BY <1>1, <3>2 DEF HeaderSize, Reads
    <3>4. count \in Nat
      BY <1>1, <3>2, <3>3
    <3>5. BlockReadBuffer(f, p, last) =
             [ok |-> t.ok, next |-> t.next, blk |-> BlockAt(f, p, t.txs)]
      BY <2>2, <3>2 DEF BlockReadBuffer
    <3>6. QED
      BY <3>1, <3>3, <3>4, <3>5
  <2>3. QED
    BY <2>1, <2>2 DEF Reads
<1>4. t \in TxnStates(f)
  <2>1. p + HeaderSize \in Nat
    BY DEF HeaderSize
  <2> HIDE DEF count
  <2>2. QED
    BY <1>3, <2>1, TxnsAtType
<1> HIDE DEF t, count
<1>5. t.txs \in Seq(TxnsIn(f)) /\ t.next \in Nat
  BY <1>4 DEF TxnStates
<1>6. QED
  BY <1>3, <1>5 DEF BlocksIn

LEMMA AddBlockStep ==
    ASSUME NEW f, IsFile(f), NEW how, NEW last, Reads(how, f, last), NEW acc \in BlockStates(f)
    PROVE  AddBlock(how, f, last, acc) \in BlockStates(f)
<1> DEFINE r == BlockRead(how, f, acc.next, last)
<1>1. /\ acc.blocks \in Seq(BlocksIn(f)) /\ acc.next \in Nat /\ acc.ended \in BOOLEAN
      /\ acc = [blocks |-> acc.blocks, next |-> acc.next, ended |-> acc.ended]
  BY DEF BlockStates
<1>2. CASE acc.ended \/ acc.next >= last
  BY <1>2 DEF AddBlock
<1>3. CASE ~(acc.ended \/ acc.next >= last) /\ r.ok
  <2>1. r.blk \in BlocksIn(f) /\ r.next \in Nat
    BY <1>1, <1>3, BlockReadStep
  <2>2. AddBlock(how, f, last, acc) =
           [blocks |-> Append(acc.blocks, r.blk), next |-> r.next, ended |-> FALSE]
    BY <1>3 DEF AddBlock
  <2>3. Append(acc.blocks, r.blk) \in Seq(BlocksIn(f))
    BY <1>1, <2>1
  <2>4. QED
    BY <2>1, <2>2, <2>3 DEF BlockStates
<1>4. CASE ~(acc.ended \/ acc.next >= last) /\ ~r.ok
  <2>1. AddBlock(how, f, last, acc) = [acc EXCEPT !.ended = TRUE]
    BY <1>4 DEF AddBlock
  <2>2. AddBlock(how, f, last, acc) = [blocks |-> acc.blocks, next |-> acc.next, ended |-> TRUE]
    BY <1>1, <2>1
  <2>3. QED
    BY <1>1, <2>2 DEF BlockStates
<1>5. QED
  BY <1>2, <1>3, <1>4

\* A reader finds a sequence of blocks, whatever is in the file.
LEMMA BlocksAtType ==
    ASSUME NEW f, IsFile(f), NEW how, NEW last, Reads(how, f, last)
    PROVE  BlocksAt(how, f, 0, last) \in Seq(BlocksIn(f))
<1> DEFINE b == [blocks |-> <<>>, next |-> 0, ended |-> FALSE]
           V == BlockStates(f)
           e == BlocksAt(how, f, 0, last)
<1>1. b \in V
  BY DEF BlockStates
<1>2. \A acc \in V : AddBlock(how, f, last, acc) \in V
  BY AddBlockStep
<1>3. last \in Nat /\ last = last - 0
  BY CellsAreNumbers DEF Reads
<1> HIDE DEF V, e
<1>4. PICK g \in [0 .. last -> V] : IsBlockLoop(how, f, last, g, last, b, e)
  BY <1>1, <1>2, <1>3, BlockLoop DEF e
<1>5. last \in 0 .. last /\ g[last].blocks = e
  BY <1>3, <1>4 DEF IsBlockLoop
<1>6. g[last] \in BlockStates(f)
  BY <1>5 DEF V
<1>7. QED
  BY <1>5, <1>6 DEF BlockStates, e

-----------------------------------------------------------------------------
(* Pieces of files.                                                         *)

IsCell(c) == AsNumber(c) \in Int

\* The cells of w stand in f behind offset p.
HoldsAt(f, p, w) ==
    /\ p \in Nat
    /\ p + Len(w) <= Len(f)
    /\ \A i \in 1 .. Len(w) : f[p + i] = w[i]

LEMMA HoldsTwo ==
    ASSUME NEW f, IsFile(f), NEW g, IsFile(g)
    PROVE  /\ IsFile(f \o g)
           /\ Len(f \o g) = Len(f) + Len(g)
           /\ HoldsAt(f \o g, 0, f)
           /\ HoldsAt(f \o g, Len(f), g)
<1>1. PICK S : f \in Seq(S) /\ \A c \in S : AsNumber(c) \in Int
  BY DEF IsFile
<1>2. PICK T : g \in Seq(T) /\ \A c \in T : AsNumber(c) \in Int
  BY DEF IsFile
<1>3. f \in Seq(S \cup T) /\ g \in Seq(S \cup T)
  BY <1>1, <1>2
<1>4. /\ f \o g \in Seq(S \cup T)
      /\ Len(f \o g) = Len(f) + Len(g)
      /\ \A i \in 1 .. Len(f) : (f \o g)[i] = f[i]
      /\ \A i \in 1 .. Len(g) : (f \o g)[Len(f) + i] = g[i]
  BY <1>3, ConcatSeq
<1>5. IsFile(f \o g)
  BY <1>1, <1>2, <1>4 DEF IsFile
<1>6. Len(f) \in Nat /\ Len(g) \in Nat
  BY <1>3
<1>7. HoldsAt(f \o g, 0, f)
  BY <1>4, <1>6 DEF HoldsAt
<1>8. HoldsAt(f \o g, Len(f), g)
  BY <1>4, <1>6 DEF HoldsAt
<1>9. QED
  BY <1>4, <1>5, <1>7, <1>8

\* A piece of a piece is a piece.
LEMMA HoldsInside ==
    ASSUME NEW f, NEW w, IsFile(w), NEW v, IsFile(v), NEW p, NEW q,
           HoldsAt(f, p, w), HoldsAt(w, q, v), Len(f) \in Nat
    PROVE  HoldsAt(f, p + q, v)
<1>1. Len(w) \in Nat /\ Len(v) \in Nat /\ p \in Nat /\ q \in Nat
  BY CellsAreNumbers DEF HoldsAt
<1>2. p + q + Len(v) <= Len(f)
  BY <1>1 DEF HoldsAt
<1>3. ASSUME NEW i \in 1 .. Len(v) PROVE f[p + q + i] = v[i]
  <2>1. q + i \in 1 .. Len(w) /\ p + (q + i) = p + q + i
    BY <1>1 DEF HoldsAt
  <2>2. f[p + (q + i)] = w[q + i]
    BY <2>1 DEF HoldsAt
  <2>3. QED
    BY <2>1, <2>2 DEF HoldsAt
<1>4. QED
  BY <1>1, <1>2, <1>3 DEF HoldsAt

LEMMA SeqsEqual ==
    ASSUME NEW f, IsFile(f), NEW g, IsFile(g), Len(f) = Len(g),
           \A i \in 1 .. Len(f) : f[i] = g[i]
    PROVE  f = g
<1>1. PICK S : f \in Seq(S)
  BY DEF IsFile
<1>2. PICK T : g \in Seq(T)
  BY DEF IsFile
<1>3. QED
  BY <1>1, <1>2

LEMMA SubSeqFile ==
    ASSUME NEW f, IsFile(f), NEW m \in Nat \ {0}, NEW n \in Nat, n <= Len(f), m <= n + 1
    PROVE  /\ IsFile(SubSeq(f, m, n))
           /\ Len(SubSeq(f, m, n)) = n - m + 1
           /\ \A i \in 1 .. n - m + 1 : SubSeq(f, m, n)[i] = f[m + i - 1]
<1>1. PICK S : f \in Seq(S) /\ \A c \in S : AsNumber(c) \in Int
  BY DEF IsFile
<1>2. \A i \in m .. n : f[i] \in S
  BY <1>1
<1>3. /\ SubSeq(f, m, n) \in Seq(S)
      /\ Len(SubSeq(f, m, n)) = n - m + 1
      /\ \A i \in 1 .. n - m + 1 : SubSeq(f, m, n)[i] = f[m + i - 1]
  BY <1>1, <1>2
<1>4. QED
  BY <1>1, <1>3 DEF IsFile

\* Reading back a piece by its offset and length.
LEMMA HoldsSubSeq ==
    ASSUME NEW f, IsFile(f), NEW w, IsFile(w), NEW p, HoldsAt(f, p, w)
    PROVE  SubSeq(f, p + 1, p + Len(w)) = w
<1>1. Len(f) \in Nat /\ Len(w) \in Nat /\ p \in Nat
  BY CellsAreNumbers DEF HoldsAt
<1> DEFINE m == p + 1
           n == p + Len(w)
<1>2. m \in Nat \ {0} /\ n \in Nat /\ n <= Len(f) /\ m <= n + 1 /\ n - m + 1 = Len(w)
  BY <1>1 DEF HoldsAt
<1> HIDE DEF m, n
<1>3. /\ IsFile(SubSeq(f, m, n))
      /\ Len(SubSeq(f, m, n)) = Len(w)
      /\ \A i \in 1 .. Len(w) : SubSeq(f, m, n)[i] = f[m + i - 1]
  BY <1>2, SubSeqFile
<1>4. ASSUME NEW i \in 1 .. Len(w) PROVE SubSeq(f, m, n)[i] = w[i]
  <2>1. m + i - 1 = p + i
    BY <1>1 DEF m
  <2>2. QED
    BY <1>3, <2>1 DEF HoldsAt
<1>5. SubSeq(f, m, n) = w
  BY <1>3, <1>4, SeqsEqual
<1>6. QED
  BY <1>5 DEF m, n

\* h are the prefixes that FlattenSeq makes of pieces.
IsFlatten(h, seqs, n, end) ==
    /\ h[0] = <<>>
    /\ \A i \in 1 .. n : h[i] = h[i - 1] \o seqs[i]
    /\ end = h[n]

LEMMA RangeOfFile ==
    ASSUME NEW f, IsFile(f)
    PROVE  f \in Seq(Range(f)) /\ \A c \in Range(f) : AsNumber(c) \in Int
<1>1. PICK T : f \in Seq(T) /\ \A c \in T : AsNumber(c) \in Int
  BY DEF IsFile
<1>2. Range(f) = {f[j] : j \in 1 .. Len(f)}
  BY <1>1 DEF Range
<1>3. QED
  BY <1>1, <1>2

IsTuple(s, n) == s = [i \in 1 .. n |-> s[i]]

AllFiles(seqs, D) == \A i \in D : IsFile(seqs[i])

LEMMA FlattenFile ==
    ASSUME NEW n \in Nat, NEW seqs, IsTuple(seqs, n),
           AllFiles(seqs, 1 .. n)
    PROVE  \E h : IsFlatten(h, seqs, n, FlattenSeq(seqs)) /\ AllFiles(h, 0 .. n)
<1> DEFINE S == UNION {Range(seqs[i]) : i \in 1 .. n}
<1>1. ASSUME NEW i \in 1 .. n
      PROVE  /\ seqs[i] \in Seq(Range(seqs[i]))
             /\ \A c \in Range(seqs[i]) : AsNumber(c) \in Int
  BY RangeOfFile DEF AllFiles
<1>2. \A c \in S : AsNumber(c) \in Int
  BY <1>1
<1>3. \A i \in 1 .. n : seqs[i] \in Seq(S)
  <2> SUFFICES ASSUME NEW i \in 1 .. n PROVE seqs[i] \in Seq(S)
    OBVIOUS
  <2>1. Range(seqs[i]) \subseteq S
    OBVIOUS
  <2> HIDE DEF S
  <2>2. QED
    BY <1>1, <2>1
<1> HIDE DEF S
<1>4. seqs \in [1 .. n -> Seq(S)]
  BY <1>3 DEF IsTuple
<1>5. PICK h \in [0 .. n -> Seq(S)] :
              /\ h[0] = <<>>
              /\ \A i \in 1 .. n : h[i] = h[i - 1] \o seqs[i]
              /\ FlattenSeq(seqs) = h[n]
  BY <1>4, FlattenSteps
<1>6. AllFiles(h, 0 .. n)
  BY <1>2 DEF AllFiles, IsFile
<1>7. IsFlatten(h, seqs, n, FlattenSeq(seqs))
  BY <1>5 DEF IsFlatten
<1>8. QED
  BY <1>6, <1>7

\* Each piece stands behind those before it.
IsPlaced(h, seqs, n, end) ==
    /\ Len(h[0]) = 0
    /\ \A i \in 1 .. n : /\ Len(h[i]) = Len(h[i - 1]) + Len(seqs[i])
                         /\ HoldsAt(end, Len(h[i - 1]), seqs[i])

LEMMA FlattenHolds ==
    ASSUME NEW n \in Nat, NEW seqs, AllFiles(seqs, 1 .. n),
           NEW end, NEW h, IsFlatten(h, seqs, n, end), AllFiles(h, 0 .. n)
    PROVE  IsFile(end) /\ IsPlaced(h, seqs, n, end)
<1>1. Len(h[0]) = 0 /\ IsFile(end)
  BY DEF IsFlatten, AllFiles
<1>2. ASSUME NEW i \in 1 .. n
      PROVE  /\ IsFile(h[i - 1]) /\ IsFile(h[i]) /\ IsFile(seqs[i])
             /\ Len(h[i - 1]) \in Nat /\ Len(h[i]) \in Nat
             /\ Len(h[i]) = Len(h[i - 1]) + Len(seqs[i])
             /\ HoldsAt(h[i], 0, h[i - 1])
             /\ HoldsAt(h[i], Len(h[i - 1]), seqs[i])
  <2>1. IsFile(h[i - 1]) /\ IsFile(h[i]) /\ IsFile(seqs[i])
    BY DEF AllFiles
  <2>2. h[i] = h[i - 1] \o seqs[i]
    BY DEF IsFlatten
  <2>3. QED
    BY <2>1, <2>2, HoldsTwo, CellsAreNumbers
<1> DEFINE S == {k \in 0 .. n : \A i \in 1 .. k : HoldsAt(h[k], Len(h[i - 1]), seqs[i])}
<1>3. 0 \in S
  <2>1. 0 \in 0 .. n /\ 1 .. 0 = {}
    OBVIOUS
  <2>2. QED
    BY <2>1
<1>4. ASSUME NEW k \in 0 .. n - 1, k \in S PROVE k + 1 \in S
  <2>1. k + 1 \in 1 .. n /\ (k + 1) - 1 = k /\ k + 1 \in 0 .. n
    OBVIOUS
  <2>2. ASSUME NEW i \in 1 .. k + 1
        PROVE  HoldsAt(h[k + 1], Len(h[i - 1]), seqs[i])
    <3>1. CASE i = k + 1
      BY <1>2, <2>1, <3>1
    <3>2. CASE i # k + 1
      <4>1. i \in 1 .. k /\ i \in 1 .. n
        BY <3>2
      <4>2. HoldsAt(h[k], Len(h[i - 1]), seqs[i])
        BY <1>4, <4>1
      <4>3. HoldsAt(h[k + 1], 0, h[k]) /\ IsFile(h[k]) /\ IsFile(h[k + 1])
        <5>1. /\ HoldsAt(h[k + 1], 0, h[(k + 1) - 1])
              /\ IsFile(h[(k + 1) - 1]) /\ IsFile(h[k + 1])
          BY <1>2, <2>1
        <5>2. QED
          BY <2>1, <5>1
      <4>4. IsFile(seqs[i]) /\ Len(h[i - 1]) \in Nat /\ Len(h[k + 1]) \in Nat
        BY <1>2, <4>1, <4>3, CellsAreNumbers
      <4>5. HoldsAt(h[k + 1], 0 + Len(h[i - 1]), seqs[i])
        BY <4>2, <4>3, <4>4, HoldsInside
      <4>6. QED
        BY <4>4, <4>5
    <3>3. QED
      BY <3>1, <3>2
  <2>3. QED
    BY <2>1, <2>2
<1> HIDE DEF S
<1>5. 0 .. n \subseteq S
  BY <1>3, <1>4, PrefixInduction
<1>6. n \in S
  BY <1>5
<1>7. \A i \in 1 .. n : HoldsAt(end, Len(h[i - 1]), seqs[i])
  BY <1>6 DEF S, IsFlatten
<1>8. QED
  BY <1>1, <1>2, <1>7 DEF IsPlaced

-----------------------------------------------------------------------------
(* The file that a block is written to.                                     *)

LEMMA FileOf ==
    ASSUME NEW S, NEW f \in Seq(S), \A c \in S : AsNumber(c) \in Int
    PROVE  IsFile(f)
  BY DEF IsFile

LEMMA FewCells ==
    /\ IsFile(<<>>)
    /\ \A c : IsCell(c) => IsFile(<<c>>) /\ Len(<<c>>) = 1
    /\ \A c1, c2, c3 : IsCell(c1) /\ IsCell(c2) /\ IsCell(c3) =>
          IsFile(<<c1, c2, c3>>) /\ Len(<<c1, c2, c3>>) = 3
    /\ \A c1, c2, c3, c4 : IsCell(c1) /\ IsCell(c2) /\ IsCell(c3) /\ IsCell(c4) =>
          IsFile(<<c1, c2, c3, c4>>) /\ Len(<<c1, c2, c3, c4>>) = 4
<1>1. IsFile(<<>>)
  <2> DEFINE f == <<>>
             S == {}
  <2>1. f \in Seq(S) /\ Len(f) = 0
    OBVIOUS
  <2>2. \A d \in S : AsNumber(d) \in Int
    OBVIOUS
  <2> HIDE DEF f, S
  <2>3. IsFile(f) /\ Len(f) = 0
    BY <2>1, <2>2, FileOf
  <2>4. QED
    BY <2>3 DEF f
<1>2. ASSUME NEW c,
             IsCell(c)
      PROVE  IsFile(<<c>>) /\ Len(<<c>>) = 1
  <2> DEFINE f == <<c>>
             S == {c}
  <2>1. f \in Seq(S) /\ Len(f) = 1
    OBVIOUS
  <2>2. \A d \in S : AsNumber(d) \in Int
    BY <1>2 DEF IsCell
  <2> HIDE DEF f, S
  <2>3. IsFile(f) /\ Len(f) = 1
    BY <2>1, <2>2, FileOf
  <2>4. QED
    BY <2>3 DEF f
<1>3. ASSUME NEW c1, NEW c2, NEW c3,
             IsCell(c1), IsCell(c2), IsCell(c3)
      PROVE  IsFile(<<c1, c2, c3>>) /\ Len(<<c1, c2, c3>>) = 3
  <2> DEFINE f == <<c1, c2, c3>>
             S == {c1, c2, c3}
  <2>1. f \in Seq(S) /\ Len(f) = 3
    OBVIOUS
  <2>2. \A d \in S : AsNumber(d) \in Int
    BY <1>3 DEF IsCell
  <2> HIDE DEF f, S
  <2>3. IsFile(f) /\ Len(f) = 3
    BY <2>1, <2>2, FileOf
  <2>4. QED
    BY <2>3 DEF f
<1>4. ASSUME NEW c1, NEW c2, NEW c3, NEW c4,
             IsCell(c1), IsCell(c2), IsCell(c3), IsCell(c4)
      PROVE  IsFile(<<c1, c2, c3, c4>>) /\ Len(<<c1, c2, c3, c4>>) = 4
  <2> DEFINE f == <<c1, c2, c3, c4>>
             S == {c1, c2, c3, c4}
  <2>1. f \in Seq(S) /\ Len(f) = 4
    OBVIOUS
  <2>2. \A d \in S : AsNumber(d) \in Int
    BY <1>4 DEF IsCell
  <2> HIDE DEF f, S
  <2>3. IsFile(f) /\ Len(f) = 4
    BY <2>1, <2>2, FileOf
  <2>4. QED
    BY <2>3 DEF f
<1>5. QED
  BY <1>1, <1>2, <1>3, <1>4

LEMMA CellKinds ==
    /\ \A n \in Int : IsCell(Number(n)) /\ AsNumber(Number(n)) = n
    /\ \A c : IsCell(sha256(c))
    /\ IsCell(ZeroHash)
    /\ \A x : IsCell(<<"key", x>>) /\ \A y : IsCell(<<"signature", x, y>>)
  BY FormatAssumption DEF IsCell, AsNumber, Number, sha256, ZeroHash

\* What a transaction in memory consists of when it can be written.
IsTxn(t) ==
    /\ t = [key |-> t.key, source |-> t.source, dest |-> t.dest, change |-> t.change,
            amount |-> t.amount, hash |-> t.hash, signature |-> t.signature]
    /\ IsFile(t.key) /\ IsFile(t.signature)
    /\ IsCell(t.source) /\ IsCell(t.dest) /\ IsCell(t.change)
    /\ IsCell(t.amount) /\ IsCell(t.hash)

\* The fields of a transaction and where write puts them.
LEMMA TxnWritten ==
    ASSUME NEW t, IsTxn(t)
    PROVE  LET w == TxnWrite(t)
               n == Len(t.key)
           IN  /\ IsFile(w) /\ n \in Nat /\ Len(t.signature) \in Nat
               /\ Len(w) = TxnSize(t)
               /\ TxnSize(t) = 7 + n + Len(t.signature)
               /\ w[1] = Number(n) /\ w[2] = Number(Len(t.signature)) /\ w[3] = t.amount
               /\ HoldsAt(w, 3, t.key)
               /\ w[n + 4] = t.source /\ w[n + 5] = t.dest
               /\ w[n + 6] = t.change /\ w[n + 7] = t.hash
               /\ HoldsAt(w, n + 7, t.signature)
<1> DEFINE n == Len(t.key)
           m == Len(t.signature)
           a == <<Number(n), Number(m), t.amount>>
           d == <<t.source, t.dest, t.change, t.hash>>
           k == t.key
           s == t.signature
           ak == a \o k
           akd == ak \o d
           w == akd \o s
<1>1. n \in Nat /\ m \in Nat /\ IsFile(k) /\ IsFile(s)
  BY CellsAreNumbers DEF IsTxn
<1>2. IsFile(a) /\ Len(a) = 3
  BY <1>1, FewCells, CellKinds DEF IsTxn
<1>3. IsFile(d) /\ Len(d) = 4
  BY FewCells DEF IsTxn
<1>4. w = TxnWrite(t)
  BY DEF TxnWrite
<1>5. a[1] = Number(n) /\ a[2] = Number(m) /\ a[3] = t.amount
  OBVIOUS
<1>6. d[1] = t.source /\ d[2] = t.dest /\ d[3] = t.change /\ d[4] = t.hash
  OBVIOUS
<1> HIDE DEF a, d, k, s
<1>7. /\ IsFile(ak) /\ Len(ak) = 3 + n
      /\ HoldsAt(ak, 0, a) /\ HoldsAt(ak, 3, k)
  BY <1>1, <1>2, HoldsTwo DEF k
<1> HIDE DEF ak
<1>8. /\ IsFile(akd) /\ Len(akd) = 7 + n
      /\ HoldsAt(akd, 0, ak) /\ HoldsAt(akd, n + 3, d)
  <2>1. /\ IsFile(akd) /\ Len(akd) = Len(ak) + Len(d)
        /\ HoldsAt(akd, 0, ak) /\ HoldsAt(akd, Len(ak), d)
    BY <1>3, <1>7, HoldsTwo
  <2> HIDE DEF akd, n
  <2>2. Len(ak) = n + 3 /\ Len(ak) + Len(d) = 7 + n
    BY <1>1, <1>3, <1>7
  <2>3. QED
    BY <2>1, <2>2
<1> HIDE DEF akd
<1>9. /\ IsFile(w) /\ Len(w) = 7 + n + m
      /\ HoldsAt(w, 0, akd) /\ HoldsAt(w, n + 7, s)
  <2>1. /\ IsFile(w) /\ Len(w) = Len(akd) + Len(s)
        /\ HoldsAt(w, 0, akd) /\ HoldsAt(w, Len(akd), s)
    BY <1>1, <1>8, HoldsTwo
  <2>2. Len(s) = m
    BY DEF s
  <2> HIDE DEF w, n, m
  <2>3. Len(akd) = n + 7 /\ Len(akd) + Len(s) = 7 + n + m
    BY <1>1, <1>8, <2>2
  <2>4. QED
    BY <2>1, <2>3
<1> HIDE DEF w, n, m
<1>10. Len(w) \in Nat
  BY <1>1, <1>9
<1>11. HoldsAt(w, 0, ak)
  <2>1. Len(w) \in Nat /\ 0 + 0 = 0
    BY <1>10
  <2>2. HoldsAt(w, 0 + 0, ak)
    BY <1>7, <1>8, <1>9, <2>1, HoldsInside
  <2>3. QED
    BY <2>1, <2>2
<1>12. HoldsAt(w, 0, a) /\ HoldsAt(w, 3, k) /\ HoldsAt(w, n + 3, d)
  <2>1. HoldsAt(w, 0 + 0, a) /\ HoldsAt(w, 0 + 3, k)
    BY <1>1, <1>2, <1>7, <1>10, <1>11, HoldsInside
  <2>2. HoldsAt(w, 0 + (n + 3), d)
    BY <1>3, <1>8, <1>9, <1>10, HoldsInside
  <2>3. 0 + 0 = 0 /\ 0 + 3 = 3 /\ 0 + (n + 3) = n + 3
    BY <1>1
  <2>4. QED
    BY <2>1, <2>2, <2>3
<1>13. w[1] = Number(n) /\ w[2] = Number(m) /\ w[3] = t.amount
  <2>1. \A i \in 1 .. 3 : w[0 + i] = a[i]
    BY <1>2, <1>12 DEF HoldsAt
  <2>2. w[1] = a[1] /\ w[2] = a[2] /\ w[3] = a[3]
    BY <2>1
  <2>3. QED
    BY <1>5, <2>2
<1>14. /\ w[n + 4] = t.source /\ w[n + 5] = t.dest
       /\ w[n + 6] = t.change /\ w[n + 7] = t.hash
  <2>1. \A i \in 1 .. 4 : w[n + 3 + i] = d[i]
    BY <1>3, <1>12 DEF HoldsAt
  <2>2. w[n + 3 + 1] = d[1] /\ w[n + 3 + 2] = d[2] /\ w[n + 3 + 3] = d[3] /\ w[n + 3 + 4] = d[4]
    BY <2>1
  <2>3. n + 3 + 1 = n + 4 /\ n + 3 + 2 = n + 5 /\ n + 3 + 3 = n + 6 /\ n + 3 + 4 = n + 7
    BY <1>1
  <2>4. QED
    BY <1>6, <2>2, <2>3
<1>15. TxnSize(t) = 7 + n + m
  <2>1. TxnSize(t) = 3 + n + 4 + m
    BY DEF TxnSize, n, m
  <2>2. QED
    BY <1>1, <2>1
<1>16. QED
  BY <1>1, <1>4, <1>9, <1>12, <1>13, <1>14, <1>15 DEF k, s, n, m

-----------------------------------------------------------------------------
(* Where the pieces of a file lie.                                          *)

\* Piece i of n stands behind off[i - 1], and ends at off[i].
IsLayout(off, seqs, n, w) ==
    /\ off \in [0 .. n -> Nat]
    /\ off[0] = 0
    /\ off[n] = Len(w)
    /\ \A i \in 1 .. n : /\ off[i] = off[i - 1] + Len(seqs[i])
                         /\ HoldsAt(w, off[i - 1], seqs[i])

LEMMA FlattenLayout ==
    ASSUME NEW n \in Nat, NEW seqs, IsTuple(seqs, n),
           AllFiles(seqs, 1 .. n)
    PROVE  /\ IsFile(FlattenSeq(seqs))
           /\ \E off : IsLayout(off, seqs, n, FlattenSeq(seqs))
<1> DEFINE w == FlattenSeq(seqs)
<1> HIDE DEF w
<1>1. PICK h : IsFlatten(h, seqs, n, w) /\ AllFiles(h, 0 .. n)
  BY FlattenFile DEF w
<1> DEFINE off == [i \in 0 .. n |-> Len(h[i])]
<1>2. IsFile(w) /\ IsPlaced(h, seqs, n, w)
  BY <1>1, FlattenHolds
<1>3. off \in [0 .. n -> Nat]
  BY <1>1, CellsAreNumbers DEF AllFiles
<1>4. off[0] = 0 /\ off[n] = Len(w)
  BY <1>1, <1>2 DEF IsFlatten, IsPlaced
<1>5. ASSUME NEW i \in 1 .. n
      PROVE  /\ off[i] = off[i - 1] + Len(seqs[i])
             /\ HoldsAt(w, off[i - 1], seqs[i])
  <2>1. i - 1 \in 0 .. n /\ i \in 0 .. n
    OBVIOUS
  <2>2. off[i - 1] = Len(h[i - 1]) /\ off[i] = Len(h[i])
    BY <2>1
  <2> HIDE DEF off
  <2>3. QED
    BY <1>2, <2>2 DEF IsPlaced
<1> HIDE DEF off
<1>6. IsLayout(off, seqs, n, w)
  BY <1>3, <1>4, <1>5 DEF IsLayout
<1>7. QED
  BY <1>2, <1>6 DEF w

\* Sums of sizes grow by one size at a time.
LEMMA SumSteps ==
    ASSUME NEW n \in Nat, NEW s, \A i \in 1 .. n : s[i] \in Nat
    PROVE  /\ SumFunction([j \in 1 .. 0 |-> s[j]]) = 0
           /\ \A i \in 0 .. n : SumFunction([j \in 1 .. i |-> s[j]]) \in Nat
           /\ \A i \in 1 .. n : SumFunction([j \in 1 .. i |-> s[j]]) =
                                   SumFunction([j \in 1 .. i - 1 |-> s[j]]) + s[i]
<1> DEFINE P(i) == [j \in 1 .. i |-> s[j]]
<1>1. ASSUME NEW i \in 0 .. n PROVE IsMap(P(i))
  <2>1. IsFiniteSet(1 .. i)
    BY FS_Interval
  <2>2. QED
    BY <2>1 DEF IsMap
<1>2. \A i \in 0 .. n : SumFunction(P(i)) \in Nat
  <2> HIDE DEF P
  <2>1. QED
    BY <1>1, SupplyType DEF Supply
<1>3. SumFunction(P(0)) = 0
  <2>1. DOMAIN P(0) = {}
    OBVIOUS
  <2>2. IsMap(P(0))
    <3>1. 0 \in 0 .. n
      OBVIOUS
    <3> HIDE DEF P
    <3>2. QED
      BY <1>1, <3>1
  <2> HIDE DEF P
  <2>3. Sums(P(0))[{}] = 0
    BY <2>2, SumsEquation
  <2>4. QED
    BY <2>1, <2>3, SupplyIsSums DEF Supply
<1>4. ASSUME NEW i \in 1 .. n
      PROVE  SumFunction(P(i)) = SumFunction(P(i - 1)) + s[i]
  <2>1. i \in 0 .. n /\ i - 1 \in 0 .. n
    OBVIOUS
  <2>2. IsMap(P(i))
    BY <1>1, <2>1
  <2>3. Supply(P(i)) = Value(P(i), i) + Supply(Without(P(i), i))
    <3> HIDE DEF P
    <3>1. QED
      BY <2>2, SupplySplit
  <2>4. Value(P(i), i) = s[i]
    BY DEF Value
  <2>5. Without(P(i), i) = P(i - 1)
    <3>1. (1 .. i) \ {i} = 1 .. i - 1
      OBVIOUS
    <3>2. QED
      BY <3>1 DEF Without, Restrict
  <2>6. SumFunction(P(i)) = s[i] + SumFunction(P(i - 1))
    <3> HIDE DEF P
    <3>1. QED
      BY <2>3, <2>4, <2>5 DEF Supply
  <2>7. SumFunction(P(i - 1)) \in Nat /\ s[i] \in Nat
    BY <1>2, <2>1
  <2> HIDE DEF P
  <2>8. QED
    BY <2>6, <2>7
<1>5. QED
  BY <1>2, <1>3, <1>4

\* The offsets are the sums of the sizes.
LEMMA LayoutSums ==
    ASSUME NEW n \in Nat, NEW off, NEW seqs, NEW w, IsLayout(off, seqs, n, w),
           NEW s, \A i \in 1 .. n : s[i] \in Nat /\ Len(seqs[i]) = s[i]
    PROVE  \A i \in 0 .. n : off[i] = SumFunction([j \in 1 .. i |-> s[j]])
<1> DEFINE T == {i \in 0 .. n : off[i] = SumFunction([j \in 1 .. i |-> s[j]])}
<1>1. 0 \in T
  <2>1. SumFunction([j \in 1 .. 0 |-> s[j]]) = 0 /\ off[0] = 0 /\ 0 \in 0 .. n
    BY SumSteps DEF IsLayout
  <2>2. QED
    BY <2>1
<1>2. ASSUME NEW i \in 0 .. n - 1, i \in T PROVE i + 1 \in T
  <2>1. i + 1 \in 1 .. n /\ (i + 1) - 1 = i /\ i + 1 \in 0 .. n
    OBVIOUS
  <2>2. off[i + 1] = off[(i + 1) - 1] + Len(seqs[i + 1])
    BY <2>1 DEF IsLayout
  <2>3. SumFunction([j \in 1 .. i + 1 |-> s[j]]) =
           SumFunction([j \in 1 .. (i + 1) - 1 |-> s[j]]) + s[i + 1]
    BY <2>1, SumSteps
  <2>4. QED
    BY <1>2, <2>1, <2>2, <2>3
<1> HIDE DEF T
<1>3. 0 .. n \subseteq T
  BY <1>1, <1>2, PrefixInduction
<1>4. QED
  BY <1>3 DEF T

-----------------------------------------------------------------------------
(* Blocks in files.                                                         *)

\* A block in memory that can be written.
IsBlk(b) ==
    /\ b = [reward |-> b.reward, prev |-> b.prev, hash |-> b.hash, txs |-> b.txs]
    /\ IsCell(b.reward) /\ IsCell(b.prev) /\ IsCell(b.hash)
    /\ Len(b.txs) \in 0 .. MAX_TRANSACTIONS
    /\ IsTuple(b.txs, Len(b.txs))
    /\ \A i \in 1 .. Len(b.txs) : IsTxn(b.txs[i]) /\ Writable(b.txs[i])

TxnTexts(b) == [i \in DOMAIN b.txs |-> TxnWrite(b.txs[i])]

\* Transaction i of b stands behind off[i - 1].
IsBlockLayout(off, w, b) ==
    /\ off \in [0 .. Len(b.txs) -> Nat]
    /\ off[0] = 4
    /\ off[Len(b.txs)] = Len(w)
    /\ \A i \in 1 .. Len(b.txs) :
          /\ off[i] = off[i - 1] + TxnSize(b.txs[i])
          /\ HoldsAt(w, off[i - 1], TxnWrite(b.txs[i]))

\* The header of b is the beginning of w.
HasHeader(w, b) ==
    /\ w[1] = Number(Len(b.txs)) /\ w[2] = b.reward /\ w[3] = b.prev /\ w[4] = b.hash

LEMMA BlockWritten ==
    ASSUME NEW b, IsBlk(b)
    PROVE  /\ IsFile(BlockWrite(b))
           /\ BlockSize(b) \in Nat /\ BlockSize(b) >= 4
           /\ Len(BlockWrite(b)) = BlockSize(b)
           /\ HasHeader(BlockWrite(b), b)
           /\ \E off : IsBlockLayout(off, BlockWrite(b), b)
<1> DEFINE n == Len(b.txs)
           T == TxnTexts(b)
           a == <<Number(n), b.reward, b.prev, b.hash>>
           F == FlattenSeq(T)
           w == a \o F
<1>1. n \in Nat /\ DOMAIN b.txs = 1 .. n
  BY FormatAssumption DEF IsBlk, IsTuple
<1>2. IsTuple(T, n)
  BY <1>1 DEF TxnTexts, IsTuple
<1>3. ASSUME NEW i \in 1 .. n
      PROVE  /\ T[i] = TxnWrite(b.txs[i]) /\ IsFile(T[i])
             /\ Len(T[i]) = TxnSize(b.txs[i]) /\ TxnSize(b.txs[i]) \in Nat
  <2>1. T[i] = TxnWrite(b.txs[i])
    BY <1>1 DEF TxnTexts
  <2>2. IsTxn(b.txs[i])
    BY DEF IsBlk
  <2>3. IsFile(TxnWrite(b.txs[i])) /\ Len(TxnWrite(b.txs[i])) = TxnSize(b.txs[i])
    BY <2>2, TxnWritten
  <2>4. QED
    BY <2>1, <2>3, CellsAreNumbers
<1> HIDE DEF T, F
<1>4. AllFiles(T, 1 .. n)
  BY <1>3 DEF AllFiles
<1>5. IsFile(F) /\ \E off : IsLayout(off, T, n, F)
  BY <1>1, <1>2, <1>4, FlattenLayout DEF F
<1>6. PICK o : IsLayout(o, T, n, F)
  BY <1>5
<1>7. IsCell(Number(n)) /\ IsCell(b.reward) /\ IsCell(b.prev) /\ IsCell(b.hash)
  BY <1>1, CellKinds DEF IsBlk
<1>8. IsFile(a) /\ Len(a) = 4
  <2> HIDE DEF n
  <2>1. QED
    BY <1>7, FewCells
<1>9. a[1] = Number(n) /\ a[2] = b.reward /\ a[3] = b.prev /\ a[4] = b.hash
  OBVIOUS
<1> HIDE DEF a
<1>10. /\ IsFile(w) /\ Len(w) = 4 + Len(F)
       /\ HoldsAt(w, 0, a) /\ HoldsAt(w, 4, F)
  BY <1>5, <1>8, HoldsTwo
<1>11. w = BlockWrite(b)
  BY DEF BlockWrite, a, F, T, TxnTexts
<1> HIDE DEF w
<1>12. Len(w) \in Nat /\ Len(F) \in Nat
  BY <1>5, <1>10, CellsAreNumbers
<1>13. HasHeader(w, b)
  <2>1. \A i \in 1 .. 4 : w[0 + i] = a[i]
    BY <1>8, <1>10 DEF HoldsAt
  <2>2. w[1] = a[1] /\ w[2] = a[2] /\ w[3] = a[3] /\ w[4] = a[4]
    BY <2>1
  <2>3. QED
    BY <1>9, <2>2 DEF HasHeader
<1> DEFINE off == [i \in 0 .. n |-> 4 + o[i]]
<1>14. off \in [0 .. n -> Nat] /\ off[0] = 4 /\ off[n] = Len(w)
  BY <1>1, <1>6, <1>10 DEF IsLayout
<1>15. ASSUME NEW i \in 1 .. n
       PROVE  /\ off[i] = off[i - 1] + TxnSize(b.txs[i])
              /\ HoldsAt(w, off[i - 1], TxnWrite(b.txs[i]))
  <2>1. i \in 0 .. n /\ i - 1 \in 0 .. n
    BY <1>1
  <2>2. off[i] = 4 + o[i] /\ off[i - 1] = 4 + o[i - 1]
    BY <2>1
  <2>3. o[i] = o[i - 1] + Len(T[i]) /\ HoldsAt(F, o[i - 1], T[i]) /\ o[i - 1] \in Nat
    BY <1>6, <2>1 DEF IsLayout
  <2>4. HoldsAt(w, 4 + o[i - 1], T[i])
    BY <1>3, <1>5, <1>10, <1>12, <2>3, HoldsInside
  <2>5. Len(T[i]) = TxnSize(b.txs[i]) /\ T[i] = TxnWrite(b.txs[i]) /\ TxnSize(b.txs[i]) \in Nat
    BY <1>3
  <2>6. HoldsAt(w, off[i - 1], TxnWrite(b.txs[i]))
    BY <2>2, <2>4, <2>5
  <2> HIDE DEF off
  <2>7. off[i] = off[i - 1] + TxnSize(b.txs[i])
    BY <2>2, <2>3, <2>5
  <2>8. QED
    BY <2>6, <2>7
<1> HIDE DEF off
<1>16. IsBlockLayout(off, w, b)
  BY <1>14, <1>15 DEF IsBlockLayout, n
<1>17. Len(w) = BlockSize(b) /\ BlockSize(b) \in Nat /\ BlockSize(b) >= 4
  <2> DEFINE s == [i \in 1 .. n |-> TxnSize(b.txs[i])]
  <2>1. \A i \in 1 .. n : s[i] \in Nat /\ Len(T[i]) = s[i]
    BY <1>3
  <2>2. s = [j \in 1 .. n |-> s[j]]
    OBVIOUS
  <2>3. BlockSize(b) = 4 + SumFunction(s)
    BY <1>1 DEF BlockSize, HeaderSize
  <2> HIDE DEF s
  <2>4. \A i \in 0 .. n : o[i] = SumFunction([j \in 1 .. i |-> s[j]])
    BY <1>1, <1>6, <2>1, LayoutSums
  <2>5. o[n] = SumFunction(s)
    <3>1. n \in 0 .. n
      BY <1>1
    <3> HIDE DEF n
    <3>2. o[n] = SumFunction([j \in 1 .. n |-> s[j]])
      BY <2>4, <3>1
    <3>3. QED
      BY <2>2, <3>2
  <2>6. o[n] = Len(F)
    BY <1>6 DEF IsLayout
  <2>7. QED
    BY <1>10, <1>12, <2>3, <2>5, <2>6
<1>18. QED
  BY <1>10, <1>11, <1>13, <1>16, <1>17

\* The offset behind w is no further than last.
LEMMA TxnReadBack ==
    ASSUME NEW f, IsFile(f), NEW t, IsTxn(t), Writable(t), NEW how, NEW last,
           Reads(how, f, last), NEW p, HoldsAt(f, p, TxnWrite(t)),
           p + TxnSize(t) <= last
    PROVE  TxnRead(how, f, p, last) = [ok |-> TRUE, txn |-> t, next |-> p + TxnSize(t)]
<1> DEFINE w == TxnWrite(t)
           n == Len(t.key)
           m == Len(t.signature)
<1> HIDE DEF w
<1>1. /\ IsFile(w) /\ n \in Nat /\ m \in Nat
      /\ Len(w) = TxnSize(t)
      /\ TxnSize(t) = 7 + n + m
      /\ w[1] = Number(n) /\ w[2] = Number(m) /\ w[3] = t.amount
      /\ HoldsAt(w, 3, t.key)
      /\ w[n + 4] = t.source /\ w[n + 5] = t.dest
      /\ w[n + 6] = t.change /\ w[n + 7] = t.hash
      /\ HoldsAt(w, n + 7, t.signature)
  BY TxnWritten DEF w
<1>2. n \in 1 .. MaxSize - 1 /\ m \in 1 .. MaxSize - 1
  BY DEF Writable
<1>3. IsFile(t.key) /\ IsFile(t.signature)
  BY DEF IsTxn
<1>4. HoldsAt(f, p, w) /\ Len(f) \in Nat /\ p \in Nat
  BY CellsAreNumbers DEF w, HoldsAt
<1>5. HoldsAt(f, p + 3, t.key) /\ HoldsAt(f, p + (n + 7), t.signature)
  <2> HIDE DEF n
  <2>1. QED
    BY <1>1, <1>3, <1>4, HoldsInside
<1> HIDE DEF n, m
<1>6. \A i \in 1 .. 7 + n + m : f[p + i] = w[i]
  BY <1>1, <1>4 DEF HoldsAt
<1>7. f[p + 1] = Number(n) /\ f[p + 2] = Number(m) /\ f[p + 3] = t.amount
  BY <1>1, <1>6
<1>8. /\ f[p + 3 + n + 1] = t.source /\ f[p + 3 + n + 2] = t.dest
      /\ f[p + 3 + n + 3] = t.change /\ f[p + 3 + n + 4] = t.hash
  <2>1. /\ n + 4 \in 1 .. 7 + n + m /\ n + 5 \in 1 .. 7 + n + m
        /\ n + 6 \in 1 .. 7 + n + m /\ n + 7 \in 1 .. 7 + n + m
    BY <1>1
  <2>2. /\ p + 3 + n + 1 = p + (n + 4) /\ p + 3 + n + 2 = p + (n + 5)
        /\ p + 3 + n + 3 = p + (n + 6) /\ p + 3 + n + 4 = p + (n + 7)
    BY <1>1, <1>4
  <2>3. QED
    BY <1>1, <1>6, <2>1, <2>2
<1>9. AsNumber(f[p + 1]) = n /\ AsNumber(f[p + 2]) = m
  BY <1>1, <1>7, CellKinds
<1> DEFINE q == p + 3 + n
           r == q + 4 + m
<1>10. SubSeq(f, p + 4, q) = t.key /\ SubSeq(f, q + 5, r) = t.signature
  <2>1. SubSeq(f, (p + 3) + 1, (p + 3) + Len(t.key)) = t.key
    BY <1>3, <1>5, HoldsSubSeq
  <2>2. SubSeq(f, (p + (n + 7)) + 1, (p + (n + 7)) + Len(t.signature)) = t.signature
    BY <1>3, <1>5, HoldsSubSeq
  <2>3. Len(t.key) = n /\ Len(t.signature) = m
    BY DEF n, m
  <2>4. /\ (p + 3) + 1 = p + 4 /\ (p + 3) + n = q
        /\ (p + (n + 7)) + 1 = q + 5 /\ (p + (n + 7)) + m = r
    <3>1. p \in Nat /\ n \in Nat /\ m \in Nat
      BY <1>1, <1>4
    <3>2. QED
      BY <3>1
  <2> HIDE DEF q, r
  <2>5. QED
    BY <2>1, <2>2, <2>3, <2>4
<1>11. TxnAt(f, p) = [ok |-> TRUE, txn |-> t, next |-> r]
  <2>1. TxnAt(f, p) =
           [ok |-> TRUE,
            txn |-> [key |-> SubSeq(f, p + 4, q), source |-> f[q + 1],
                     dest |-> f[q + 2], change |-> f[q + 3], amount |-> f[p + 3],
                     hash |-> f[q + 4], signature |-> SubSeq(f, q + 5, r)],
            next |-> r]
    BY <1>9 DEF TxnAt
  <2>2. t = [key |-> t.key, source |-> t.source, dest |-> t.dest, change |-> t.change,
             amount |-> t.amount, hash |-> t.hash, signature |-> t.signature]
    BY DEF IsTxn
  <2>3. /\ f[q + 1] = t.source /\ f[q + 2] = t.dest /\ f[q + 3] = t.change
        /\ f[q + 4] = t.hash /\ f[p + 3] = t.amount
    BY <1>7, <1>8
  <2> HIDE DEF q, r
  <2>4. QED
    BY <1>10, <2>1, <2>2, <2>3
<1>12. r = p + TxnSize(t)
  BY <1>1, <1>4
<1> HIDE DEF q, r
<1>13. SaneSizes(f, p)
  BY <1>2, <1>9, FormatAssumption DEF SaneSizes
<1>14. TxnEnd(f, p) = p + TxnSize(t)
  BY <1>1, <1>4, <1>9 DEF TxnEnd
<1>15. p + 3 <= last /\ last <= Len(f) /\ last \in Nat /\ (how = "stream" => last = Len(f))
       /\ how \in {"stream", "buffer"} /\ p + TxnSize(t) \in Nat
  BY <1>1, <1>4 DEF Reads
<1>16. CASE how = "stream"
  <2>1. ~(p + 3 > Len(f)) /\ ~(TxnEnd(f, p) > Len(f))
    BY <1>4, <1>14, <1>15, <1>16
  <2>2. TxnReadStream(f, p) = TxnAt(f, p)
    BY <1>13, <2>1 DEF TxnReadStream
  <2>3. QED
    BY <1>11, <1>12, <1>16, <2>2 DEF TxnRead
<1>17. CASE how = "buffer"
  <2>1. TxnReadBuffer(f, p, last) = TxnAt(f, p)
    BY <1>13, <1>14, <1>15 DEF TxnReadBuffer
  <2>2. QED
    BY <1>11, <1>12, <1>17, <2>1 DEF TxnRead
<1>18. QED
  BY <1>15, <1>16, <1>17

\* The first i elements of a sequence.
Prefix(s, i) == [j \in 1 .. i |-> s[j]]

LEMMA AppendElements ==
    ASSUME NEW S, NEW x \in Seq(S), NEW e \in S
    PROVE  /\ DOMAIN Append(x, e) = 1 .. Len(x) + 1
           /\ Append(x, e) \in Seq(S)
           /\ \A j \in 1 .. Len(x) : Append(x, e)[j] = x[j]
           /\ Append(x, e)[Len(x) + 1] = e
  OBVIOUS

LEMMA PrefixAppend ==
    ASSUME NEW i \in Nat, NEW s
    PROVE  /\ Prefix(s, 0) = <<>>
           /\ Append(Prefix(s, i), s[i + 1]) = Prefix(s, i + 1)
<1>1. Prefix(s, 0) = <<>>
  BY DEF Prefix
<1> DEFINE e == s[i + 1]
           x == Prefix(s, i)
           A == Append(x, e)
           S == {s[j] : j \in 1 .. i + 1}
<1>2. x \in Seq(S) /\ Len(x) = i /\ e \in S
  BY DEF Prefix
<1>3. \A j \in 1 .. i : x[j] = s[j]
  BY DEF Prefix
<1>4. /\ DOMAIN A = 1 .. i + 1 /\ A \in Seq(S)
      /\ \A j \in 1 .. i : A[j] = x[j]
      /\ A[i + 1] = e
  <2> HIDE DEF e, S, x
  <2>1. QED
    BY <1>2, AppendElements
<1> HIDE DEF A, x
<1>5. \A j \in 1 .. i + 1 : A[j] = s[j]
  BY <1>3, <1>4
<1>6. A = [j \in 1 .. i + 1 |-> s[j]]
  BY <1>4, <1>5
<1>7. QED
  BY <1>1, <1>6 DEF Prefix, A, x, e

LEMMA TxnsReadBack ==
    ASSUME NEW f, IsFile(f), NEW b, IsBlk(b), NEW how, NEW last, Reads(how, f, last),
           NEW p, HoldsAt(f, p, BlockWrite(b)), p + BlockSize(b) <= last
    PROVE  TxnsAt(how, f, p + 4, last, Len(b.txs)) =
              [ok |-> TRUE, txs |-> b.txs, next |-> p + BlockSize(b)]
<1> DEFINE w == BlockWrite(b)
           n == Len(b.txs)
           a == [ok |-> TRUE, txs |-> <<>>, next |-> p + 4]
           V == TxnStates(f)
           e == TxnsAt(how, f, p + 4, last, n)
<1>1. n \in Nat /\ b.txs = Prefix(b.txs, n)
  BY FormatAssumption DEF IsBlk, IsTuple, Prefix
<1>2. /\ IsFile(w) /\ Len(w) = BlockSize(b) /\ BlockSize(b) \in Nat
      /\ \E off : IsBlockLayout(off, w, b)
  BY BlockWritten
<1>3. PICK off : IsBlockLayout(off, w, b)
  BY <1>2
<1>4. /\ off \in [0 .. n -> Nat] /\ off[0] = 4 /\ off[n] = BlockSize(b)
      /\ \A i \in 1 .. n : /\ off[i] = off[i - 1] + TxnSize(b.txs[i])
                           /\ HoldsAt(w, off[i - 1], TxnWrite(b.txs[i]))
  BY <1>2, <1>3 DEF IsBlockLayout
<1>5. p \in Nat /\ Len(f) \in Nat /\ HoldsAt(f, p, w) /\ last \in Nat /\ last <= Len(f)
  BY CellsAreNumbers DEF HoldsAt, Reads
<1> HIDE DEF w
<1>6. a \in V
  BY <1>5 DEF TxnStates
<1>7. \A acc \in V : AddTxn(how, f, last, acc) \in V
  BY AddTxnStep
<1> HIDE DEF V, n
<1>8. PICK g \in [0 .. n -> V] : IsTxnLoop(how, f, last, g, n, a, e)
  <2> HIDE DEF a
  <2>1. p + 4 \in Nat
    BY <1>5
  <2>2. a = [ok |-> TRUE, txs |-> <<>>, next |-> p + 4]
    BY DEF a
  <2>3. QED
    BY <1>1, <1>6, <1>7, <2>2, TxnLoop
<1> DEFINE At(i) == [ok |-> TRUE, txs |-> Prefix(b.txs, i), next |-> p + off[i]]
           T == {i \in 0 .. n : p + off[i] <= last => g[i] = At(i)}
<1>9. 0 \in T
  <2>1. 0 \in 0 .. n /\ g[0] = a
    BY <1>1, <1>8 DEF IsTxnLoop
  <2>2. At(0) = a
    BY <1>4, PrefixAppend
  <2>3. QED
    BY <2>1, <2>2
<1>10. ASSUME NEW i \in 0 .. n - 1, i \in T PROVE i + 1 \in T
  <2>1. i + 1 \in 1 .. n /\ (i + 1) - 1 = i /\ i + 1 \in 0 .. n /\ i \in 0 .. n /\ i \in Nat
    BY <1>1
  <2>2. off[i + 1] = off[i] + TxnSize(b.txs[i + 1]) /\ HoldsAt(w, off[i], TxnWrite(b.txs[i + 1]))
    <3>1. /\ off[i + 1] = off[(i + 1) - 1] + TxnSize(b.txs[i + 1])
          /\ HoldsAt(w, off[(i + 1) - 1], TxnWrite(b.txs[i + 1]))
      BY <1>4, <2>1
    <3>2. QED
      BY <2>1, <3>1
  <2> DEFINE t == b.txs[i + 1]
  <2>3. IsTxn(t) /\ Writable(t)
    BY <2>1 DEF IsBlk, n
  <2> HIDE DEF t
  <2>4. IsFile(TxnWrite(t)) /\ Len(TxnWrite(t)) = TxnSize(t) /\ TxnSize(t) \in Nat
    BY <2>3, TxnWritten, CellsAreNumbers
  <2>5. off[i] \in Nat /\ off[i + 1] \in Nat
    BY <1>4, <2>1
  <2> SUFFICES ASSUME p + off[i + 1] <= last PROVE g[i + 1] = At(i + 1)
    BY <2>1
  <2>6. p + off[i] <= last
    BY <1>5, <2>2, <2>4, <2>5 DEF t
  <2>7. g[i] = At(i)
    BY <1>10, <2>6
  <2>8. HoldsAt(f, p + off[i], TxnWrite(t))
    BY <1>2, <1>5, <2>2, <2>4, HoldsInside DEF t
  <2>9. p + off[i] + TxnSize(t) = p + off[i + 1]
    BY <1>5, <2>2, <2>4, <2>5 DEF t
  <2>10. TxnRead(how, f, p + off[i], last) = [ok |-> TRUE, txn |-> t, next |-> p + off[i + 1]]
    <3> DEFINE q == p + off[i]
    <3>1. q + TxnSize(t) <= last /\ HoldsAt(f, q, TxnWrite(t))
      BY <2>8, <2>9
    <3>2. q + TxnSize(t) = p + off[i + 1]
      BY <2>9
    <3> HIDE DEF q
    <3>3. TxnRead(how, f, q, last) = [ok |-> TRUE, txn |-> t, next |-> q + TxnSize(t)]
      BY <2>3, <3>1, TxnReadBack
    <3>4. QED
      BY <3>2, <3>3 DEF q
  <2>11. g[i + 1] = AddTxn(how, f, last, g[i])
    <3>1. g[i + 1] = AddTxn(how, f, last, g[(i + 1) - 1])
      BY <1>8, <2>1 DEF IsTxnLoop
    <3>2. QED
      BY <2>1, <3>1
  <2>12. AddTxn(how, f, last, At(i)) =
            [ok |-> TRUE, txs |-> Append(Prefix(b.txs, i), t), next |-> p + off[i + 1]]
    <3>1. /\ At(i).next = p + off[i] /\ At(i).ok = TRUE
          /\ At(i).txs = Prefix(b.txs, i)
      OBVIOUS
    <3>2. TxnRead(how, f, At(i).next, last) =
             [ok |-> TRUE, txn |-> t, next |-> p + off[i + 1]]
      BY <2>10, <3>1
    <3> DEFINE z == TxnRead(how, f, At(i).next, last)
    <3>3. z.ok = TRUE /\ z.txn = t /\ z.next = p + off[i + 1]
      BY <3>2
    <3> HIDE DEF At, z
    <3>4. AddTxn(how, f, last, At(i)) =
             [ok |-> TRUE, txs |-> Append(At(i).txs, z.txn), next |-> z.next]
      BY <3>1, <3>3 DEF AddTxn, z
    <3>5. QED
      BY <3>1, <3>3, <3>4
  <2>13. Append(Prefix(b.txs, i), t) = Prefix(b.txs, i + 1)
    BY <2>1, PrefixAppend DEF t
  <2>14. QED
    BY <2>7, <2>11, <2>12, <2>13
<1> HIDE DEF T
<1>11. 0 .. n \subseteq T
  BY <1>1, <1>9, <1>10, PrefixInduction
<1>12. n \in T /\ p + off[n] <= last
  BY <1>1, <1>4, <1>11
<1>13. g[n] = At(n)
  BY <1>12 DEF T
<1>14. e = g[n]
  BY <1>8 DEF IsTxnLoop
<1>15. At(n) = [ok |-> TRUE, txs |-> b.txs, next |-> p + BlockSize(b)]
  BY <1>1, <1>4
<1>16. QED
  BY <1>13, <1>14, <1>15 DEF n

LEMMA BlockReadBack ==
    ASSUME NEW f, IsFile(f), NEW b, IsBlk(b), NEW how, NEW last, Reads(how, f, last),
           NEW p, HoldsAt(f, p, BlockWrite(b)), p + BlockSize(b) <= last
    PROVE  BlockRead(how, f, p, last) = [ok |-> TRUE, next |-> p + BlockSize(b), blk |-> b]
<1> DEFINE w == BlockWrite(b)
           n == Len(b.txs)
           t == TxnsAt(how, f, p + 4, last, n)
<1>1. n \in 0 .. MAX_TRANSACTIONS /\ n \in Nat
  BY FormatAssumption DEF IsBlk
<1>2. /\ IsFile(w) /\ Len(w) = BlockSize(b) /\ BlockSize(b) \in Nat /\ BlockSize(b) >= 4
      /\ HasHeader(w, b)
  BY BlockWritten
<1>3. p \in Nat /\ Len(f) \in Nat /\ last \in Nat /\ last <= Len(f)
      /\ how \in {"stream", "buffer"} /\ (how = "stream" => last = Len(f))
  BY CellsAreNumbers DEF HoldsAt, Reads
<1>4. t = [ok |-> TRUE, txs |-> b.txs, next |-> p + BlockSize(b)]
  BY TxnsReadBack
<1> HIDE DEF w, n, t
<1>5. f[p + 1] = Number(n) /\ f[p + 2] = b.reward /\ f[p + 3] = b.prev /\ f[p + 4] = b.hash
  <2>1. \A i \in 1 .. 4 : f[p + i] = w[i]
    BY <1>2 DEF HoldsAt, w
  <2>2. f[p + 1] = w[1] /\ f[p + 2] = w[2] /\ f[p + 3] = w[3] /\ f[p + 4] = w[4]
    BY <2>1
  <2>3. QED
    BY <1>2, <2>2 DEF HasHeader, n
<1>6. AsNumber(f[p + 1]) = n
  BY <1>1, <1>5, CellKinds
<1>7. p + 4 <= last
  BY <1>2, <1>3
<1>8. BlockAt(f, p, b.txs) = b
  <2>1. BlockAt(f, p, b.txs) = [reward |-> b.reward, prev |-> b.prev, hash |-> b.hash, txs |-> b.txs]
    BY <1>5 DEF BlockAt
  <2>2. b = [reward |-> b.reward, prev |-> b.prev, hash |-> b.hash, txs |-> b.txs]
    BY DEF IsBlk
  <2>3. QED
    BY <2>1, <2>2
<1>9. [ok |-> t.ok, next |-> t.next, blk |-> BlockAt(f, p, t.txs)] =
         [ok |-> TRUE, next |-> p + BlockSize(b), blk |-> b]
  BY <1>4, <1>8
<1>10. CASE how = "stream"
  <2>1. ~(p + HeaderSize > Len(f)) /\ AsNumber(f[p + 1]) \in 0 .. MAX_TRANSACTIONS
    BY <1>1, <1>3, <1>6, <1>7, <1>10 DEF HeaderSize
  <2>2. TxnsAt("stream", f, p + HeaderSize, Len(f), AsNumber(f[p + 1])) = t
    BY <1>3, <1>6, <1>10 DEF HeaderSize, t
  <2>3. BlockReadStream(f, p) = [ok |-> t.ok, next |-> t.next, blk |-> BlockAt(f, p, t.txs)]
    BY <2>1, <2>2 DEF BlockReadStream
  <2>4. QED
    BY <1>9, <1>10, <2>3 DEF BlockRead
<1>11. CASE how = "buffer"
  <2>1. ~(p + HeaderSize > last) /\ ~(AsNumber(f[p + 1]) < 0)
    BY <1>1, <1>3, <1>6, <1>7 DEF HeaderSize
  <2>2. TxnsAt("buffer", f, p + HeaderSize, last, AsNumber(f[p + 1])) = t
    BY <1>6, <1>11 DEF HeaderSize, t
  <2>3. BlockReadBuffer(f, p, last) = [ok |-> t.ok, next |-> t.next, blk |-> BlockAt(f, p, t.txs)]
    BY <2>1, <2>2 DEF BlockReadBuffer
  <2>4. QED
    BY <1>9, <1>11, <2>3 DEF BlockRead
<1>12. QED
  BY <1>3, <1>10, <1>11

\* The n blocks bs lie in f one behind another, from offset p to offset last.
AreBlocks(bs, n) == n \in Nat /\ IsTuple(bs, n) /\ \A i \in 1 .. n : IsBlk(bs[i])

AreAt(off, bs, n, f, p, last) ==
    /\ off \in [0 .. n -> Nat]
    /\ off[0] = p
    /\ off[n] = last
    /\ \A i \in 1 .. n : /\ off[i] = off[i - 1] + BlockSize(bs[i])
                         /\ HoldsAt(f, off[i - 1], BlockWrite(bs[i]))

LEMMA BlocksLeave ==
    ASSUME NEW bs, NEW n, AreBlocks(bs, n), NEW f, NEW p, NEW last, NEW off,
           AreAt(off, bs, n, f, p, last)
    PROVE  \A i \in 0 .. n : off[i] + (n - i) <= last
<1> DEFINE T == {i \in 0 .. n : off[n - i] + i <= last}
<1>1. n \in Nat /\ off \in [0 .. n -> Nat] /\ off[n] = last
  BY DEF AreBlocks, AreAt
<1>2. 0 \in T
  BY <1>1
<1>3. ASSUME NEW i \in 0 .. n - 1, i \in T PROVE i + 1 \in T
  <2>1. n - i \in 1 .. n /\ n - (i + 1) = (n - i) - 1 /\ i + 1 \in 0 .. n
        /\ n - (i + 1) \in 0 .. n
    BY <1>1
  <2>2. off[n - i] = off[(n - i) - 1] + BlockSize(bs[n - i])
    BY <2>1 DEF AreAt
  <2>3. BlockSize(bs[n - i]) \in Nat /\ BlockSize(bs[n - i]) >= 4
    BY <2>1, BlockWritten DEF AreBlocks
  <2>4. off[n - (i + 1)] \in Nat /\ off[n - i] \in Nat
    BY <1>1, <2>1
  <2>5. off[n - (i + 1)] + (i + 1) <= last
    BY <1>1, <1>3, <2>1, <2>2, <2>3, <2>4
  <2>6. QED
    BY <2>1, <2>5
<1> HIDE DEF T
<1>4. 0 .. n \subseteq T
  BY <1>1, <1>2, <1>3, PrefixInduction
<1>5. ASSUME NEW i \in 0 .. n PROVE off[i] + (n - i) <= last
  <2>1. n - i \in 0 .. n /\ n - (n - i) = i
    BY <1>1
  <2>2. off[n - (n - i)] + (n - i) <= last
    BY <1>4, <2>1 DEF T
  <2>3. QED
    BY <2>1, <2>2
<1>6. QED
  BY <1>5

LEMMA BlocksReadBack ==
    ASSUME NEW f, IsFile(f), NEW bs, NEW n, AreBlocks(bs, n), NEW how, NEW last,
           Reads(how, f, last), NEW p, NEW off, AreAt(off, bs, n, f, p, last)
    PROVE  BlocksAt(how, f, p, last) = bs
<1> DEFINE a == [blocks |-> <<>>, next |-> p, ended |-> FALSE]
           V == BlockStates(f)
           e == BlocksAt(how, f, p, last)
           N == last - p
<1>1. /\ n \in Nat /\ bs = Prefix(bs, n)
      /\ off \in [0 .. n -> Nat] /\ off[0] = p /\ off[n] = last
  BY DEF AreBlocks, AreAt, IsTuple, Prefix
<1>2. \A i \in 0 .. n : off[i] + (n - i) <= last
  BY BlocksLeave
<1>3. p \in Nat /\ last \in Nat /\ N \in Nat /\ n <= N
  BY <1>1, <1>2
<1>4. a \in V
  BY <1>3 DEF BlockStates
<1>5. \A acc \in V : AddBlock(how, f, last, acc) \in V
  BY AddBlockStep
<1> HIDE DEF V, N
<1>6. PICK g \in [0 .. N -> V] : IsBlockLoop(how, f, last, g, N, a, e)
  <2> HIDE DEF a
  <2>1. a = [blocks |-> <<>>, next |-> p, ended |-> FALSE] /\ N = last - p
    BY DEF a, N
  <2>2. QED
    BY <1>3, <1>4, <1>5, <2>1, BlockLoop
<1> DEFINE At(i) == [blocks |-> Prefix(bs, i), next |-> off[i], ended |-> FALSE]
           T == {i \in 0 .. N : g[i] = At(IF i <= n THEN i ELSE n)}
<1>7. 0 \in T
  <2>1. 0 \in 0 .. N /\ g[0] = a
    BY <1>3, <1>6 DEF IsBlockLoop
  <2>2. At(0) = a
    BY <1>1, PrefixAppend
  <2>3. 0 <= n
    BY <1>1
  <2>4. QED
    BY <2>1, <2>2, <2>3
<1>8. ASSUME NEW i \in 0 .. N - 1, i \in T PROVE i + 1 \in T
  <2>1. i + 1 \in 1 .. N /\ (i + 1) - 1 = i /\ i + 1 \in 0 .. N /\ i \in 0 .. N /\ i \in Nat
    BY <1>3
  <2>2. g[i + 1] = AddBlock(how, f, last, g[i])
    <3>1. g[i + 1] = AddBlock(how, f, last, g[(i + 1) - 1])
      BY <1>6, <2>1 DEF IsBlockLoop
    <3>2. QED
      BY <2>1, <3>1
  <2>3. CASE i >= n
    <3>1. g[i] = At(n)
      BY <1>1, <1>8, <2>1, <2>3
    <3>2. At(n).next = last
      BY <1>1
    <3> HIDE DEF At
    <3>3. AddBlock(how, f, last, At(n)) = At(n)
      BY <1>3, <3>2 DEF AddBlock
    <3>4. ~(i + 1 <= n)
      BY <1>1, <2>1, <2>3
    <3>5. QED
      BY <2>1, <2>2, <3>1, <3>3, <3>4
  <2>4. CASE ~(i >= n)
    <3>1. i + 1 \in 1 .. n /\ i \in 0 .. n /\ i + 1 \in 0 .. n
      BY <1>1, <2>1, <2>4
    <3> DEFINE b == bs[i + 1]
    <3>2. IsBlk(b)
      BY <3>1 DEF AreBlocks
    <3>3. off[i + 1] = off[i] + BlockSize(b) /\ HoldsAt(f, off[i], BlockWrite(b))
      <4>1. /\ off[i + 1] = off[(i + 1) - 1] + BlockSize(bs[i + 1])
            /\ HoldsAt(f, off[(i + 1) - 1], BlockWrite(bs[i + 1]))
        BY <3>1 DEF AreAt
      <4>2. QED
        BY <2>1, <4>1
    <3> HIDE DEF b
    <3>4. off[i] \in Nat /\ off[i + 1] \in Nat /\ off[i] < last /\ off[i + 1] <= last
      <4>1. off[i] \in Nat /\ off[i + 1] \in Nat
        BY <1>1, <3>1
      <4>2. off[i] + (n - i) <= last /\ off[i + 1] + (n - (i + 1)) <= last
        BY <1>2, <3>1
      <4>3. QED
        BY <1>1, <1>3, <3>1, <4>1, <4>2
    <3>5. BlockRead(how, f, off[i], last) = [ok |-> TRUE, next |-> off[i + 1], blk |-> b]
      <4> DEFINE q == off[i]
      <4>1. q + BlockSize(b) <= last /\ HoldsAt(f, q, BlockWrite(b))
            /\ q + BlockSize(b) = off[i + 1]
        BY <3>3, <3>4
      <4> HIDE DEF q
      <4>2. BlockRead(how, f, q, last) = [ok |-> TRUE, next |-> q + BlockSize(b), blk |-> b]
        BY <3>2, <4>1, BlockReadBack
      <4>3. QED
        BY <4>1, <4>2 DEF q
    <3>6. g[i] = At(i) /\ i + 1 <= n
      BY <1>8, <2>1, <3>1
    <3>7. AddBlock(how, f, last, At(i)) =
             [blocks |-> Append(Prefix(bs, i), b), next |-> off[i + 1], ended |-> FALSE]
      <4>1. /\ At(i).next = off[i] /\ At(i).ended = FALSE
            /\ At(i).blocks = Prefix(bs, i)
        OBVIOUS
      <4> DEFINE z == BlockRead(how, f, At(i).next, last)
      <4>2. z.ok = TRUE /\ z.blk = b /\ z.next = off[i + 1]
        BY <3>5, <4>1
      <4>3. ~(At(i).ended \/ At(i).next >= last)
        BY <1>3, <3>4, <4>1
      <4> HIDE DEF At, z
      <4>4. AddBlock(how, f, last, At(i)) =
               [blocks |-> Append(At(i).blocks, z.blk), next |-> z.next, ended |-> FALSE]
        BY <4>2, <4>3 DEF AddBlock, z
      <4>5. QED
        BY <4>1, <4>2, <4>4
    <3>8. Append(Prefix(bs, i), b) = Prefix(bs, i + 1)
      BY <2>1, PrefixAppend DEF b
    <3>9. g[i + 1] = At(i + 1)
      BY <2>2, <3>6, <3>7, <3>8
    <3>10. QED
      BY <2>1, <3>6, <3>9
  <2>5. QED
    BY <2>3, <2>4
<1> HIDE DEF T
<1>9. 0 .. N \subseteq T
  BY <1>3, <1>7, <1>8, PrefixInduction
<1>10. N \in 0 .. N /\ N \in T
  BY <1>3, <1>9
<1>11. g[N] = At(n)
  <2>1. g[N] = At(IF N <= n THEN N ELSE n)
    BY <1>10 DEF T
  <2>2. (IF N <= n THEN N ELSE n) = n
    BY <1>1, <1>3
  <2> HIDE DEF At
  <2>3. QED
    BY <2>1, <2>2
<1>12. At(n).blocks = bs
  BY <1>1
<1>13. e = g[N].blocks
  BY <1>6 DEF IsBlockLoop
<1>14. QED
  BY <1>11, <1>12, <1>13

\* The blocks of a file written one after another.
BlockTexts(bs) == [i \in DOMAIN bs |-> BlockWrite(bs[i])]

LEMMA BlocksWritten ==
    ASSUME NEW bs, NEW n, AreBlocks(bs, n)
    PROVE  LET w == FlattenSeq(BlockTexts(bs))
           IN  /\ IsFile(w)
               /\ Len(w) = SumFunction([i \in DOMAIN bs |-> BlockSize(bs[i])])
               /\ \E off : AreAt(off, bs, n, w, 0, Len(w))
<1> DEFINE T == BlockTexts(bs)
           w == FlattenSeq(T)
           s == [i \in 1 .. n |-> BlockSize(bs[i])]
<1>1. n \in Nat /\ DOMAIN bs = 1 .. n
  BY DEF AreBlocks, IsTuple
<1>2. IsTuple(T, n)
  BY <1>1 DEF BlockTexts, IsTuple
<1>3. ASSUME NEW i \in 1 .. n
      PROVE  /\ T[i] = BlockWrite(bs[i]) /\ IsFile(T[i])
             /\ Len(T[i]) = s[i] /\ s[i] \in Nat /\ s[i] = BlockSize(bs[i])
  <2>1. T[i] = BlockWrite(bs[i])
    BY <1>1 DEF BlockTexts
  <2>2. /\ IsFile(BlockWrite(bs[i])) /\ BlockSize(bs[i]) \in Nat
        /\ Len(BlockWrite(bs[i])) = BlockSize(bs[i])
    BY BlockWritten DEF AreBlocks
  <2>3. QED
    BY <2>1, <2>2
<1>4. s = [j \in 1 .. n |-> s[j]] /\ s = [i \in DOMAIN bs |-> BlockSize(bs[i])]
  BY <1>1
<1> HIDE DEF T, w, s
<1>5. AllFiles(T, 1 .. n)
  BY <1>3 DEF AllFiles
<1>6. IsFile(w) /\ \E off : IsLayout(off, T, n, w)
  BY <1>1, <1>2, <1>5, FlattenLayout DEF w
<1>7. PICK off : IsLayout(off, T, n, w)
  BY <1>6
<1>8. AreAt(off, bs, n, w, 0, Len(w))
  BY <1>3, <1>7 DEF IsLayout, AreAt
<1>9. Len(w) = SumFunction(s)
  <2>1. \A i \in 0 .. n : off[i] = SumFunction([j \in 1 .. i |-> s[j]])
    BY <1>1, <1>3, <1>7, LayoutSums
  <2>2. off[n] = SumFunction([j \in 1 .. n |-> s[j]]) /\ off[n] = Len(w)
    BY <1>1, <1>7, <2>1 DEF IsLayout
  <2>3. QED
    BY <1>4, <2>2
<1>10. QED
  BY <1>4, <1>6, <1>8, <1>9 DEF w, T

\* Whatever blocks are written, both readers find them, over the whole file
\* (block_t::write and the two versions of block_t::read and txn_t::read).
THEOREM WrittenBlocksAreRead ==
    ASSUME NEW bs, NEW n, AreBlocks(bs, n)
    PROVE  LET w == FlattenSeq(BlockTexts(bs))
           IN  StreamBlocks(w) = bs /\ BufferBlocks(w, 0, Len(w)) = bs
<1> DEFINE w == FlattenSeq(BlockTexts(bs))
<1>1. IsFile(w) /\ \E off : AreAt(off, bs, n, w, 0, Len(w))
  BY BlocksWritten
<1> HIDE DEF w
<1>2. PICK off : AreAt(off, bs, n, w, 0, Len(w))
  BY <1>1
<1>3. Reads("stream", w, Len(w)) /\ Reads("buffer", w, Len(w))
  BY <1>1, CellsAreNumbers DEF Reads
<1>4. BlocksAt("stream", w, 0, Len(w)) = bs /\ BlocksAt("buffer", w, 0, Len(w)) = bs
  BY <1>1, <1>2, <1>3, BlocksReadBack
<1>5. QED
  BY <1>4 DEF StreamBlocks, BufferBlocks, w

-----------------------------------------------------------------------------
(* The blocks of this specification.                                        *)

LEMMA Addresses ==
    /\ \A x, y : Address(x) = Address(y) => x = y
    /\ \A x \in Addr : AddrOf(Address(x)) = x
<1>1. ASSUME NEW x, NEW y, Address(x) = Address(y) PROVE x = y
  <2>1. Address(x)[2][1][2] = x /\ Address(y)[2][1][2] = y
    BY DEF Address, sha256, PublicKey
  <2>2. QED
    BY <1>1, <2>1
<1>2. ASSUME NEW x \in Addr PROVE AddrOf(Address(x)) = x
  <2> DEFINE c == Address(x)
             y == CHOOSE a \in Addr : Address(a) = c
  <2>1. y \in Addr /\ Address(y) = c
    OBVIOUS
  <2>2. y = x
    BY <1>1, <2>1
  <2>3. AddrOf(c) = y
    BY DEF AddrOf
  <2>4. QED
    BY <2>2, <2>3
<1>3. QED
  BY <1>1, <1>2

LEMMA Keys ==
    ASSUME NEW x
    PROVE  /\ IsFile(PublicKey(x)) /\ Len(PublicKey(x)) = 1
           /\ IsPublicKey(PublicKey(x))
           /\ PublicKey(x)[1][2] = x
           /\ IsCell(Address(x))
           /\ \A d : IsFile(sign(x, d)) /\ Len(sign(x, d)) = 1
           /\ \A y, d : sign(x, d) = sign(y, d) => x = y
<1>1. IsFile(PublicKey(x)) /\ Len(PublicKey(x)) = 1
  BY CellKinds, FewCells DEF PublicKey
<1>2. IsPublicKey(PublicKey(x)) /\ PublicKey(x)[1][2] = x
  BY DEF IsPublicKey, PublicKey
<1>3. IsCell(Address(x))
  BY CellKinds DEF Address
<1>4. ASSUME NEW d PROVE IsFile(sign(x, d)) /\ Len(sign(x, d)) = 1
  BY CellKinds, FewCells DEF sign
<1>5. ASSUME NEW y, NEW d, sign(x, d) = sign(y, d) PROVE x = y
  <2>1. sign(x, d)[1][2] = x /\ sign(y, d)[1][2] = y
    BY DEF sign
  <2>2. QED
    BY <1>5, <2>1
<1>6. QED
  BY <1>1, <1>2, <1>3, <1>4, <1>5

LEMMA NewTxnFields ==
    ASSUME NEW o, NEW s, NEW d, NEW c, NEW a
    PROVE  LET h == sha256(PublicKey(o) \o <<s, d, c, a>>)
           IN  NewTxn(o, s, d, c, a) =
                  [key |-> PublicKey(o), source |-> s, dest |-> d, change |-> c,
                   amount |-> a, hash |-> h, signature |-> sign(o, h)]
<1> DEFINE h == sha256(PublicKey(o) \o <<s, d, c, a>>)
           tx == [EmptyTxn EXCEPT !.key = PublicKey(o), !.source = s,
                                  !.dest = d, !.change = c, !.amount = a]
<1>1. tx = [key |-> PublicKey(o), source |-> s, dest |-> d, change |-> c,
            amount |-> a, hash |-> ZeroHash, signature |-> <<>>]
  <2> DEFINE e0 == EmptyTxn
             e1 == [e0 EXCEPT !.key = PublicKey(o)]
             e2 == [e1 EXCEPT !.source = s]
             e3 == [e2 EXCEPT !.dest = d]
             e4 == [e3 EXCEPT !.change = c]
             e5 == [e4 EXCEPT !.amount = a]
  <2>0. tx = e5
    OBVIOUS
  <2> HIDE DEF e0, e1, e2, e3, e4, e5
  <2>1. e0 = [key |-> <<>>, source |-> ZeroHash, dest |-> ZeroHash, change |-> ZeroHash,
         amount |-> ZeroHash, hash |-> ZeroHash, signature |-> <<>>]
    BY DEF e0, EmptyTxn
  <2>2. e1 = [key |-> PublicKey(o), source |-> ZeroHash, dest |-> ZeroHash, change |-> ZeroHash,
         amount |-> ZeroHash, hash |-> ZeroHash, signature |-> <<>>]
    BY <2>1 DEF e1
  <2>3. e2 = [key |-> PublicKey(o), source |-> s, dest |-> ZeroHash, change |-> ZeroHash,
         amount |-> ZeroHash, hash |-> ZeroHash, signature |-> <<>>]
    BY <2>2 DEF e2
  <2>4. e3 = [key |-> PublicKey(o), source |-> s, dest |-> d, change |-> ZeroHash,
         amount |-> ZeroHash, hash |-> ZeroHash, signature |-> <<>>]
    BY <2>3 DEF e3
  <2>5. e4 = [key |-> PublicKey(o), source |-> s, dest |-> d, change |-> c,
         amount |-> ZeroHash, hash |-> ZeroHash, signature |-> <<>>]
    BY <2>4 DEF e4
  <2>6. e5 = [key |-> PublicKey(o), source |-> s, dest |-> d, change |-> c,
         amount |-> a, hash |-> ZeroHash, signature |-> <<>>]
    BY <2>5 DEF e5
  <2>7. QED
    BY <2>0, <2>6
<1>2. TxnHash(tx) = h
  BY <1>1 DEF TxnHash
<1>3. NewTxn(o, s, d, c, a) = [tx EXCEPT !.hash = TxnHash(tx), !.signature = sign(o, TxnHash(tx))]
  BY DEF NewTxn
<1> HIDE DEF tx, h
<1>4. [tx EXCEPT !.hash = h, !.signature = sign(o, h)] =
         [key |-> PublicKey(o), source |-> s, dest |-> d, change |-> c,
          amount |-> a, hash |-> h, signature |-> sign(o, h)]
  <2> DEFINE y == [tx EXCEPT !.hash = h]
  <2>1. [tx EXCEPT !.hash = h, !.signature = sign(o, h)] = [y EXCEPT !.signature = sign(o, h)]
    OBVIOUS
  <2>2. y = [key |-> PublicKey(o), source |-> s, dest |-> d, change |-> c,
             amount |-> a, hash |-> h, signature |-> <<>>]
    BY <1>1
  <2> HIDE DEF y
  <2>3. [y EXCEPT !.signature = sign(o, h)] =
           [key |-> PublicKey(o), source |-> s, dest |-> d, change |-> c,
            amount |-> a, hash |-> h, signature |-> sign(o, h)]
    BY <2>2
  <2>4. QED
    BY <2>1, <2>3
<1>5. QED
  BY <1>2, <1>3, <1>4 DEF h

\* The transaction of Ledger and the one in the file say the same.
LEMMA TxnOfTxn ==
    ASSUME NEW tx \in Txns
    PROVE  IsTxn(TxnOf(tx)) /\ Writable(TxnOf(tx)) /\ LedgerTxn(TxnOf(tx)) = tx
<1>1. /\ tx.source \in Addr /\ tx.dest \in Addr /\ tx.change \in Addr
      /\ tx.amount \in Nat /\ tx.signed \in BOOLEAN
      /\ tx = [source |-> tx.source, dest |-> tx.dest, change |-> tx.change,
               amount |-> tx.amount, signed |-> tx.signed]
  BY BlockAssumption
<1> DEFINE o == tx.source
           h == sha256(PublicKey(o) \o <<Address(tx.source), Address(tx.dest),
                                         Address(tx.change), Number(tx.amount)>>)
           g == IF tx.signed THEN sign(o, h) ELSE sign("other", h)
           t == TxnOf(tx)
           r == [key |-> PublicKey(o), source |-> Address(tx.source),
                 dest |-> Address(tx.dest), change |-> Address(tx.change),
                 amount |-> Number(tx.amount), hash |-> h, signature |-> g]
<1>2. t = r
  <2> DEFINE z == NewTxn(tx.source, Address(tx.source), Address(tx.dest),
                         Address(tx.change), Number(tx.amount))
  <2>1. z = [key |-> PublicKey(o), source |-> Address(tx.source),
             dest |-> Address(tx.dest), change |-> Address(tx.change),
             amount |-> Number(tx.amount), hash |-> h, signature |-> sign(o, h)]
    BY NewTxnFields
  <2>2. t = IF tx.signed THEN z ELSE [z EXCEPT !.signature = sign("other", z.hash)]
    BY DEF TxnOf
  <2> HIDE DEF z, h
  <2>3. QED
    BY <2>1, <2>2
<1>3. /\ t.key = PublicKey(o) /\ t.source = Address(o) /\ t.dest = Address(tx.dest)
      /\ t.change = Address(tx.change) /\ t.amount = Number(tx.amount)
      /\ t.hash = h /\ t.signature = g
      /\ t = [key |-> t.key, source |-> t.source, dest |-> t.dest, change |-> t.change,
              amount |-> t.amount, hash |-> t.hash, signature |-> t.signature]
  BY <1>2
<1>4. TxnHash(t) = h
  BY <1>3 DEF TxnHash
<1>5. IsCell(h)
  BY CellKinds
<1> HIDE DEF t, h, r
<1>6. IsFile(g) /\ Len(g) = 1
  BY Keys
<1> HIDE DEF g
<1>7. IsCell(Number(tx.amount)) /\ AsNumber(Number(tx.amount)) = tx.amount
  BY <1>1, CellKinds
<1>8. IsTxn(t)
  BY <1>3, <1>5, <1>6, <1>7, Keys DEF IsTxn
<1>9. Writable(t)
  <2>1. Len(t.key) = 1 /\ Len(t.signature) = 1
    BY <1>3, <1>6, Keys
  <2>2. 1 \in 1 .. MaxSize - 1
    BY BlockAssumption, FormatAssumption
  <2>3. QED
    BY <2>1, <2>2 DEF Writable
<1>10. Signed(t) <=> tx.signed
  <2>1. HashesMatch(t)
    BY <1>3, <1>4 DEF HashesMatch, Address
  <2>2. IsPublicKey(t.key) /\ t.key[1][2] = o
    BY <1>3, Keys
  <2>3. g = sign(o, h) <=> tx.signed
    <3>1. sign("other", h) # sign(o, h)
      <4>1. sign("other", h)[1][2] = "other" /\ sign(o, h)[1][2] = o
        BY DEF sign
      <4>2. QED
        BY <1>1, <4>1, BlockAssumption
    <3>2. QED
      BY <1>1, <3>1 DEF g
  <2>4. QED
    BY <1>3, <2>1, <2>2, <2>3 DEF Signed, verify
<1>11. LedgerTxn(t) = tx
  <2>1. LedgerTxn(t) =
           [source |-> AddrOf(t.source), dest |-> AddrOf(t.dest), change |-> AddrOf(t.change),
            amount |-> AsNumber(t.amount), signed |-> Signed(t)]
    BY DEF LedgerTxn
  <2>2. AddrOf(t.source) = tx.source /\ AddrOf(t.dest) = tx.dest /\ AddrOf(t.change) = tx.change
    BY <1>1, <1>3, Addresses
  <2>3. AsNumber(t.amount) = tx.amount
    BY <1>3, <1>7
  <2>4. Signed(t) = tx.signed
    <3>1. Signed(t) \in BOOLEAN
      BY DEF Signed, HashesMatch, IsPublicKey, verify
    <3>2. QED
      BY <1>1, <1>10, <3>1
  <2>5. QED
    BY <1>1, <2>1, <2>2, <2>3, <2>4
<1>12. QED
  BY <1>8, <1>9, <1>11 DEF t

LEMMA BlockFields ==
    ASSUME NEW b \in Block
    PROVE  /\ b = [hash |-> "block", prev |-> Zero, txs |-> b.txs, reward |-> b.reward,
                   hashed |-> b.hashed]
           /\ b.reward \in Addr /\ b.hashed \in BOOLEAN
           /\ \E n \in 0 .. MAX_TRANSACTIONS :
                 n \in Nat /\ Len(b.txs) = n /\ b.txs \in [1 .. n -> Txns]
<1>1. /\ b = [hash |-> "block", prev |-> Zero, txs |-> b.txs, reward |-> b.reward,
              hashed |-> b.hashed]
      /\ b.reward \in Addr /\ b.hashed \in BOOLEAN /\ b.txs \in SeqOf(Txns, MaxTxns)
  BY DEF Block
<1>2. PICK n \in 0 .. MaxTxns : b.txs \in [1 .. n -> Txns]
  BY <1>1 DEF SeqOf
<1>3. n \in 0 .. MAX_TRANSACTIONS /\ n \in Nat
  BY BlockAssumption, FormatAssumption
<1>4. Len(b.txs) = n
  BY <1>2, <1>3
<1>5. QED
  BY <1>1, <1>2, <1>3, <1>4

\* The hash of a block says what it contains.
LEMMA BlockHashes ==
    ASSUME NEW c, NEW n \in Nat, DOMAIN c.txs = 1 .. n
    PROVE  compute_block_hash(c) # sha256(<<>>) /\ IsCell(compute_block_hash(c))
<1> DEFINE s == [i \in DOMAIN c.txs |-> c.txs[i].hash]
           r == <<c.reward, c.prev>>
<1>1. \E S : s \in Seq(S) /\ r \in Seq(S)
  <2> DEFINE S == {c.txs[i].hash : i \in 1 .. n} \cup {c.reward, c.prev}
  <2>1. s \in Seq(S) /\ r \in Seq(S)
    OBVIOUS
  <2> HIDE DEF S, s, r
  <2>2. QED
    BY <2>1
<1>2. Len(r) = 2 /\ Len(s) = n
  OBVIOUS
<1>3. compute_block_hash(c) = sha256(s \o r)
  BY DEF compute_block_hash
<1> HIDE DEF s, r
<1>4. Len(s \o r) = n + 2
  <2>1. PICK S : s \in Seq(S) /\ r \in Seq(S)
    BY <1>1
  <2>2. Len(s \o r) = Len(s) + Len(r)
    BY <2>1, ConcatSeq
  <2>3. QED
    BY <1>2, <2>2
<1>5. s \o r # <<>>
  <2>1. Len(<<>>) = 0
    OBVIOUS
  <2>2. QED
    BY <1>4, <2>1
<1>6. sha256(s \o r) # sha256(<<>>)
  <2>1. sha256(s \o r)[2] = s \o r /\ sha256(<<>>)[2] = <<>>
    BY DEF sha256
  <2>2. QED
    BY <1>5, <2>1
<1>7. QED
  BY <1>3, <1>6, CellKinds

LEMMA BlockOfBlock ==
    ASSUME NEW b \in Block
    PROVE  IsBlk(BlockOf(b)) /\ LedgerBlock(BlockOf(b)) = b
<1>1. /\ b = [hash |-> "block", prev |-> Zero, txs |-> b.txs, reward |-> b.reward,
              hashed |-> b.hashed]
      /\ b.reward \in Addr /\ b.hashed \in BOOLEAN
  BY BlockFields
<1>2. PICK n \in 0 .. MAX_TRANSACTIONS :
         n \in Nat /\ Len(b.txs) = n /\ b.txs \in [1 .. n -> Txns]
  BY BlockFields
<1> DEFINE T == [i \in DOMAIN b.txs |-> TxnOf(b.txs[i])]
           z == [reward |-> Address(b.reward), prev |-> ZeroHash, hash |-> sha256(<<>>), txs |-> T]
           h == IF b.hashed THEN compute_block_hash(z) ELSE sha256(<<>>)
           c == BlockOf(b)
<1>3. c = [reward |-> Address(b.reward), prev |-> ZeroHash, hash |-> h, txs |-> T]
  <2>1. c = IF b.hashed THEN [z EXCEPT !.hash = compute_block_hash(z)] ELSE z
    BY DEF BlockOf
  <2>2. z = [reward |-> Address(b.reward), prev |-> ZeroHash, hash |-> sha256(<<>>), txs |-> T]
    OBVIOUS
  <2> HIDE DEF z, c, T
  <2>3. QED
    BY <2>1, <2>2
<1>4. z.txs = T /\ z.reward = Address(b.reward) /\ z.prev = ZeroHash
  OBVIOUS
<1>5. T = [i \in 1 .. n |-> TxnOf(b.txs[i])] /\ Len(T) = n /\ DOMAIN T = 1 .. n
  BY <1>2
<1>6. \A i \in 1 .. n : /\ T[i] = TxnOf(b.txs[i]) /\ b.txs[i] \in Txns
                        /\ IsTxn(T[i]) /\ Writable(T[i]) /\ LedgerTxn(T[i]) = b.txs[i]
  BY <1>2, <1>5, TxnOfTxn
<1>7. IsTuple(T, n)
  BY <1>5 DEF IsTuple
<1> HIDE DEF T, z
<1>8. compute_block_hash(z) # sha256(<<>>) /\ IsCell(compute_block_hash(z))
  BY <1>2, <1>4, <1>5, BlockHashes
<1>9. IsCell(h)
  BY <1>8, CellKinds
<1> HIDE DEF h, c
<1>10. /\ c.reward = Address(b.reward) /\ c.prev = ZeroHash /\ c.hash = h /\ c.txs = T
       /\ c = [reward |-> c.reward, prev |-> c.prev, hash |-> c.hash, txs |-> c.txs]
  BY <1>3
<1>11. IsBlk(c)
  BY <1>5, <1>6, <1>7, <1>9, <1>10, Keys, CellKinds DEF IsBlk
<1>12. Hashed(c) = b.hashed
  <2>1. compute_block_hash(c) = compute_block_hash(z)
    BY <1>4, <1>10 DEF compute_block_hash
  <2>2. Hashed(c) <=> compute_block_hash(z) = h
    BY <1>10, <2>1 DEF Hashed
  <2>3. compute_block_hash(z) = h <=> b.hashed
    BY <1>1, <1>8 DEF h
  <2>4. Hashed(c) \in BOOLEAN
    BY DEF Hashed
  <2>5. QED
    BY <1>1, <2>2, <2>3, <2>4
<1>13. [i \in DOMAIN c.txs |-> LedgerTxn(c.txs[i])] = b.txs
  BY <1>2, <1>5, <1>6, <1>10
<1>14. LedgerBlock(c) = [hash |-> "block", prev |-> Zero, reward |-> b.reward,
                         txs |-> b.txs, hashed |-> b.hashed]
  <2>1. LedgerBlock(c) = [hash |-> "block", prev |-> Zero, reward |-> AddrOf(c.reward),
                          txs |-> [i \in DOMAIN c.txs |-> LedgerTxn(c.txs[i])],
                          hashed |-> Hashed(c)]
    BY DEF LedgerBlock
  <2>2. AddrOf(c.reward) = b.reward
    BY <1>1, <1>10, Addresses
  <2>3. QED
    BY <1>12, <1>13, <2>1, <2>2
<1>15. LedgerBlock(c) = b
  BY <1>1, <1>14
<1>16. QED
  BY <1>11, <1>15 DEF c

LEMMA NextBlockIsBlk ==
    ASSUME NEW c, IsBlk(c)
    PROVE  IsBlk(NextBlock(c)) /\ NextBlock(c).reward = c.reward
<1> DEFINE z == [reward |-> c.reward, prev |-> c.hash, hash |-> ZeroHash, txs |-> <<>>]
           h == compute_block_hash(z)
           d == NextBlock(c)
<1>1. d = [reward |-> c.reward, prev |-> c.hash, hash |-> h, txs |-> <<>>]
  <2>1. d = [z EXCEPT !.hash = h]
    BY DEF NextBlock
  <2>2. z = [reward |-> c.reward, prev |-> c.hash, hash |-> ZeroHash, txs |-> <<>>]
    OBVIOUS
  <2> HIDE DEF z, h, d
  <2>3. QED
    BY <2>1, <2>2
<1>2. DOMAIN z.txs = 1 .. 0
  OBVIOUS
<1> HIDE DEF z
<1>3. IsCell(h)
  BY <1>2, BlockHashes
<1> HIDE DEF h, d
<1>4. /\ d.reward = c.reward /\ d.prev = c.hash /\ d.hash = h /\ d.txs = <<>>
      /\ d = [reward |-> d.reward, prev |-> d.prev, hash |-> d.hash, txs |-> d.txs]
  BY <1>1
<1>5. Len(d.txs) = 0 /\ IsTuple(d.txs, 0)
  <2>1. <<>> = [i \in 1 .. 0 |-> d.txs[i]]
    OBVIOUS
  <2>2. QED
    BY <1>4, <2>1 DEF IsTuple
<1>6. 0 \in 0 .. MAX_TRANSACTIONS /\ 1 .. 0 = {}
  BY FormatAssumption
<1>7. IsBlk(d)
  BY <1>3, <1>4, <1>5, <1>6 DEF IsBlk
<1>8. QED
  BY <1>4, <1>7 DEF d

\* Two blocks, one behind the other.
LEMMA TwoBlocks ==
    ASSUME NEW c, IsBlk(c), NEW d, IsBlk(d), NEW f, f = BlockWrite(c) \o BlockWrite(d)
    PROVE  /\ IsFile(f)
           /\ Len(f) = BlockSize(c) + BlockSize(d)
           /\ StreamBlocks(f) = <<c, d>>
           /\ BufferBlocks(f, 0, Len(f)) = <<c, d>>
<1> DEFINE v == BlockWrite(c)
           w == BlockWrite(d)
           bs == <<c, d>>
           m == BlockSize(c)
           n == BlockSize(d)
           off == [i \in 0 .. 2 |-> IF i = 0 THEN 0 ELSE IF i = 1 THEN m ELSE m + n]
<1>1. IsFile(v) /\ Len(v) = m /\ m \in Nat /\ IsFile(w) /\ Len(w) = n /\ n \in Nat
  BY BlockWritten
<1> HIDE DEF v, w, m, n
<1>2. IsFile(f) /\ Len(f) = m + n /\ HoldsAt(f, 0, v) /\ HoldsAt(f, m, w)
  BY <1>1, HoldsTwo DEF v, w
<1>3. AreBlocks(bs, 2)
  <2>1. bs = [i \in 1 .. 2 |-> bs[i]] /\ bs[1] = c /\ bs[2] = d
    OBVIOUS
  <2> HIDE DEF bs
  <2>2. \A i \in 1 .. 2 : IsBlk(bs[i])
    <3> SUFFICES ASSUME NEW i \in 1 .. 2 PROVE IsBlk(bs[i])
      OBVIOUS
    <3>1. i = 1 \/ i = 2
      OBVIOUS
    <3>2. QED
      BY <2>1, <3>1
  <2>3. QED
    BY <2>1, <2>2 DEF AreBlocks, IsTuple
<1>4. AreAt(off, bs, 2, f, 0, Len(f))
  <2>1. off \in [0 .. 2 -> Nat] /\ off[0] = 0 /\ off[1] = m /\ off[2] = m + n
    BY <1>1
  <2>2. bs[1] = c /\ bs[2] = d
    OBVIOUS
  <2> HIDE DEF off, bs
  <2>3. ASSUME NEW i \in 1 .. 2
        PROVE  /\ off[i] = off[i - 1] + BlockSize(bs[i])
               /\ HoldsAt(f, off[i - 1], BlockWrite(bs[i]))
    <3>1. CASE i = 1
      <4>1. off[i] = m /\ off[i - 1] = 0 /\ bs[i] = c
        BY <2>1, <2>2, <3>1
      <4>2. m = 0 + m
        BY <1>1
      <4>3. QED
        BY <1>2, <4>1, <4>2 DEF m, v
    <3>2. CASE i = 2
      <4>1. off[i] = m + n /\ off[i - 1] = m /\ bs[i] = d
        BY <2>1, <2>2, <3>2
      <4>2. QED
        BY <1>2, <4>1 DEF n, w
    <3>3. QED
      BY <3>1, <3>2
  <2>4. QED
    BY <1>2, <2>1, <2>3 DEF AreAt
<1> HIDE DEF off, bs
<1>5. Reads("stream", f, Len(f)) /\ Reads("buffer", f, Len(f))
  BY <1>2, CellsAreNumbers DEF Reads
<1>6. BlocksAt("stream", f, 0, Len(f)) = bs /\ BlocksAt("buffer", f, 0, Len(f)) = bs
  BY <1>2, <1>3, <1>4, <1>5, BlocksReadBack
<1>7. QED
  BY <1>2, <1>6 DEF StreamBlocks, BufferBlocks, bs, m, n

-----------------------------------------------------------------------------
(* The inductive invariant.                                                 *)

\* As long as the file is not damaged, blk is the block that was built.
AsBuilt ==
    /\ status \in {"built", "written", "read", "valid", "invalid", "indexed"}
    /\ (hit = 0 \/ status \in {"built", "written", "read"}) => blk \in Block

\* The file can be read as cells, and its text follows from the block.
InFile ==
    /\ status = "written" => IsFile(file)
    /\ (status \in {"written", "read", "valid", "invalid"} /\ hit = 0) =>
          file = BlockWrite(Written[1]) \o BlockWrite(Written[2])

\* A block that was read: a sequence of transactions, whose amounts are numbers.
HasTxns(c) ==
    \E n \in Nat : /\ DOMAIN c.txs = 1 .. n
                   /\ \A i \in 1 .. n : AsNumber(c.txs[i].amount) \in Int

Found ==
    status \in {"read", "valid", "invalid"} =>
        /\ hit = 0 => stream = Written /\ buffer = Written
        /\ buffer # <<>> => HasTxns(buffer[1])

\* The balances are those that validation gives.
Validated ==
    status \in {"valid", "invalid", "indexed"} =>
        /\ before \in Starts
        /\ IsBlock(blk) /\ {"txs", "reward", "hashed"} \subseteq DOMAIN blk
        /\ balances = Validate(blk, before).balances
        /\ day1 = ValidateDay1(blk, before)
        /\ status = "invalid" <=> ~Validate(blk, before).ok

Indexed == status = "indexed" => hit = 0 /\ file = rewrite_chain(Chunks)

IInv == AsBuilt /\ InFile /\ Found /\ Validated /\ Indexed

LEMMA WrittenBlocks ==
    ASSUME blk \in Block
    PROVE  /\ Written = <<Written[1], Written[2]>>
           /\ IsBlk(Written[1]) /\ IsBlk(Written[2])
           /\ LedgerBlock(Written[1]) = blk
<1>1. Written = <<Written[1], Written[2]>> /\ Written[1] = BlockOf(blk)
      /\ Written[2] = NextBlock(BlockOf(blk))
  BY DEF Written
<1>2. IsBlk(BlockOf(blk)) /\ LedgerBlock(BlockOf(blk)) = blk
  BY BlockOfBlock
<1>3. IsBlk(NextBlock(BlockOf(blk)))
  BY <1>2, NextBlockIsBlk
<1>4. QED
  BY <1>1, <1>2, <1>3

\* What the file holds when it is whole.
LEMMA WrittenFile ==
    ASSUME blk \in Block, NEW f, f = BlockWrite(Written[1]) \o BlockWrite(Written[2])
    PROVE  /\ IsFile(f)
           /\ Len(f) = BlockSize(Written[1]) + BlockSize(Written[2])
           /\ StreamBlocks(f) = Written /\ BufferBlocks(f, 0, Len(f)) = Written
<1> DEFINE c == Written[1]
           d == Written[2]
<1>1. Written = <<c, d>> /\ IsBlk(c) /\ IsBlk(d)
  BY WrittenBlocks
<1>2. f = BlockWrite(c) \o BlockWrite(d)
  OBVIOUS
<1> HIDE DEF c, d
<1>3. /\ IsFile(f) /\ Len(f) = BlockSize(c) + BlockSize(d)
      /\ StreamBlocks(f) = <<c, d>> /\ BufferBlocks(f, 0, Len(f)) = <<c, d>>
  BY <1>1, <1>2, TwoBlocks
<1>4. QED
  BY <1>1, <1>3 DEF c, d

LEMMA InitInv == Init => IInv
<1> SUFFICES ASSUME Init PROVE IInv
  OBVIOUS
<1>1. QED
  BY DEF Init, IInv, AsBuilt, InFile, Found, Validated, Indexed

LEMMA WriteFileInv == ASSUME IInv, WriteFile PROVE IInv'
<1>1. status = "built" /\ status' = "written" /\ blk' = blk /\ hit' = hit
      /\ file' = BlockWrite(Written[1]) \o BlockWrite(Written[2])
  BY DEF WriteFile
<1>2. blk \in Block
  BY <1>1 DEF IInv, AsBuilt
<1>3. IsFile(file')
  BY <1>1, <1>2, WrittenFile
<1>4. Written' = Written
  BY <1>1 DEF Written
<1>5. AsBuilt'
  BY <1>1, <1>2 DEF AsBuilt
<1>6. InFile'
  BY <1>1, <1>3, <1>4 DEF InFile
<1>7. Found' /\ Validated' /\ Indexed'
  BY <1>1 DEF Found, Validated, Indexed
<1>8. QED
  BY <1>5, <1>6, <1>7 DEF IInv

LEMMA DamageFileInv == ASSUME IInv, DamageFile PROVE IInv'
<1>1. status = "written" /\ status' = "written" /\ blk' = blk
  BY DEF DamageFile
<1>2. PICK i \in DOMAIN file :
         /\ hit' = i
         /\ \/ file' = SubSeq(file, 1, i - 1)
            \/ \E cell \in Rubbish \ {file[i]} : file' = [file EXCEPT ![i] = cell]
  BY DEF DamageFile
<1>3. blk \in Block /\ IsFile(file)
  BY <1>1 DEF IInv, AsBuilt, InFile
<1>4. PICK S : file \in Seq(S) /\ \A c \in S : AsNumber(c) \in Int
  BY <1>3 DEF IsFile
<1>5. i \in 1 .. Len(file) /\ Len(file) \in Nat
  BY <1>4
<1>6. IsFile(file')
  <2>1. CASE file' = SubSeq(file, 1, i - 1)
    <3>1. 1 \in Nat \ {0} /\ i - 1 \in Nat /\ i - 1 <= Len(file) /\ 1 <= (i - 1) + 1
      BY <1>5
    <3>2. IsFile(SubSeq(file, 1, i - 1))
      BY <1>3, <3>1, SubSeqFile
    <3>3. QED
      BY <2>1, <3>2
  <2>2. CASE \E cell \in Rubbish \ {file[i]} : file' = [file EXCEPT ![i] = cell]
    <3>1. PICK cell \in Rubbish : file' = [file EXCEPT ![i] = cell]
      BY <2>2
    <3>2. AsNumber(cell) \in Int
      BY BlockAssumption
    <3> DEFINE T == S \cup {cell}
               new == [file EXCEPT ![i] = cell]
    <3>3. new \in Seq(T)
      BY <1>4
    <3>4. \A c \in T : AsNumber(c) \in Int
      BY <1>4, <3>2
    <3> HIDE DEF T, new
    <3>5. IsFile(new)
      BY <3>3, <3>4, FileOf
    <3>6. QED
      BY <3>1, <3>5 DEF new
  <2>3. QED
    BY <1>2, <2>1, <2>2
<1>7. hit' # 0
  BY <1>2, <1>5
<1>8. AsBuilt' /\ InFile' /\ Found' /\ Validated' /\ Indexed'
  BY <1>1, <1>3, <1>6, <1>7 DEF AsBuilt, InFile, Found, Validated, Indexed
<1>9. QED
  BY <1>8 DEF IInv

LEMMA BlocksHaveTxns ==
    ASSUME NEW f, IsFile(f), NEW c \in BlocksIn(f)
    PROVE  HasTxns(c)
<1>1. PICK p \in Nat, txs \in Seq(TxnsIn(f)) : c = BlockAt(f, p, txs)
  BY DEF BlocksIn
<1>2. c.txs = txs
  BY <1>1 DEF BlockAt
<1> DEFINE n == Len(txs)
<1>3. n \in Nat /\ DOMAIN c.txs = 1 .. n
  BY <1>2
<1>4. ASSUME NEW i \in 1 .. n PROVE AsNumber(c.txs[i].amount) \in Int
  <2>1. txs[i] \in TxnsIn(f)
    OBVIOUS
  <2>2. QED
    BY <1>2, <2>1, AmountsAreNumbers
<1> HIDE DEF n
<1>5. QED
  BY <1>3, <1>4 DEF HasTxns

LEMMA ReadFileInv == ASSUME IInv, ReadFile PROVE IInv'
<1>1. /\ status = "written" /\ status' = "read" /\ blk' = blk /\ hit' = hit /\ file' = file
      /\ stream' = StreamBlocks(file) /\ buffer' = BufferBlocks(file, 0, Len(file))
  BY DEF ReadFile
<1>2. blk \in Block /\ IsFile(file)
  BY <1>1 DEF IInv, AsBuilt, InFile
<1>3. Written' = Written
  BY <1>1 DEF Written
<1>4. hit = 0 => file = BlockWrite(Written[1]) \o BlockWrite(Written[2])
  BY <1>1 DEF IInv, InFile
<1>5. hit' = 0 => stream' = Written' /\ buffer' = Written'
  BY <1>1, <1>2, <1>3, <1>4, WrittenFile
<1>6. buffer' # <<>> => HasTxns(buffer'[1])
  <2> DEFINE V == BlocksIn(file)
             bs == BufferBlocks(file, 0, Len(file))
  <2>1. Reads("buffer", file, Len(file))
    BY <1>2, CellsAreNumbers DEF Reads
  <2>2. bs \in Seq(V)
    BY <1>2, <2>1, BlocksAtType DEF BufferBlocks
  <2> HIDE DEF V, bs
  <2>3. bs # <<>> => bs[1] \in V
    BY <2>2
  <2>4. bs # <<>> => HasTxns(bs[1])
    BY <1>2, <2>3, BlocksHaveTxns DEF V
  <2>5. QED
    BY <1>1, <2>4 DEF bs
<1>7. AsBuilt' /\ InFile' /\ Validated' /\ Indexed'
  BY <1>1, <1>2, <1>3, <1>4 DEF AsBuilt, InFile, Validated, Indexed
<1>8. Found'
  BY <1>5, <1>6 DEF Found
<1>9. QED
  BY <1>7, <1>8 DEF IInv

LEMMA ReadBlock ==
    ASSUME NEW c, HasTxns(c)
    PROVE  IsBlock(LedgerBlock(c))
<1>1. PICK n \in Nat : /\ DOMAIN c.txs = 1 .. n
                       /\ \A i \in 1 .. n : AsNumber(c.txs[i].amount) \in Int
  BY DEF HasTxns
<1> DEFINE b == LedgerBlock(c)
<1>2. b.txs = [i \in DOMAIN c.txs |-> LedgerTxn(c.txs[i])]
  BY DEF LedgerBlock
<1>3. DOMAIN b.txs = 1 .. n
  BY <1>1, <1>2
<1>4. \A i \in 1 .. n : b.txs[i].amount \in Int
  <2> SUFFICES ASSUME NEW i \in 1 .. n PROVE b.txs[i].amount \in Int
    OBVIOUS
  <2>1. b.txs[i] = LedgerTxn(c.txs[i])
    BY <1>1, <1>2
  <2>2. LedgerTxn(c.txs[i]).amount = AsNumber(c.txs[i].amount)
    BY DEF LedgerTxn
  <2>3. QED
    BY <1>1, <2>1, <2>2
<1> HIDE DEF b
<1>5. QED
  BY <1>3, <1>4 DEF IsBlock, b

LEMMA ValidateStepInv == ASSUME IInv, ValidateStep PROVE IInv'
<1>1. /\ status \in {"read", "valid", "invalid"} /\ buffer # <<>>
      /\ before' \in IF status = "read" THEN Starts ELSE {before}
      /\ blk' = LedgerBlock(buffer[1])
      /\ balances' = Validate(blk', before').balances
      /\ status' = IF Validate(blk', before').ok THEN "valid" ELSE "invalid"
      /\ day1' = ValidateDay1(blk', before')
      /\ file' = file /\ hit' = hit /\ stream' = stream /\ buffer' = buffer
  BY DEF ValidateStep
<1>2. status' \in {"valid", "invalid"}
  BY <1>1
<1>3. HasTxns(buffer[1])
  BY <1>1 DEF IInv, Found
<1>4. IsBlock(blk') /\ {"txs", "reward", "hashed"} \subseteq DOMAIN blk'
  <2>1. {"txs", "reward", "hashed"} \subseteq DOMAIN LedgerBlock(buffer[1])
    BY DEF LedgerBlock
  <2>2. QED
    BY <1>1, <1>3, <2>1, ReadBlock
<1>5. before' \in Starts
  BY <1>1 DEF IInv, Validated
<1>6. ASSUME hit = 0 PROVE blk' = blk
  <2>1. blk \in Block
    BY <1>6 DEF IInv, AsBuilt
  <2>2. buffer = Written
    BY <1>1, <1>6 DEF IInv, Found
  <2>3. QED
    BY <1>1, <2>1, <2>2, WrittenBlocks
<1>7. AsBuilt'
  BY <1>1, <1>2, <1>6 DEF IInv, AsBuilt
<1>8. hit' = 0 => Written' = Written
  BY <1>1, <1>6 DEF Written
<1>9. InFile'
  BY <1>1, <1>2, <1>8 DEF IInv, InFile
<1>10. Found'
  BY <1>1, <1>2, <1>8 DEF IInv, Found
<1>11. Validated'
  BY <1>1, <1>4, <1>5 DEF Validated
<1>12. Indexed'
  BY <1>2 DEF Indexed
<1>13. QED
  BY <1>7, <1>9, <1>10, <1>11, <1>12 DEF IInv

LEMMA RewriteFileInv == ASSUME IInv, RewriteFile PROVE IInv'
<1>1. /\ status = "valid" /\ hit = 0 /\ status' = "indexed"
      /\ file' = rewrite_chain(Chunks)
      /\ blk' = blk /\ hit' = hit /\ stream' = stream /\ buffer' = buffer
      /\ balances' = balances /\ before' = before /\ day1' = day1
  BY DEF RewriteFile
<1>2. AsBuilt' /\ InFile' /\ Found'
  BY <1>1 DEF IInv, AsBuilt, InFile, Found
<1>3. Validated'
  BY <1>1 DEF IInv, Validated
<1>4. Chunks' = Chunks
  BY <1>1 DEF Chunks, Written
<1>5. Indexed'
  BY <1>1, <1>4 DEF Indexed
<1>6. QED
  BY <1>2, <1>3, <1>5 DEF IInv

\* The invariant: the text of the file follows from the block, what is read
\* from a whole file is that block, what is read from any other still has
\* numbers for amounts, and the balances are what validate makes of it.
THEOREM ValidateInvariant == Spec => []IInv
<1>1. IInv /\ [Next]_vars => IInv'
  <2> SUFFICES ASSUME IInv, [Next]_vars PROVE IInv'
    OBVIOUS
  <2>1. CASE WriteFile
    BY <2>1, WriteFileInv
  <2>2. CASE DamageFile
    BY <2>2, DamageFileInv
  <2>3. CASE ReadFile
    BY <2>3, ReadFileInv
  <2>4. CASE ValidateStep
    BY <2>4, ValidateStepInv
  <2>5. CASE RewriteFile
    BY <2>5, RewriteFileInv
  <2>6. CASE UNCHANGED vars
    <3>1. Written' = Written /\ Chunks' = Chunks
      BY <2>6 DEF Written, Chunks, vars
    <3>2. QED
      BY <2>6, <3>1 DEF IInv, AsBuilt, InFile, Found, Validated, Indexed, vars
  <2>7. QED
    BY <2>1, <2>2, <2>3, <2>4, <2>5, <2>6 DEF Next
<1>2. QED
  BY <1>1, InitInv, PTL DEF Spec

LEMMA StartsAreMaps ==
    ASSUME NEW bal \in Starts
    PROVE  IsMap(bal) /\ DOMAIN bal \subseteq Addr /\ Supply(bal) + BLOCK_REWARD < Wrap
  BY BlockAssumption DEF IsMap

LEMMA InvReward == IInv => OnlyRewardIsCreated
<1> SUFFICES ASSUME IInv, status = "valid"
             PROVE  /\ Supply(balances) <= Supply(before) + BLOCK_REWARD
                    /\ (\A i \in DOMAIN blk.txs : ~PaysItself(blk.txs[i])) =>
                          Supply(balances) = Supply(before) + BLOCK_REWARD
  BY DEF OnlyRewardIsCreated
<1>1. /\ before \in Starts /\ IsBlock(blk) /\ Validate(blk, before).ok
      /\ balances = Validate(blk, before).balances
  BY DEF IInv, Validated
<1>2. IsMap(before) /\ Supply(before) + BLOCK_REWARD < Wrap
  BY <1>1, StartsAreMaps
<1>3. \A tx : PaysItself(tx) <=> SelfPaying(tx)
  BY DEF PaysItself, SelfPaying
<1>4. QED
  BY <1>1, <1>2, <1>3, BlockCreatesReward

LEMMA InvSources == IInv => OnlySourcesPay
<1> SUFFICES ASSUME IInv, status \in {"valid", "invalid"}
             PROVE  /\ \A a \in DOMAIN before \ Sources :
                          a \in DOMAIN balances /\ balances[a] >= before[a]
                    /\ (status = "invalid" /\ ~Rehashed.ok) =>
                          Supply(balances) <= Supply(before)
                    /\ (status = "invalid" /\ Rehashed.ok) =>
                          /\ balances = Rehashed.balances
                          /\ blk.reward \in DOMAIN balances
                          /\ balances[blk.reward] >= BLOCK_REWARD
                          /\ Supply(balances) <= Supply(before) + BLOCK_REWARD
  BY DEF OnlySourcesPay
<1> DEFINE true == [blk EXCEPT !.hashed = TRUE]
<1>1. /\ before \in Starts /\ IsBlock(blk)
      /\ {"txs", "reward", "hashed"} \subseteq DOMAIN blk
      /\ status = "invalid" <=> ~Validate(blk, before).ok
      /\ balances = Validate(blk, before).balances
  BY DEF IInv, Validated
<1>2. IsMap(before) /\ Supply(before) + BLOCK_REWARD < Wrap
  BY <1>1, StartsAreMaps
<1>3. Sources = {blk.txs[i].source : i \in DOMAIN blk.txs}
  BY DEF Sources
<1>4. true.txs = blk.txs /\ true.reward = blk.reward /\ true.hashed = TRUE
  BY <1>1
<1>5. Rehashed = Validate(true, before)
  BY DEF Rehashed
<1> HIDE DEF true
<1> DEFINE r == Validate(blk, before)
           t == Validate(true, before)
<1>6. /\ \A a \in DOMAIN before \ {blk.txs[i].source : i \in DOMAIN blk.txs} :
            a \in DOMAIN r.balances /\ r.balances[a] >= before[a]
      /\ ~t.ok => ~r.ok /\ Supply(r.balances) <= Supply(before)
      /\ t.ok => /\ r.ok = blk.hashed
                 /\ r.balances = t.balances
                 /\ blk.reward \in DOMAIN r.balances
                 /\ r.balances[blk.reward] >= BLOCK_REWARD
                 /\ Supply(r.balances) <= Supply(before) + BLOCK_REWARD
  BY <1>1, <1>2, <1>4, OnlyPayersLose, Zenon
<1> HIDE DEF r, t
<1>7. r = Validate(blk, before) /\ t = Validate(true, before)
  BY DEF r, t
<1>8. QED
  BY <1>1, <1>3, <1>5, <1>6, <1>7

LEMMA InvVersions == IInv => VersionsAgree
<1> SUFFICES ASSUME IInv, status \in {"valid", "invalid"},
                    \A i \in DOMAIN blk.txs : blk.txs[i].amount > 0
             PROVE  /\ day1.ok <=> status = "valid"
                    /\ status = "valid" => day1.balances = balances
  BY DEF VersionsAgree
<1>1. /\ before \in Starts /\ IsBlock(blk)
      /\ status = "invalid" <=> ~Validate(blk, before).ok
      /\ balances = Validate(blk, before).balances
      /\ day1 = ValidateDay1(blk, before)
  BY DEF IInv, Validated
<1>2. IsMap(before)
  BY <1>1, StartsAreMaps
<1>3. /\ ValidateDay1(blk, before).ok <=> Validate(blk, before).ok
      /\ Validate(blk, before).ok =>
            ValidateDay1(blk, before).balances = Validate(blk, before).balances
  BY <1>1, <1>2, Day1Agrees
<1>4. QED
  BY <1>1, <1>3

\* A valid block creates its reward and no other money, and loses none unless
\* a transaction pays its own source (txn_t::update_balances,
\* block_t::validate), for all blocks, also those of damaged files.
THEOREM MoneyIsConserved == Spec => []OnlyRewardIsCreated
  BY ValidateInvariant, InvReward, PTL

\* Only the sources of transactions lose money, whatever the verdict; a block
\* refused for a transaction creates none, and one refused for its hash alone
\* keeps the reward it was credited (txn_t::update_balances, block_t::validate).
THEOREM SourcesPay == Spec => []OnlySourcesPay
  BY ValidateInvariant, InvSources, PTL

\* The validation of day1 and that of day3 and day4 agree on every block
\* without a zero amount (block_t::validate of both).
THEOREM DaysAgree == Spec => []VersionsAgree
  BY ValidateInvariant, InvVersions, PTL

-----------------------------------------------------------------------------
(* Indexed files.                                                           *)

\* q lists the elements of S.
Lists(q, S, k) == q \in [1 .. k -> S] /\ \A x \in S : \E i \in 1 .. k : q[i] = x

LEMMA SetInOrder ==
    ASSUME NEW S, IsFiniteSet(S)
    PROVE  /\ Cardinality(S) \in Nat
           /\ Lists(SetToSeq(S), S, Cardinality(S))
<1> DEFINE k == Cardinality(S)
           q == SetToSeq(S)
<1>1. k \in Nat /\ ExistsBijection(1 .. k, S)
  BY FS_CardinalityType
<1>2. PICK f : f \in Bijection(1 .. k, S)
  BY <1>1 DEF ExistsBijection
<1>3. f \in [1 .. k -> S] /\ IsInjective(f)
  BY <1>2 DEF Bijection, Injection
<1>4. q \in [1 .. k -> S] /\ IsInjective(q)
  BY <1>3 DEF SetToSeq
<1> HIDE DEF q, k
<1>5. q \in Injection(1 .. k, S)
  BY <1>4 DEF Injection
<1>6. IsFiniteSet(1 .. k) /\ Cardinality(1 .. k) = k
  <2>1. ExistsBijection(1 .. k, S) /\ k \in Nat
    BY <1>1
  <2>2. QED
    BY <2>1, FS_Interval
<1>7. q \in Surjection(1 .. k, S)
  BY <1>5, <1>6, FS_Injection DEF k
<1>8. QED
  BY <1>1, <1>4, <1>7 DEF Lists, Surjection, k, q

\* A balance map that can be written.
IsWritableMap(m) == IsMap(m) /\ \A a \in DOMAIN m : IsCell(a)

\* The entries of m stand in w in the order of q.
IsMapText(w, m, q, k) ==
    /\ k \in Nat
    /\ Lists(q, DOMAIN m, k)
    /\ Len(w) = 1 + 2 * k
    /\ w[1] = Number(k)
    /\ \A i \in 1 .. k : w[2 * i] = q[i] /\ w[2 * i + 1] = Number(m[q[i]])

LEMMA MapWritten ==
    ASSUME NEW m, IsWritableMap(m)
    PROVE  /\ IsFile(write_balance_map(m))
           /\ balance_map_size(m) \in Nat
           /\ Len(write_balance_map(m)) = balance_map_size(m)
           /\ \E q, k : IsMapText(write_balance_map(m), m, q, k)
<1> DEFINE k == Cardinality(DOMAIN m)
           q == SetToSeq(DOMAIN m)
           T == [i \in 1 .. k |-> LET addr == q[i] IN <<addr, Number(m[addr])>>]
           F == FlattenSeq(T)
           a == <<Number(k)>>
           w == a \o F
<1>1. k \in Nat /\ Lists(q, DOMAIN m, k)
  BY SetInOrder DEF IsWritableMap, IsMap
<1>2. w = write_balance_map(m)
  BY DEF write_balance_map
<1> HIDE DEF k, q
<1>3. IsTuple(T, k)
  BY DEF IsTuple
<1>4. ASSUME NEW i \in 1 .. k
      PROVE  /\ T[i][1] = q[i] /\ T[i][2] = Number(m[q[i]])
             /\ Len(T[i]) = 2 /\ IsFile(T[i])
  <2>1. T[i] = <<q[i], Number(m[q[i]])>>
    OBVIOUS
  <2> HIDE DEF T
  <2>2. q[i] \in DOMAIN m /\ m[q[i]] \in Nat
    BY <1>1 DEF Lists, IsWritableMap, IsMap
  <2>3. IsCell(q[i]) /\ IsCell(Number(m[q[i]]))
    BY <2>2, CellKinds DEF IsWritableMap
  <2> DEFINE S == {q[i], Number(m[q[i]])}
             x == <<q[i], Number(m[q[i]])>>
  <2>4. x \in Seq(S) /\ Len(x) = 2 /\ x[1] = q[i] /\ x[2] = Number(m[q[i]])
    OBVIOUS
  <2>5. \A c \in S : AsNumber(c) \in Int
    BY <2>3 DEF IsCell
  <2> HIDE DEF S, x
  <2>6. IsFile(x)
    BY <2>4, <2>5, FileOf
  <2>7. T[i] = x
    BY <2>1 DEF x
  <2>8. QED
    BY <2>4, <2>6, <2>7
<1> HIDE DEF T, F
<1>5. AllFiles(T, 1 .. k)
  BY <1>4 DEF AllFiles
<1>6. IsFile(F) /\ \E off : IsLayout(off, T, k, F)
  BY <1>1, <1>3, <1>5, FlattenLayout DEF F
<1>7. PICK off : IsLayout(off, T, k, F)
  BY <1>6
<1>8. /\ off \in [0 .. k -> Nat] /\ off[0] = 0 /\ off[k] = Len(F)
      /\ \A i \in 1 .. k : off[i] = off[i - 1] + 2 /\ HoldsAt(F, off[i - 1], T[i])
  BY <1>4, <1>7 DEF IsLayout
<1> DEFINE Z == {i \in 0 .. k : off[i] = 2 * i}
<1>9. 0 \in Z
  BY <1>1, <1>8
<1>10. ASSUME NEW i \in 0 .. k - 1, i \in Z PROVE i + 1 \in Z
  <2>1. i + 1 \in 1 .. k /\ (i + 1) - 1 = i /\ i + 1 \in 0 .. k
    BY <1>1
  <2>2. off[i + 1] = off[(i + 1) - 1] + 2
    BY <1>8, <2>1
  <2>3. QED
    BY <1>10, <2>1, <2>2
<1> HIDE DEF Z
<1>11. 0 .. k \subseteq Z
  BY <1>1, <1>9, <1>10, PrefixInduction
<1>12. \A i \in 0 .. k : off[i] = 2 * i
  BY <1>11 DEF Z
<1>13. Len(F) = 2 * k
  BY <1>1, <1>8, <1>12
<1>14. IsFile(a) /\ Len(a) = 1 /\ a[1] = Number(k)
  <2>1. IsCell(Number(k))
    BY <1>1, CellKinds
  <2>2. QED
    BY <2>1, FewCells
<1> HIDE DEF a
<1>15. IsFile(w) /\ Len(w) = 1 + 2 * k /\ HoldsAt(w, 0, a) /\ HoldsAt(w, 1, F)
  BY <1>6, <1>13, <1>14, HoldsTwo
<1> HIDE DEF w
<1>16. w[1] = Number(k)
  <2>1. w[0 + 1] = a[1]
    BY <1>14, <1>15 DEF HoldsAt
  <2>2. QED
    BY <1>14, <2>1
<1>17. ASSUME NEW i \in 1 .. k
       PROVE  w[2 * i] = q[i] /\ w[2 * i + 1] = Number(m[q[i]])
  <2>1. i - 1 \in 0 .. k /\ i \in Nat
    BY <1>1
  <2>2. HoldsAt(F, 2 * (i - 1), T[i])
    BY <1>8, <1>12, <2>1
  <2>3. Len(w) \in Nat /\ IsFile(T[i])
    BY <1>4, <1>15, CellsAreNumbers
  <2>4. HoldsAt(w, 1 + 2 * (i - 1), T[i])
    BY <1>6, <1>15, <2>2, <2>3, HoldsInside
  <2>5. \A j \in 1 .. 2 : w[1 + 2 * (i - 1) + j] = T[i][j]
    BY <1>4, <2>4 DEF HoldsAt
  <2>6. w[1 + 2 * (i - 1) + 1] = T[i][1] /\ w[1 + 2 * (i - 1) + 2] = T[i][2]
    BY <2>5
  <2>7. 1 + 2 * (i - 1) + 1 = 2 * i /\ 1 + 2 * (i - 1) + 2 = 2 * i + 1
    BY <2>1
  <2>8. QED
    BY <1>4, <2>6, <2>7
<1>18. IsMapText(w, m, q, k)
  BY <1>1, <1>15, <1>16, <1>17 DEF IsMapText
<1>19. balance_map_size(m) = 1 + 2 * k
  BY DEF balance_map_size, k
<1>20. QED
  BY <1>1, <1>2, <1>15, <1>18, <1>19

LEMMA MapReadBack ==
    ASSUME NEW f, NEW p, NEW m, IsWritableMap(m), HoldsAt(f, p, write_balance_map(m))
    PROVE  read_balance_map(f, p) = m
<1> DEFINE w == write_balance_map(m)
<1>1. IsFile(w) /\ \E q, k : IsMapText(w, m, q, k)
  BY MapWritten
<1> HIDE DEF w
<1>2. PICK q, k : IsMapText(w, m, q, k)
  BY <1>1
<1>3. /\ k \in Nat /\ Lists(q, DOMAIN m, k) /\ Len(w) = 1 + 2 * k /\ w[1] = Number(k)
      /\ \A i \in 1 .. k : w[2 * i] = q[i] /\ w[2 * i + 1] = Number(m[q[i]])
  BY <1>2 DEF IsMapText
<1>4. p \in Nat /\ \A i \in 1 .. 1 + 2 * k : f[p + i] = w[i]
  BY <1>3 DEF HoldsAt, w
<1>5. AsNumber(f[p + 1]) = k
  <2>1. f[p + 1] = Number(k)
    BY <1>3, <1>4
  <2>2. QED
    BY <1>3, <2>1, CellKinds
<1>6. ASSUME NEW i \in 1 .. k
      PROVE  /\ f[p + 2 * i] = q[i] /\ q[i] \in DOMAIN m
             /\ AsNumber(f[p + 2 * i + 1]) = m[q[i]]
  <2>1. 2 * i \in 1 .. 1 + 2 * k /\ 2 * i + 1 \in 1 .. 1 + 2 * k
        /\ p + (2 * i + 1) = p + 2 * i + 1
    BY <1>3, <1>4
  <2>2. f[p + 2 * i] = w[2 * i] /\ f[p + (2 * i + 1)] = w[2 * i + 1]
    BY <1>4, <2>1
  <2>3. q[i] \in DOMAIN m /\ m[q[i]] \in Nat
    BY <1>3 DEF Lists, IsWritableMap, IsMap
  <2>4. f[p + 2 * i + 1] = Number(m[q[i]])
    BY <1>3, <2>1, <2>2
  <2>5. QED
    BY <1>3, <2>2, <2>3, <2>4, CellKinds
<1> DEFINE D == {f[p + 2 * i] : i \in 1 .. k}
<1>7. D = DOMAIN m
  <2>1. ASSUME NEW x \in D PROVE x \in DOMAIN m
    <3>1. PICK i \in 1 .. k : x = f[p + 2 * i]
      OBVIOUS
    <3>2. QED
      BY <1>6, <3>1
  <2>2. ASSUME NEW x \in DOMAIN m PROVE x \in D
    <3>1. PICK i \in 1 .. k : q[i] = x
      BY <1>3 DEF Lists
    <3>2. f[p + 2 * i] = x
      BY <1>6, <3>1
    <3>3. QED
      BY <3>2
  <2>3. QED
    BY <2>1, <2>2
<1> DEFINE V(x) == AsNumber(f[p + 2 * (CHOOSE i \in 1 .. k : f[p + 2 * i] = x) + 1])
<1>8. ASSUME NEW x \in D PROVE V(x) = m[x]
  <2> DEFINE c == CHOOSE i \in 1 .. k : f[p + 2 * i] = x
  <2>1. c \in 1 .. k /\ f[p + 2 * c] = x
    OBVIOUS
  <2> HIDE DEF c
  <2>2. AsNumber(f[p + 2 * c + 1]) = m[x]
    BY <1>6, <2>1
  <2>3. QED
    BY <2>2 DEF c
<1>9. read_balance_map(f, p) = [x \in D |-> V(x)]
  BY <1>5 DEF read_balance_map
<1> HIDE DEF D, V
<1>10. [x \in D |-> V(x)] = [x \in DOMAIN m |-> m[x]]
  BY <1>7, <1>8
<1>11. m = [x \in DOMAIN m |-> m[x]]
  BY DEF IsWritableMap, IsMap
<1>12. QED
  BY <1>9, <1>10, <1>11

\* A chunk [blocks, map] that can be written.
IsChunk(c) ==
    /\ c = [blocks |-> c.blocks, map |-> c.map]
    /\ \E n : AreBlocks(c.blocks, n)
    /\ IsWritableMap(c.map)

ChunkText(c) == FlattenSeq(BlockTexts(c.blocks)) \o write_balance_map(c.map)

LEMMA ChunkWritten ==
    ASSUME NEW c, IsChunk(c)
    PROVE  /\ IsFile(ChunkText(c))
           /\ ChunkSize(c) \in Nat /\ balance_map_size(c.map) \in Nat
           /\ Len(ChunkText(c)) = ChunkSize(c) + balance_map_size(c.map)
           /\ HoldsAt(ChunkText(c), 0, FlattenSeq(BlockTexts(c.blocks)))
           /\ HoldsAt(ChunkText(c), ChunkSize(c), write_balance_map(c.map))
<1> DEFINE v == FlattenSeq(BlockTexts(c.blocks))
           w == write_balance_map(c.map)
           x == v \o w
<1>1. PICK n : AreBlocks(c.blocks, n)
  BY DEF IsChunk
<1>2. /\ IsFile(v)
      /\ Len(v) = SumFunction([i \in DOMAIN c.blocks |-> BlockSize(c.blocks[i])])
  BY <1>1, BlocksWritten
<1>3. IsFile(w) /\ balance_map_size(c.map) \in Nat /\ Len(w) = balance_map_size(c.map)
  BY MapWritten DEF IsChunk
<1>4. x = ChunkText(c)
  BY DEF ChunkText
<1>5. ChunkSize(c) = SumFunction([i \in DOMAIN c.blocks |-> BlockSize(c.blocks[i])])
  BY DEF ChunkSize
<1> HIDE DEF v, w, x
<1>6. Len(v) = ChunkSize(c)
  BY <1>2, <1>5
<1>7. IsFile(x) /\ Len(x) = Len(v) + Len(w) /\ HoldsAt(x, 0, v) /\ HoldsAt(x, Len(v), w)
  BY <1>2, <1>3, HoldsTwo DEF x
<1>8. Len(v) \in Nat
  BY <1>2, CellsAreNumbers
<1>9. QED
  BY <1>3, <1>4, <1>6, <1>7, <1>8 DEF v, w

LEMMA ChunkReadBack ==
    ASSUME NEW c, IsChunk(c), NEW f, IsFile(f), NEW p, HoldsAt(f, p, ChunkText(c))
    PROVE  /\ BufferBlocks(f, p, p + ChunkSize(c)) = c.blocks
           /\ read_balance_map(f, p + ChunkSize(c)) = c.map
<1> DEFINE v == FlattenSeq(BlockTexts(c.blocks))
           w == write_balance_map(c.map)
           x == ChunkText(c)
           m == ChunkSize(c)
<1>1. PICK n : AreBlocks(c.blocks, n)
  BY DEF IsChunk
<1>2. IsFile(v) /\ \E off : AreAt(off, c.blocks, n, v, 0, Len(v))
  BY <1>1, BlocksWritten
<1>3. /\ IsFile(x) /\ m \in Nat /\ balance_map_size(c.map) \in Nat
      /\ Len(x) = m + balance_map_size(c.map)
      /\ HoldsAt(x, 0, v) /\ HoldsAt(x, m, w)
  BY ChunkWritten
<1>4. IsFile(w) /\ Len(w) = balance_map_size(c.map)
  BY MapWritten DEF IsChunk
<1>5. Len(v) = m
  <2>1. Len(v) = SumFunction([i \in DOMAIN c.blocks |-> BlockSize(c.blocks[i])])
    BY <1>1, BlocksWritten
  <2>2. QED
    BY <2>1 DEF ChunkSize
<1>6. p \in Nat /\ Len(f) \in Nat /\ p + Len(x) <= Len(f)
  BY CellsAreNumbers DEF HoldsAt
<1> HIDE DEF v, w, m
<1>7. HoldsAt(f, p, v) /\ HoldsAt(f, p + m, w)
  <2> HIDE DEF x
  <2>1. HoldsAt(f, p, x)
    BY DEF x
  <2>2. HoldsAt(f, p + 0, v)
    BY <1>2, <1>3, <1>6, <2>1, HoldsInside
  <2>3. HoldsAt(f, p + m, w)
    BY <1>3, <1>4, <1>6, <2>1, HoldsInside
  <2>4. QED
    BY <1>6, <2>2, <2>3
<1>8. read_balance_map(f, p + m) = c.map
  BY <1>7, MapReadBack DEF IsChunk, w
<1>9. PICK o : AreAt(o, c.blocks, n, v, 0, Len(v))
  BY <1>2
<1> DEFINE off == [i \in 0 .. n |-> p + o[i]]
<1>10. n \in Nat /\ o \in [0 .. n -> Nat] /\ o[0] = 0 /\ o[n] = m
  BY <1>1, <1>5, <1>9 DEF AreBlocks, AreAt
<1>11. off \in [0 .. n -> Nat] /\ off[0] = p /\ off[n] = p + m
  BY <1>6, <1>10
<1>12. ASSUME NEW i \in 1 .. n
       PROVE  /\ off[i] = off[i - 1] + BlockSize(c.blocks[i])
              /\ HoldsAt(f, off[i - 1], BlockWrite(c.blocks[i]))
  <2>1. i \in 0 .. n /\ i - 1 \in 0 .. n
    BY <1>10
  <2>2. off[i] = p + o[i] /\ off[i - 1] = p + o[i - 1] /\ o[i - 1] \in Nat
    BY <1>10, <2>1
  <2>3. o[i] = o[i - 1] + BlockSize(c.blocks[i]) /\ HoldsAt(v, o[i - 1], BlockWrite(c.blocks[i]))
    BY <1>9 DEF AreAt
  <2>4. IsFile(BlockWrite(c.blocks[i])) /\ BlockSize(c.blocks[i]) \in Nat
    BY <1>1, BlockWritten DEF AreBlocks
  <2>5. HoldsAt(f, p + o[i - 1], BlockWrite(c.blocks[i]))
    BY <1>2, <1>6, <1>7, <2>3, <2>4, HoldsInside
  <2> HIDE DEF off
  <2>6. off[i] = off[i - 1] + BlockSize(c.blocks[i])
    BY <1>6, <2>2, <2>3, <2>4
  <2>7. QED
    BY <2>2, <2>5, <2>6
<1> HIDE DEF off
<1>13. AreAt(off, c.blocks, n, f, p, p + m)
  BY <1>11, <1>12 DEF AreAt
<1>14. Reads("buffer", f, p + m)
  BY <1>3, <1>6 DEF Reads
<1>15. BlocksAt("buffer", f, p, p + m) = c.blocks
  BY <1>1, <1>13, <1>14, BlocksReadBack
<1>16. QED
  BY <1>8, <1>15 DEF BufferBlocks, m

LEMMA NumbersWritten ==
    ASSUME NEW n \in Nat, NEW s, DOMAIN s = 1 .. n, \A i \in 1 .. n : s[i] \in Nat
    PROVE  /\ IsFile(Numbers(s)) /\ Len(Numbers(s)) = n
           /\ \A i \in 1 .. n : Numbers(s)[i] = Number(s[i])
<1> DEFINE S == {Number(s[i]) : i \in 1 .. n}
           x == Numbers(s)
<1>1. x = [i \in 1 .. n |-> Number(s[i])]
  BY DEF Numbers
<1>2. x \in Seq(S) /\ Len(x) = n /\ \A i \in 1 .. n : x[i] = Number(s[i])
  BY <1>1
<1>3. \A c \in S : AsNumber(c) \in Int
  BY CellKinds DEF IsCell
<1> HIDE DEF S, x
<1>4. IsFile(x)
  BY <1>2, <1>3, FileOf
<1>5. QED
  BY <1>2, <1>4 DEF x

AreChunks(chunks, n) ==
    n \in Nat /\ IsTuple(chunks, n) /\ \A i \in 1 .. n : IsChunk(chunks[i])

LEMMA HoldsMore ==
    ASSUME NEW f, IsFile(f), NEW g, IsFile(g), NEW p, NEW v, IsFile(v), HoldsAt(f, p, v)
    PROVE  HoldsAt(f \o g, p, v)
<1> DEFINE w == f \o g
<1>1. IsFile(w) /\ HoldsAt(w, 0, f)
  BY HoldsTwo
<1>2. Len(w) \in Nat /\ p \in Nat
  BY <1>1, CellsAreNumbers DEF HoldsAt
<1> HIDE DEF w
<1>3. HoldsAt(w, 0 + p, v)
  BY <1>1, <1>2, HoldsInside
<1>4. QED
  BY <1>2, <1>3 DEF w

\* The offsets and sizes in the header are numbers.
LEMMA ChunkOffsets ==
    ASSUME NEW chunks, NEW n, AreChunks(chunks, n)
    PROVE  LET s == [i \in 1 .. n |-> ChunkSize(chunks[i]) + balance_map_size(chunks[i].map)]
           IN  /\ n \in Nat /\ Len(chunks) = n /\ DOMAIN chunks = 1 .. n
               /\ DOMAIN chunkStartOffsets(chunks) = 1 .. n
               /\ DOMAIN mapStartOffsets(chunks) = 1 .. n
               /\ \A i \in 1 .. n :
                     /\ s[i] \in Nat
                     /\ chunkStartOffsets(chunks)[i] =
                           1 + 3 * n + SumFunction([j \in 1 .. i - 1 |-> s[j]])
                     /\ mapStartOffsets(chunks)[i] =
                           chunkStartOffsets(chunks)[i] + ChunkSize(chunks[i])
                     /\ chunkStartOffsets(chunks)[i] \in Nat
                     /\ mapStartOffsets(chunks)[i] \in Nat
<1> DEFINE s == [i \in 1 .. n |-> ChunkSize(chunks[i]) + balance_map_size(chunks[i].map)]
<1>1. n \in Nat /\ Len(chunks) = n /\ DOMAIN chunks = 1 .. n
  BY DEF AreChunks, IsTuple
<1>2. ASSUME NEW i \in 1 .. n
      PROVE  /\ ChunkSize(chunks[i]) \in Nat /\ s[i] \in Nat
  BY ChunkWritten DEF AreChunks
<1>3. DOMAIN chunkStartOffsets(chunks) = 1 .. n /\ DOMAIN mapStartOffsets(chunks) = 1 .. n
  BY <1>1 DEF chunkStartOffsets, mapStartOffsets
<1>4. ASSUME NEW i \in 1 .. n
      PROVE  /\ chunkStartOffsets(chunks)[i] =
                   1 + 3 * n + SumFunction([j \in 1 .. i - 1 |-> s[j]])
             /\ mapStartOffsets(chunks)[i] =
                   chunkStartOffsets(chunks)[i] + ChunkSize(chunks[i])
             /\ chunkStartOffsets(chunks)[i] \in Nat
             /\ mapStartOffsets(chunks)[i] \in Nat
  <2>1. [j \in 1 .. i - 1 |-> s[j]] =
           [j \in 1 .. i - 1 |-> ChunkSize(chunks[j]) + balance_map_size(chunks[j].map)]
    <3>1. \A j \in 1 .. i - 1 : j \in 1 .. n
      BY <1>1
    <3>2. \A j \in 1 .. i - 1 :
             s[j] = ChunkSize(chunks[j]) + balance_map_size(chunks[j].map)
      BY <3>1
    <3>3. QED
      BY <3>2
  <2>2. chunkStartOffsets(chunks)[i] =
           1 + 3 * n + SumFunction([j \in 1 .. i - 1 |-> s[j]])
    <3>1. chunkStartOffsets(chunks)[i] =
             1 + 3 * Len(chunks)
             + SumFunction([j \in 1 .. i - 1 |->
                               ChunkSize(chunks[j]) + balance_map_size(chunks[j].map)])
      BY <1>1 DEF chunkStartOffsets
    <3> HIDE DEF s
    <3>2. QED
      BY <1>1, <2>1, <3>1
  <2> HIDE DEF s
  <2>3. i - 1 \in 0 .. n
    BY <1>1
  <2>4. SumFunction([j \in 1 .. i - 1 |-> s[j]]) \in Nat
    BY <1>1, <1>2, <2>3, SumSteps
  <2>5. mapStartOffsets(chunks)[i] = chunkStartOffsets(chunks)[i] + ChunkSize(chunks[i])
    BY <1>1 DEF mapStartOffsets
  <2>6. QED
    BY <1>1, <1>2, <2>2, <2>4, <2>5
<1>5. QED
  BY <1>1, <1>2, <1>3, <1>4

\* What an indexed file contains.
IsIndexed(w, chunks, n) ==
    /\ IsFile(w)
    /\ 1 + 3 * n <= Len(w)
    /\ w[1] = Number(n)
    /\ \A i \in 1 .. n :
          /\ w[1 + i] = Number(chunkStartOffsets(chunks)[i])
          /\ w[1 + n + i] = Number(mapStartOffsets(chunks)[i])
          /\ w[1 + 2 * n + i] = Number(balance_map_size(chunks[i].map))
          /\ HoldsAt(w, chunkStartOffsets(chunks)[i], ChunkText(chunks[i]))

LEMMA ChainRewritten ==
    ASSUME NEW chunks, NEW n, AreChunks(chunks, n)
    PROVE  IsIndexed(rewrite_chain(chunks), chunks, n)
<1> DEFINE s == [i \in 1 .. n |-> ChunkSize(chunks[i]) + balance_map_size(chunks[i].map)]
           cso == chunkStartOffsets(chunks)
           mso == mapStartOffsets(chunks)
           msz == [i \in 1 .. n |-> balance_map_size(chunks[i].map)]
           T == [i \in 1 .. n |-> ChunkText(chunks[i])]
           F == FlattenSeq(T)
           a == <<Number(n)>>
           b == Numbers(cso)
           c == Numbers(mso)
           d == Numbers(msz)
           ab == a \o b
           abc == ab \o c
           abcd == abc \o d
           w == abcd \o F
<1>1. n \in Nat /\ Len(chunks) = n /\ DOMAIN chunks = 1 .. n
  BY ChunkOffsets
<1>2. /\ DOMAIN cso = 1 .. n /\ DOMAIN mso = 1 .. n
      /\ \A i \in 1 .. n :
            /\ s[i] \in Nat
            /\ cso[i] = 1 + 3 * n + SumFunction([j \in 1 .. i - 1 |-> s[j]])
            /\ cso[i] \in Nat /\ mso[i] \in Nat
  BY ChunkOffsets
<1>3. ASSUME NEW i \in 1 .. n
      PROVE  /\ IsFile(T[i]) /\ T[i] = ChunkText(chunks[i]) /\ Len(T[i]) = s[i]
             /\ msz[i] \in Nat /\ msz[i] = balance_map_size(chunks[i].map)
  <2>1. /\ IsFile(ChunkText(chunks[i])) /\ balance_map_size(chunks[i].map) \in Nat
        /\ Len(ChunkText(chunks[i])) = ChunkSize(chunks[i]) + balance_map_size(chunks[i].map)
    BY ChunkWritten DEF AreChunks
  <2>2. QED
    BY <2>1
<1>4. w = rewrite_chain(chunks)
  <2>1. T = [i \in DOMAIN chunks |->
               FlattenSeq([j \in DOMAIN chunks[i].blocks |-> BlockWrite(chunks[i].blocks[j])])
               \o write_balance_map(chunks[i].map)]
    BY <1>1 DEF ChunkText, BlockTexts
  <2>2. msz = [i \in DOMAIN chunks |-> balance_map_size(chunks[i].map)]
    BY <1>1
  <2> HIDE DEF T, msz, cso, mso
  <2>3. rewrite_chain(chunks) =
           <<Number(Len(chunks))>> \o Numbers(cso) \o Numbers(mso) \o Numbers(msz)
           \o FlattenSeq(T)
    BY <2>1, <2>2 DEF rewrite_chain, cso, mso
  <2>4. QED
    BY <1>1, <2>3
<1>5. IsTuple(T, n) /\ DOMAIN msz = 1 .. n
  BY DEF IsTuple
<1> HIDE DEF s, cso, mso, msz, T
<1>6. IsFile(a) /\ Len(a) = 1 /\ a[1] = Number(n)
  <2>1. IsCell(Number(n))
    BY <1>1, CellKinds
  <2>2. QED
    BY <2>1, FewCells
<1>7. IsFile(b) /\ Len(b) = n /\ \A i \in 1 .. n : b[i] = Number(cso[i])
  BY <1>1, <1>2, NumbersWritten
<1>8. IsFile(c) /\ Len(c) = n /\ \A i \in 1 .. n : c[i] = Number(mso[i])
  BY <1>1, <1>2, NumbersWritten
<1>9. IsFile(d) /\ Len(d) = n /\ \A i \in 1 .. n : d[i] = Number(msz[i])
  BY <1>1, <1>3, <1>5, NumbersWritten
<1>10. AllFiles(T, 1 .. n)
  BY <1>3 DEF AllFiles
<1>11. IsFile(F) /\ \E off : IsLayout(off, T, n, F)
  BY <1>1, <1>5, <1>10, FlattenLayout
<1>12. PICK off : IsLayout(off, T, n, F)
  BY <1>11
<1> HIDE DEF a, b, c, d, F
<1>13. IsFile(ab) /\ Len(ab) = 1 + n /\ HoldsAt(ab, 0, a) /\ HoldsAt(ab, 1, b)
  BY <1>6, <1>7, HoldsTwo
<1> HIDE DEF ab
<1>14. /\ IsFile(abc) /\ Len(abc) = 1 + 2 * n
       /\ HoldsAt(abc, 0, a) /\ HoldsAt(abc, 1, b) /\ HoldsAt(abc, 1 + n, c)
  <2>1. IsFile(abc) /\ Len(abc) = Len(ab) + Len(c) /\ HoldsAt(abc, Len(ab), c)
    BY <1>8, <1>13, HoldsTwo
  <2>2. HoldsAt(abc, 0, a) /\ HoldsAt(abc, 1, b)
    BY <1>6, <1>7, <1>8, <1>13, HoldsMore
  <2> HIDE DEF abc
  <2>3. Len(ab) + Len(c) = 1 + 2 * n
    BY <1>1, <1>8, <1>13
  <2>4. QED
    BY <1>13, <2>1, <2>2, <2>3
<1> HIDE DEF abc
<1>15. /\ IsFile(abcd) /\ Len(abcd) = 1 + 3 * n
       /\ HoldsAt(abcd, 0, a) /\ HoldsAt(abcd, 1, b) /\ HoldsAt(abcd, 1 + n, c)
       /\ HoldsAt(abcd, 1 + 2 * n, d)
  <2>1. IsFile(abcd) /\ Len(abcd) = Len(abc) + Len(d) /\ HoldsAt(abcd, Len(abc), d)
    BY <1>9, <1>14, HoldsTwo
  <2>2. HoldsAt(abcd, 0, a) /\ HoldsAt(abcd, 1, b) /\ HoldsAt(abcd, 1 + n, c)
    BY <1>6, <1>7, <1>8, <1>9, <1>14, HoldsMore
  <2> HIDE DEF abcd
  <2>3. Len(abc) + Len(d) = 1 + 3 * n
    BY <1>1, <1>9, <1>14
  <2>4. QED
    BY <1>14, <2>1, <2>2, <2>3
<1> HIDE DEF abcd
<1>16. /\ IsFile(w) /\ Len(w) = 1 + 3 * n + Len(F)
       /\ HoldsAt(w, 0, a) /\ HoldsAt(w, 1, b) /\ HoldsAt(w, 1 + n, c)
       /\ HoldsAt(w, 1 + 2 * n, d) /\ HoldsAt(w, 1 + 3 * n, F)
  <2>1. IsFile(w) /\ Len(w) = Len(abcd) + Len(F) /\ HoldsAt(w, Len(abcd), F)
    BY <1>11, <1>15, HoldsTwo
  <2>2. /\ HoldsAt(w, 0, a) /\ HoldsAt(w, 1, b) /\ HoldsAt(w, 1 + n, c)
        /\ HoldsAt(w, 1 + 2 * n, d)
    BY <1>6, <1>7, <1>8, <1>9, <1>11, <1>15, HoldsMore
  <2> HIDE DEF w
  <2>3. QED
    BY <1>15, <2>1, <2>2
<1> HIDE DEF w
<1>17. Len(w) \in Nat /\ Len(F) \in Nat
  BY <1>11, <1>16, CellsAreNumbers
<1>18. w[1] = Number(n)
  <2>1. w[0 + 1] = a[1]
    BY <1>6, <1>16 DEF HoldsAt
  <2>2. QED
    BY <1>6, <2>1
<1>22. \A i \in 0 .. n : off[i] = SumFunction([j \in 1 .. i |-> s[j]])
  <2>1. \A i \in 1 .. n : s[i] \in Nat /\ Len(T[i]) = s[i]
    BY <1>2, <1>3
  <2>2. n \in Nat /\ IsLayout(off, T, n, F)
    BY <1>1, <1>12
  <2>3. QED
    BY <2>1, <2>2, LayoutSums
<1>19. ASSUME NEW i \in 1 .. n
       PROVE  /\ w[1 + i] = Number(cso[i])
              /\ w[1 + n + i] = Number(mso[i])
              /\ w[1 + 2 * n + i] = Number(balance_map_size(chunks[i].map))
              /\ HoldsAt(w, cso[i], ChunkText(chunks[i]))
  <2>1. w[1 + i] = b[i]
    BY <1>7, <1>16 DEF HoldsAt
  <2>2. w[1 + n + i] = c[i]
    BY <1>8, <1>16 DEF HoldsAt
  <2>3. w[1 + 2 * n + i] = d[i]
    BY <1>9, <1>16 DEF HoldsAt
  <2>4. HoldsAt(F, off[i - 1], T[i])
    BY <1>12 DEF IsLayout
  <2>5. i - 1 \in 0 .. n
    BY <1>1
  <2>6. off[i - 1] = SumFunction([j \in 1 .. i - 1 |-> s[j]])
    BY <1>22, <2>5
  <2>7. cso[i] = 1 + 3 * n + off[i - 1]
    BY <1>2, <2>6
  <2>8. HoldsAt(w, 1 + 3 * n + off[i - 1], T[i])
    BY <1>3, <1>11, <1>16, <1>17, <2>4, HoldsInside
  <2>9. QED
    BY <1>3, <1>7, <1>8, <1>9, <2>1, <2>2, <2>3, <2>7, <2>8
<1>20. 1 + 3 * n <= Len(w)
  BY <1>1, <1>16, <1>17
<1>21. QED
  BY <1>4, <1>16, <1>18, <1>19, <1>20 DEF IsIndexed, cso, mso

\* A reader of an indexed file finds the chunks that rewritechain wrote, at
\* the offsets it computed from size() (rewrite_chain, extractHeader,
\* block_t::read, read_balance_map), for any number of chunks and blocks.
THEOREM IndexedChunksAreRead ==
    ASSUME NEW chunks, NEW n, AreChunks(chunks, n)
    PROVE  ReadChunks(rewrite_chain(chunks)) = chunks
<1> DEFINE f == rewrite_chain(chunks)
           h == extractHeader(f)
           cso == chunkStartOffsets(chunks)
           mso == mapStartOffsets(chunks)
<1>1. n \in Nat /\ IsTuple(chunks, n)
  BY DEF AreChunks
<1>2. IsIndexed(f, chunks, n)
  BY ChainRewritten
<1>3. \A i \in 1 .. n : /\ cso[i] \in Nat /\ mso[i] \in Nat
                        /\ mso[i] = cso[i] + ChunkSize(chunks[i])
  BY ChunkOffsets
<1> HIDE DEF f, cso, mso
<1>4. /\ IsFile(f) /\ 1 + 3 * n <= Len(f) /\ f[1] = Number(n)
      /\ \A i \in 1 .. n : /\ f[1 + i] = Number(cso[i]) /\ f[1 + n + i] = Number(mso[i])
                           /\ HoldsAt(f, cso[i], ChunkText(chunks[i]))
  BY <1>2 DEF IsIndexed, cso, mso
<1>5. AsNumber(f[1]) = n /\ Len(f) \in Nat
  BY <1>1, <1>4, CellKinds, CellsAreNumbers
<1>6. f # <<>>
  <2>1. Len(<<>>) = 0
    OBVIOUS
  <2>2. Len(f) # 0
    BY <1>1, <1>4, <1>5
  <2>3. QED
    BY <2>1, <2>2
<1>7. ~(Len(f) < 1 + 3 * n)
  BY <1>1, <1>4, <1>5
<1>8. /\ h.chunkOff = [i \in 1 .. n |-> AsNumber(f[1 + i])]
      /\ h.mapOff = [i \in 1 .. n |-> AsNumber(f[1 + n + i])]
  <2>1. h = [size     |-> 1 + 3 * n,
             chunkOff |-> [i \in 1 .. n |-> AsNumber(f[1 + i])],
             mapOff   |-> [i \in 1 .. n |-> AsNumber(f[1 + n + i])],
             mapSz    |-> [i \in 1 .. n |-> AsNumber(f[1 + 2 * n + i])]]
    BY <1>5, <1>6, <1>7 DEF extractHeader
  <2> HIDE DEF h
  <2>2. QED
    BY <2>1
<1> HIDE DEF h
<1>9. ASSUME NEW i \in 1 .. n
      PROVE  h.chunkOff[i] = cso[i] /\ h.mapOff[i] = mso[i]
  BY <1>3, <1>4, <1>8, CellKinds
<1>10. ASSUME NEW i \in 1 .. n
       PROVE  [blocks |-> BufferBlocks(f, h.chunkOff[i], h.mapOff[i]),
               map    |-> read_balance_map(f, h.mapOff[i])] = chunks[i]
  <2> DEFINE c == chunks[i]
             p == cso[i]
  <2>1. IsChunk(c)
    BY DEF AreChunks
  <2>2. HoldsAt(f, p, ChunkText(c)) /\ mso[i] = p + ChunkSize(c)
    BY <1>3, <1>4
  <2> HIDE DEF c, p
  <2>3. /\ BufferBlocks(f, p, p + ChunkSize(c)) = c.blocks
        /\ read_balance_map(f, p + ChunkSize(c)) = c.map
    BY <1>4, <2>1, <2>2, ChunkReadBack
  <2>4. c = [blocks |-> c.blocks, map |-> c.map]
    BY <2>1 DEF IsChunk
  <2>5. h.chunkOff[i] = p /\ h.mapOff[i] = p + ChunkSize(c)
    BY <1>9, <2>2 DEF p
  <2>6. QED
    BY <2>3, <2>4, <2>5 DEF c
<1>11. DOMAIN h.chunkOff = 1 .. n
  BY <1>8
<1>12. ReadChunks(f) = [i \in 1 .. n |->
                          [blocks |-> BufferBlocks(f, h.chunkOff[i], h.mapOff[i]),
                           map    |-> read_balance_map(f, h.mapOff[i])]]
  BY <1>11 DEF ReadChunks, h
<1>13. ReadChunks(f) = [i \in 1 .. n |-> chunks[i]]
  BY <1>10, <1>12
<1>14. QED
  BY <1>1, <1>13 DEF IsTuple, f

-----------------------------------------------------------------------------
(* What is written is read.                                                 *)

\* Validation adds entries for addresses only.
LEMMA BalancesOfAddresses ==
    ASSUME NEW b \in Block, NEW bal \in Starts
    PROVE  /\ IsMap(Validate(b, bal).balances)
           /\ DOMAIN Validate(b, bal).balances \subseteq Addr
<1> DEFINE acc == [ok |-> TRUE, balances |-> bal]
           end == FoldLeft(ApplyTxn, acc, b.txs)
           V == Accs(Addr)
<1>1. b.reward \in Addr
  BY BlockFields
<1>2. PICK n \in Nat : Len(b.txs) = n /\ b.txs \in [1 .. n -> Txns]
  BY BlockFields
<1>3. DOMAIN b.txs = 1 .. n
  BY <1>2
<1>4. acc \in V
  <2>1. bal \in Maps(Addr)
    BY StartsAreMaps, MapsAreMaps
  <2>2. QED
    BY <2>1 DEF Accs
<1> HIDE DEF acc, end
<1>5. ASSUME NEW x \in V, NEW i \in 1 .. n PROVE ApplyTxn(x, b.txs[i]) \in V
  <2>1. b.txs[i] \in Txns
    BY <1>2
  <2>2. b.txs[i].amount \in Int /\ {b.txs[i].dest, b.txs[i].change} \subseteq Addr
    BY <2>1, BlockAssumption
  <2>3. QED
    BY <2>2, ApplyTxnStep
<1> HIDE DEF V
<1>6. PICK g \in [0 .. n -> V] :
         IsRun(g, n, b.txs, acc, FoldLeft(ApplyTxn, acc, b.txs))
  <2>1. \A x \in V : \A i \in 1 .. n : ApplyTxn(x, b.txs[i]) \in V
    BY <1>5
  <2>2. QED
    BY <1>2, <1>3, <1>4, <2>1, FoldApplyTxn
<1>7. end \in Accs(Addr)
  BY <1>2, <1>6 DEF IsRun, end, V
<1>8. IsMap(end.balances) /\ DOMAIN end.balances \subseteq Addr
  BY <1>7, MapsAreMaps DEF Accs
<1> DEFINE new == Credit(end.balances, b.reward, BLOCK_REWARD)
<1>9. IsMap(new) /\ DOMAIN new \subseteq Addr
  <2>1. IsMap(new) /\ DOMAIN new = DOMAIN end.balances \cup {b.reward}
    BY <1>8, SupplyCredit, LedgerAssumption
  <2>2. QED
    BY <1>1, <1>8, <2>1
<1>10. Validate(b, bal).balances = IF end.ok THEN new ELSE end.balances
  BY DEF Validate, end, acc
<1>11. QED
  BY <1>8, <1>9, <1>10

\* Balances by address, as RewriteFile writes them.
ByAddress(m) == [cell \in {Address(a) : a \in DOMAIN m} |-> m[AddrOf(cell)]]

LEMMA ByAddressWritable ==
    ASSUME NEW m, IsMap(m), DOMAIN m \subseteq Addr
    PROVE  IsWritableMap(ByAddress(m))
<1> DEFINE D == {Address(a) : a \in DOMAIN m}
<1>1. IsFiniteSet(D)
  <2> DEFINE f == [a \in DOMAIN m |-> Address(a)]
  <2>1. f \in Surjection(DOMAIN m, D)
    BY DEF Surjection
  <2>2. IsFiniteSet(DOMAIN m)
    BY DEF IsMap
  <2> HIDE DEF D, f
  <2>3. QED
    BY <2>1, <2>2, FS_Surjection
<1>2. ASSUME NEW cell \in D PROVE IsCell(cell) /\ m[AddrOf(cell)] \in Nat
  <2>1. PICK a \in DOMAIN m : cell = Address(a)
    BY <1>2
  <2>2. AddrOf(cell) = a
    BY <2>1, Addresses
  <2>3. QED
    BY <2>1, <2>2, Keys DEF IsMap
<1>3. DOMAIN ByAddress(m) = D
  BY DEF ByAddress
<1>4. ByAddress(m) \in [D -> Nat]
  BY <1>2 DEF ByAddress
<1> HIDE DEF D
<1>5. QED
  BY <1>1, <1>2, <1>3, <1>4 DEF IsWritableMap, IsMap

LEMMA OneBlock ==
    ASSUME NEW c, IsBlk(c), NEW m, IsWritableMap(m)
    PROVE  IsChunk([blocks |-> <<c>>, map |-> m])
<1> DEFINE bs == <<c>>
           r == [blocks |-> bs, map |-> m]
<1>1. bs = [i \in 1 .. 1 |-> bs[i]] /\ bs[1] = c
  OBVIOUS
<1>2. r.blocks = bs /\ r.map = m /\ r = [blocks |-> r.blocks, map |-> r.map]
  OBVIOUS
<1> HIDE DEF bs
<1>3. AreBlocks(bs, 1)
  <2>1. ASSUME NEW i \in 1 .. 1 PROVE IsBlk(bs[i])
    <3>1. i = 1
      OBVIOUS
    <3>2. QED
      BY <1>1, <3>1
  <2>2. QED
    BY <1>1, <2>1 DEF AreBlocks, IsTuple
<1> HIDE DEF r
<1>4. IsChunk(r)
  BY <1>2, <1>3 DEF IsChunk
<1>5. QED
  BY <1>4 DEF r, bs

\* The chunks of RewriteFile can be written.
LEMMA ChunksCanBeWritten ==
    ASSUME blk \in Block, IsMap(balances), DOMAIN balances \subseteq Addr
    PROVE  AreChunks(Chunks, 2)
<1> DEFINE bal == ByAddress(balances)
           r == Written[2].reward
           next == Credit(bal, r, BLOCK_REWARD)
           x == [blocks |-> <<Written[1]>>, map |-> bal]
           y == [blocks |-> <<Written[2]>>, map |-> next]
           s == <<x, y>>
<1>1. s = Chunks
  BY DEF Chunks, ByAddress
<1>2. IsBlk(Written[1]) /\ IsBlk(Written[2])
  BY WrittenBlocks
<1>3. IsWritableMap(bal)
  BY ByAddressWritable
<1>4. IsCell(r)
  BY <1>2 DEF IsBlk
<1>5. IsWritableMap(next)
  <2> HIDE DEF bal, r
  <2>1. IsMap(next) /\ DOMAIN next = DOMAIN bal \cup {r}
    BY <1>3, SupplyCredit, LedgerAssumption DEF IsWritableMap
  <2>2. QED
    BY <1>3, <1>4, <2>1 DEF IsWritableMap
<1> HIDE DEF bal, next
<1>6. IsChunk(x) /\ IsChunk(y)
  BY <1>2, <1>3, <1>5, OneBlock
<1> HIDE DEF x, y
<1>7. s = [i \in 1 .. 2 |-> s[i]] /\ s[1] = x /\ s[2] = y
  OBVIOUS
<1> HIDE DEF s
<1>8. ASSUME NEW i \in 1 .. 2 PROVE IsChunk(s[i])
  <2>1. i = 1 \/ i = 2
    OBVIOUS
  <2>2. QED
    BY <1>6, <1>7, <2>1
<1>9. AreChunks(s, 2)
  BY <1>7, <1>8 DEF AreChunks, IsTuple
<1>10. QED
  BY <1>1, <1>9

LEMMA InvWritten == IInv => WrittenIsRead
<1>1. ASSUME IInv, status = "read", hit = 0
      PROVE  /\ stream = Written /\ buffer = Written
             /\ Len(file) = BlockSize(Written[1]) + BlockSize(Written[2])
             /\ LedgerBlock(Written[1]) = blk
             /\ \A i \in DOMAIN Written[1].txs : Writable(Written[1].txs[i])
  <2>1. blk \in Block /\ stream = Written /\ buffer = Written
        /\ file = BlockWrite(Written[1]) \o BlockWrite(Written[2])
    BY <1>1 DEF IInv, AsBuilt, InFile, Found
  <2>2. Len(file) = BlockSize(Written[1]) + BlockSize(Written[2])
    BY <2>1, WrittenFile
  <2>3. IsBlk(Written[1]) /\ LedgerBlock(Written[1]) = blk
    BY <2>1, WrittenBlocks
  <2>4. DOMAIN Written[1].txs = 1 .. Len(Written[1].txs)
    BY <2>3 DEF IsBlk, IsTuple
  <2>5. \A i \in DOMAIN Written[1].txs : Writable(Written[1].txs[i])
    BY <2>3, <2>4 DEF IsBlk
  <2>6. QED
    BY <2>1, <2>2, <2>3, <2>5
<1>2. ASSUME IInv, status = "indexed"
      PROVE  ReadChunks(file) = Chunks
  <2>1. hit = 0 /\ file = rewrite_chain(Chunks)
    BY <1>2 DEF IInv, Indexed
  <2>2. blk \in Block
    BY <1>2, <2>1 DEF IInv, AsBuilt
  <2>3. before \in Starts /\ balances = Validate(blk, before).balances
    BY <1>2 DEF IInv, Validated
  <2>4. IsMap(balances) /\ DOMAIN balances \subseteq Addr
    BY <2>2, <2>3, BalancesOfAddresses
  <2>5. AreChunks(Chunks, 2)
    BY <2>2, <2>4, ChunksCanBeWritten
  <2>6. QED
    BY <2>1, <2>5, IndexedChunksAreRead
<1>3. QED
  BY <1>1, <1>2 DEF WrittenIsRead

\* What is written is read back: by read(istream&) and by read(data, blkSz)
\* from a file of blocks, and through the offsets of an indexed file, whatever
\* block was built and whatever balances it leaves (block_t::write, size and
\* read, write_balance_map, rewrite_chain, extractHeader).
THEOREM FilesAreRead == Spec => []WrittenIsRead
  BY ValidateInvariant, InvWritten, PTL

=============================================================================
