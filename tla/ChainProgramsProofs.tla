------------------------ MODULE ChainProgramsProofs ------------------------
(***************************************************************************)
(* Proofs about the programs that make and read chains, for all pools of   *)
(* blocks and all lengths.                                                 *)
(***************************************************************************)
EXTENDS ChainTools, GenChain, LedgerProofs, SequenceTheorems

(* Block objects form trees: an object points to one that was read before.  *)

Ids(n) == {<<1, k>> : k \in 1 .. n}

IsTree(h, n) ==
    /\ n \in Nat
    /\ DOMAIN h = Ids(n)
    /\ \A k \in 1 .. n : \/ h[<<1, k>>].prev = NoBlock
                         \/ \E j \in 1 .. k - 1 : h[<<1, k>>].prev = <<1, j>>

\* The heap has as many objects as blocks were read.
LEMMA IdsAreCounted ==
    ASSUME NEW n \in Nat
    PROVE  IsFiniteSet(Ids(n)) /\ Cardinality(Ids(n)) = n
<1> DEFINE f == [k \in 1 .. n |-> <<1, k>>]
<1>1. f \in Bijection(1 .. n, Ids(n))
  BY DEF Bijection, Injection, Surjection, IsInjective, Ids
<1>2. IsFiniteSet(1 .. n) /\ Cardinality(1 .. n) = n
  BY FS_Interval
<1>3. QED
  BY <1>1, <1>2, FS_Bijection DEF ExistsBijection

\* What holds of an object if it holds of its predecessor holds of all.
LEMMA TreeInduction ==
    ASSUME NEW h, NEW n, IsTree(h, n), NEW S,
           \A x \in Ids(n) : (h[x].prev = NoBlock \/ h[x].prev \in S) => x \in S
    PROVE  Ids(n) \subseteq S
<1> DEFINE T == {k \in Nat : \A j \in 1 .. n : j <= k => <<1, j>> \in S}
<1>1. 0 \in T
  OBVIOUS
<1>2. ASSUME NEW k \in Nat, k \in T PROVE k + 1 \in T
  <2> SUFFICES ASSUME k + 1 \in 1 .. n PROVE <<1, k + 1>> \in S
    BY <1>2
  <2>1. <<1, k + 1>> \in Ids(n)
    BY DEF Ids
  <2>2. CASE h[<<1, k + 1>>].prev = NoBlock
    BY <2>1, <2>2
  <2>3. CASE h[<<1, k + 1>>].prev # NoBlock
    <3>1. PICK j \in 1 .. (k + 1) - 1 : h[<<1, k + 1>>].prev = <<1, j>>
      BY <2>3 DEF IsTree
    <3>2. j \in 1 .. n /\ j <= k
      BY DEF IsTree
    <3>3. <<1, j>> \in S
      BY <1>2, <3>2
    <3>4. QED
      BY <2>1, <3>1, <3>3
  <2>4. QED
    BY <2>2, <2>3
<1> HIDE DEF T
<1>3. Nat \subseteq T
  BY <1>1, <1>2, NumberInduction
<1>4. n \in T
  BY <1>3 DEF IsTree
<1>5. QED
  BY <1>4 DEF T, Ids, IsTree

LEMMA PrevIsKnown ==
    ASSUME NEW h, NEW n, IsTree(h, n), NEW x \in Ids(n), h[x].prev # NoBlock
    PROVE  h[x].prev \in Ids(n)
  BY DEF IsTree, Ids

\* f follows the objects back to the first one.
IsWalk(f, h, n, base, st) ==
    \A x \in Ids(n) : f[x] = IF h[x].prev = NoBlock THEN base[x]
                             ELSE st[<<x, f[h[x].prev]>>]

LEMMA WalkExists ==
    ASSUME NEW h, NEW n, IsTree(h, n), NEW V, NEW base \in [Ids(n) -> V],
           NEW st \in [Ids(n) \X V -> V]
    PROVE  \E f \in [Ids(n) -> V] : IsWalk(f, h, n, base, st)
<1> DEFINE Solves(f, k) ==
              /\ f \in [Ids(k) -> V]
              /\ \A x \in Ids(k) : f[x] = IF h[x].prev = NoBlock THEN base[x]
                                          ELSE st[<<x, f[h[x].prev]>>]
           S == {k \in Nat : k <= n => \E f : Solves(f, k)}
<1>1. 0 \in S
  <2>1. Ids(0) = {}
    BY DEF Ids
  <2>2. Solves([x \in {} |-> x], 0)
    BY <2>1
  <2>3. QED
    BY <2>2
<1>2. ASSUME NEW k \in Nat, k \in S PROVE k + 1 \in S
  <2> SUFFICES ASSUME k + 1 <= n PROVE \E f : Solves(f, k + 1)
    OBVIOUS
  <2> DEFINE id == <<1, k + 1>>
  <2>0. n \in Nat /\ k <= n /\ k + 1 \in 1 .. n
    BY DEF IsTree
  <2>1. PICK f : Solves(f, k)
    BY <1>2, <2>0
  <2>2. /\ Ids(k + 1) = Ids(k) \cup {id} /\ id \notin Ids(k)
        /\ id \in Ids(n) /\ Ids(k) \subseteq Ids(n)
    BY <2>0 DEF Ids
  <2>3. ASSUME NEW x \in Ids(k + 1), h[x].prev # NoBlock
        PROVE  h[x].prev \in Ids(k)
    <3>1. PICK i \in 1 .. k + 1 : x = <<1, i>>
      BY DEF Ids
    <3>2. PICK j \in 1 .. i - 1 : h[x].prev = <<1, j>>
      BY <2>0, <2>3, <3>1 DEF IsTree
    <3>3. QED
      BY <3>2 DEF Ids
  <2> DEFINE g == [x \in Ids(k + 1) |->
                     IF x = id
                     THEN IF h[x].prev = NoBlock THEN base[x]
                          ELSE st[<<x, f[h[x].prev]>>]
                     ELSE f[x]]
  <2>4. \A x \in Ids(k) : g[x] = f[x] /\ g[x] \in V
    BY <2>1, <2>2
  <2>5. g[id] = IF h[id].prev = NoBlock THEN base[id] ELSE st[<<id, f[h[id].prev]>>]
    BY <2>2
  <2>6. g[id] \in V
    BY <2>1, <2>2, <2>3, <2>5
  <2>7. DOMAIN g = Ids(k + 1)
    OBVIOUS
  <2>8. g = [x \in Ids(k + 1) |-> g[x]]
    OBVIOUS
  <2> HIDE DEF g
  <2>9. g \in [Ids(k + 1) -> V]
    BY <2>2, <2>4, <2>6, <2>8
  <2>10. ASSUME NEW x \in Ids(k + 1)
         PROVE  g[x] = IF h[x].prev = NoBlock THEN base[x] ELSE st[<<x, g[h[x].prev]>>]
    BY <2>1, <2>2, <2>3, <2>4, <2>5
  <2>11. QED
    BY <2>9, <2>10
<1> HIDE DEF Solves, S
<1>3. Nat \subseteq S
  BY <1>1, <1>2, NumberInduction
<1>4. \E f : Solves(f, n)
  BY <1>3 DEF S, IsTree
<1>5. QED
  BY <1>4 DEF Solves, IsWalk

\* The recursive function of Path has a value, which adds the object itself to
\* the path of its predecessor.
LEMMA PathSteps ==
    ASSUME NEW h, NEW n, IsTree(h, n), NEW x \in Ids(n)
    PROVE  Path(h, x) = IF h[x].prev = NoBlock THEN {x} ELSE {x} \cup Path(h, h[x].prev)
<1> DEFINE V == SUBSET Ids(n)
           base == [y \in Ids(n) |-> {y}]
           st == [q \in Ids(n) \X V |-> {q[1]} \cup q[2]]
           Body(f) == [y \in DOMAIN h |-> IF h[y].prev = NoBlock THEN {y}
                                          ELSE {y} \cup f[h[y].prev]]
           p == CHOOSE f : f = Body(f)
<1>1. base \in [Ids(n) -> V] /\ st \in [Ids(n) \X V -> V]
  OBVIOUS
<1>2. PICK f \in [Ids(n) -> V] : IsWalk(f, h, n, base, st)
  <2> HIDE DEF base, st, V
  <2>1. QED
    BY <1>1, WalkExists
<1>3. ASSUME NEW y \in Ids(n), h[y].prev # NoBlock PROVE h[y].prev \in Ids(n)
  BY <1>3 DEF IsTree, Ids
<1>4. f = Body(f)
  <2>1. ASSUME NEW y \in Ids(n)
        PROVE  f[y] = IF h[y].prev = NoBlock THEN {y} ELSE {y} \cup f[h[y].prev]
    BY <1>2, <1>3 DEF IsWalk
  <2>2. DOMAIN h = Ids(n)
    BY DEF IsTree
  <2>3. QED
    BY <2>1, <2>2
<1>5. p = Body(p)
  <2> HIDE DEF Body
  <2>1. QED
    BY <1>4
<1>6. \A y : Path(h, y) = p[y]
  BY Zenon DEF Path
<1> HIDE DEF p
<1>7. DOMAIN h = Ids(n)
  BY DEF IsTree
<1>8. p[x] = IF h[x].prev = NoBlock THEN {x} ELSE {x} \cup p[h[x].prev]
  BY <1>5, <1>7
<1>9. QED
  BY <1>6, <1>8

LEMMA PathClosed ==
    ASSUME NEW h, NEW n, IsTree(h, n), NEW x \in Ids(n)
    PROVE  /\ Path(h, x) \subseteq Ids(n)
           /\ x \in Path(h, x)
           /\ \A y \in Path(h, x) : h[y].prev # NoBlock => h[y].prev \in Path(h, x)
           /\ \A y \in Path(h, x) : y # x => \E z \in Path(h, x) : h[z].prev = y
           /\ \A y, z \in Path(h, x) :
                 h[y].prev = NoBlock /\ h[z].prev = NoBlock => y = z
<1> DEFINE Closed(y) ==
              /\ Path(h, y) \subseteq Ids(n)
              /\ y \in Path(h, y)
              /\ \A z \in Path(h, y) : h[z].prev # NoBlock => h[z].prev \in Path(h, y)
              /\ \A z \in Path(h, y) : z # y => \E w \in Path(h, y) : h[w].prev = z
              /\ \A z, w \in Path(h, y) :
                    h[z].prev = NoBlock /\ h[w].prev = NoBlock => z = w
           S == {y \in Ids(n) : Closed(y)}
<1>1. ASSUME NEW y \in Ids(n), h[y].prev = NoBlock \/ h[y].prev \in S
      PROVE  y \in S
  <2>1. Path(h, y) = IF h[y].prev = NoBlock THEN {y} ELSE {y} \cup Path(h, h[y].prev)
    BY PathSteps
  <2>2. CASE h[y].prev = NoBlock
    BY <2>1, <2>2
  <2>3. CASE h[y].prev # NoBlock
    <3> DEFINE v == h[y].prev
    <3>1. Closed(v) /\ Path(h, y) = {y} \cup Path(h, v)
      BY <1>1, <2>1, <2>3
    <3>2. v \in Path(h, y) /\ y \in Path(h, y)
      BY <3>1
    <3>3. \A z \in Path(h, y) : h[z].prev # NoBlock => h[z].prev \in Path(h, y)
      BY <3>1, <3>2
    <3>4. \A z \in Path(h, y) : z # y => \E w \in Path(h, y) : h[w].prev = z
      BY <3>1, <3>2
    <3>5. \A z, w \in Path(h, y) : h[z].prev = NoBlock /\ h[w].prev = NoBlock => z = w
      BY <2>3, <3>1
    <3>6. Path(h, y) \subseteq Ids(n)
      BY <3>1
    <3>7. QED
      BY <3>2, <3>3, <3>4, <3>5, <3>6
  <2>4. QED
    BY <2>2, <2>3
<1> HIDE DEF S
<1>2. Ids(n) \subseteq S
  BY <1>1, TreeInduction
<1>3. QED
  BY <1>2 DEF S

\* What holds of an object of a path if it holds of its predecessor holds of
\* the whole path.
LEMMA PathInduction ==
    ASSUME NEW h, NEW n, IsTree(h, n), NEW x \in Ids(n), NEW S,
           \A y \in Path(h, x) : (h[y].prev = NoBlock \/ h[y].prev \in S) => y \in S
    PROVE  Path(h, x) \subseteq S
<1> DEFINE T == {y \in Ids(n) : y \in Path(h, x) => y \in S}
<1>1. ASSUME NEW y \in Ids(n), h[y].prev = NoBlock \/ h[y].prev \in T
      PROVE  y \in T
  BY <1>1, PathClosed
<1> HIDE DEF T
<1>2. Ids(n) \subseteq T
  BY <1>1, TreeInduction
<1>3. QED
  BY <1>2, PathClosed DEF T

\* The chain of an object ends with it, after that of its predecessor.
LEMMA ChainSteps ==
    ASSUME NEW h, NEW n, IsTree(h, n), NEW x \in Ids(n)
    PROVE  Chain(h, x) = IF h[x].prev = NoBlock THEN <<h[x]>>
                         ELSE Append(Chain(h, h[x].prev), h[x])
<1> DEFINE V == Seq({h[y] : y \in Ids(n)})
           base == [y \in Ids(n) |-> <<h[y]>>]
           st == [q \in Ids(n) \X V |-> Append(q[2], h[q[1]])]
           Body(f) == [y \in DOMAIN h |-> IF h[y].prev = NoBlock THEN <<h[y]>>
                                          ELSE Append(f[h[y].prev], h[y])]
           p == CHOOSE f : f = Body(f)
<1>1. base \in [Ids(n) -> V] /\ st \in [Ids(n) \X V -> V]
  OBVIOUS
<1>2. PICK f \in [Ids(n) -> V] : IsWalk(f, h, n, base, st)
  <2> HIDE DEF base, st, V
  <2>1. QED
    BY <1>1, WalkExists
<1>3. ASSUME NEW y \in Ids(n), h[y].prev # NoBlock PROVE h[y].prev \in Ids(n)
  <2> HIDE DEF base, st, V, Body, p
  <2>1. QED
    BY <1>3 DEF IsTree, Ids
<1>4. f = Body(f)
  <2>1. ASSUME NEW y \in Ids(n)
        PROVE  f[y] = IF h[y].prev = NoBlock THEN <<h[y]>> ELSE Append(f[h[y].prev], h[y])
    <3>1. CASE h[y].prev = NoBlock
      BY <1>2, <3>1 DEF IsWalk
    <3>2. CASE h[y].prev # NoBlock
      <4>1. <<y, f[h[y].prev]>> \in Ids(n) \X V
        BY <1>3, <3>2
      <4>2. f[y] = st[<<y, f[h[y].prev]>>]
        BY <1>2, <3>2 DEF IsWalk
      <4>3. QED
        BY <3>2, <4>1, <4>2
    <3>3. QED
      BY <3>1, <3>2
  <2>2. DOMAIN h = Ids(n)
    BY DEF IsTree
  <2>3. QED
    BY <2>1, <2>2
<1>5. p = Body(p)
  <2> HIDE DEF Body
  <2>1. QED
    BY <1>4
<1>6. \A y : Chain(h, y) = p[y]
  BY Zenon DEF Chain
<1> HIDE DEF p
<1>7. DOMAIN h = Ids(n)
  BY DEF IsTree
<1>8. p[x] = IF h[x].prev = NoBlock THEN <<h[x]>> ELSE Append(p[h[x].prev], h[x])
  BY <1>5, <1>7
<1>9. QED
  BY <1>6, <1>8

\* Adding an object changes neither the paths nor the chains of the others.
LEMMA TreeGrows ==
    ASSUME NEW h, NEW n, IsTree(h, n), NEW g, IsTree(g, n + 1),
           \A x \in Ids(n) : g[x] = h[x]
    PROVE  \A x \in Ids(n) : Path(g, x) = Path(h, x) /\ Chain(g, x) = Chain(h, x)
<1> DEFINE S == {x \in Ids(n) : Path(g, x) = Path(h, x) /\ Chain(g, x) = Chain(h, x)}
<1>1. ASSUME NEW x \in Ids(n), h[x].prev = NoBlock \/ h[x].prev \in S
      PROVE  x \in S
  <2>1. x \in Ids(n + 1)
    BY DEF IsTree, Ids
  <2>2. /\ Path(h, x) = IF h[x].prev = NoBlock THEN {x} ELSE {x} \cup Path(h, h[x].prev)
        /\ Path(g, x) = IF g[x].prev = NoBlock THEN {x} ELSE {x} \cup Path(g, g[x].prev)
    BY <2>1, PathSteps
  <2>3. /\ Chain(h, x) = IF h[x].prev = NoBlock THEN <<h[x]>>
                         ELSE Append(Chain(h, h[x].prev), h[x])
        /\ Chain(g, x) = IF g[x].prev = NoBlock THEN <<g[x]>>
                         ELSE Append(Chain(g, g[x].prev), g[x])
    BY <2>1, ChainSteps
  <2>4. g[x] = h[x]
    OBVIOUS
  <2>5. QED
    BY <1>1, <2>2, <2>3, <2>4
<1> HIDE DEF S
<1>2. Ids(n) \subseteq S
  BY <1>1, TreeInduction
<1>3. QED
  BY <1>2 DEF S

\* Objects count their predecessors, so their chain is as long as they say.
HasLengths(h, n) ==
    \A x \in Ids(n) : h[x].length = LengthFrom(h, h[x].prev)

LEMMA ChainLength ==
    ASSUME NEW h, NEW n, IsTree(h, n), HasLengths(h, n)
    PROVE  \A x \in Ids(n) :
              /\ h[x].length \in Nat \ {0}
              /\ Chain(h, x) \in Seq({h[y] : y \in Path(h, x)})
              /\ Len(Chain(h, x)) = h[x].length
              /\ Chain(h, x)[h[x].length] = h[x]
<1> DEFINE Good(x) ==
              /\ h[x].length \in Nat \ {0}
              /\ Chain(h, x) \in Seq({h[y] : y \in Path(h, x)})
              /\ Len(Chain(h, x)) = h[x].length
              /\ Chain(h, x)[h[x].length] = h[x]
           S == {x \in Ids(n) : Good(x)}
<1>1. ASSUME NEW x \in Ids(n), h[x].prev = NoBlock \/ h[x].prev \in S
      PROVE  x \in S
  <2>1. CASE h[x].prev = NoBlock
    <3>1. h[x].length = 1 /\ Chain(h, x) = <<h[x]>> /\ Path(h, x) = {x}
      BY <2>1, ChainSteps, PathSteps DEF HasLengths, LengthFrom
    <3>2. {h[y] : y \in Path(h, x)} = {h[x]}
      BY <3>1
    <3>3. <<h[x]>> \in Seq({h[x]}) /\ Len(<<h[x]>>) = 1 /\ <<h[x]>>[1] = h[x]
      OBVIOUS
    <3>4. Chain(h, x) \in Seq({h[y] : y \in Path(h, x)})
      BY <3>1, <3>2, <3>3
    <3>5. /\ Len(Chain(h, x)) = h[x].length /\ h[x].length \in Nat \ {0}
          /\ Chain(h, x)[h[x].length] = h[x]
      BY <3>1, <3>3
    <3>6. QED
      BY <3>4, <3>5
  <2>2. CASE h[x].prev # NoBlock
    <3> DEFINE v == h[x].prev
               E == {h[y] : y \in Path(h, x)}
    <3>1. h[x].length = h[v].length + 1
      BY <2>2 DEF HasLengths, LengthFrom
    <3>2. Chain(h, x) = Append(Chain(h, v), h[x]) /\ Path(h, x) = {x} \cup Path(h, v)
      BY <2>2, ChainSteps, PathSteps
    <3>3. Good(v)
      BY <1>1, <2>2
    <3>4. {h[y] : y \in Path(h, v)} \subseteq E /\ h[x] \in E
      BY <3>2
    <3> HIDE DEF E
    <3>5. Chain(h, v) \in Seq(E)
      BY <3>3, <3>4
    <3>6. /\ Chain(h, x) \in Seq(E)
          /\ Len(Chain(h, x)) = Len(Chain(h, v)) + 1
          /\ Chain(h, x)[Len(Chain(h, v)) + 1] = h[x]
      BY <3>2, <3>4, <3>5
    <3>7. QED
      BY <3>1, <3>3, <3>6 DEF E
  <2>3. QED
    BY <2>1, <2>2
<1> HIDE DEF S
<1>2. Ids(n) \subseteq S
  BY <1>1, TreeInduction
<1>3. QED
  BY <1>2 DEF S

-----------------------------------------------------------------------------
(* readchain.                                                               *)

Valid(h, x) == IsValid(h, h[x].blk, h[x].prev)

\* Every object was made of a block of the pool after the predecessor that its
\* prev_hash names.
HasBlocks(h, n) ==
    \A x \in Ids(n) :
        /\ h[x].blk \in Pool
        /\ h[x].prev # NoBlock => h[h[x].prev].blk.hash = h[x].blk.prev

\* Nothing is built upon an object that failed to validate.
OnValid(h, n) == \A x \in Ids(n) : h[x].prev # NoBlock => Valid(h, h[x].prev)

\* The map sends the hashes of the objects that validated to the last of them.
MapOK ==
    /\ \A x \in DOMAIN heap : Valid(heap, x) => heap[x].blk.hash \in DOMAIN bmap
    /\ \A g \in DOMAIN bmap : /\ bmap[g] \in DOMAIN heap
                              /\ Valid(heap, bmap[g])
                              /\ heap[bmap[g]].blk.hash = g

\* The tip is the last object that validated.
TipOK ==
    IF DOMAIN bmap = {}
    THEN tip = NoBlock
    ELSE /\ tip \in DOMAIN heap
         /\ heap[tip].blk.hash \in DOMAIN bmap
         /\ bmap[heap[tip].blk.hash] = tip

\* The objects, map and tip of day4.
ReaderInv ==
    /\ \E n \in 0 .. MaxBlocks : /\ IsTree(heap, n) /\ HasLengths(heap, n)
                                 /\ HasBlocks(heap, n) /\ OnValid(heap, n)
    /\ MapOK
    /\ TipOK

\* g is h with the object of blk, read after v, added to its n objects.
IsAdded(g, h, n, blk, v) ==
    /\ IsTree(g, n + 1)
    /\ Ids(n + 1) = Ids(n) \cup {<<1, n + 1>>} /\ <<1, n + 1>> \notin Ids(n)
    /\ \A x \in Ids(n) : g[x] = h[x]
    /\ g[<<1, n + 1>>] = NewBlock(h, blk, v)
    /\ g[<<1, n + 1>>].blk = blk /\ g[<<1, n + 1>>].prev = v
    /\ \A x \in Ids(n) : h[x].prev \in Ids(n) \cup {NoBlock}
    /\ \A p \in Ids(n) \cup {NoBlock} :
          /\ StartBalances(g, p) = StartBalances(h, p)
          /\ LengthFrom(g, p) = LengthFrom(h, p)
          /\ \A x : IsValid(g, x, p) = IsValid(h, x, p)

LEMMA ObjectAdded ==
    ASSUME NEW h, NEW n, IsTree(h, n), NEW blk, NEW v, v = NoBlock \/ v \in Ids(n)
    PROVE  IsAdded(Put(h, <<1, n + 1>>, NewBlock(h, blk, v)), h, n, blk, v)
<1> DEFINE id == <<1, n + 1>>
           g == Put(h, id, NewBlock(h, blk, v))
<1>1. n \in Nat /\ n + 1 \in Nat /\ DOMAIN h = Ids(n)
  BY DEF IsTree
<1>2. Ids(n + 1) = Ids(n) \cup {id} /\ id \notin Ids(n) /\ NoBlock \notin Ids(n)
  BY <1>1 DEF Ids, NoBlock
<1>3. /\ DOMAIN g = Ids(n + 1)
      /\ \A x \in Ids(n) : g[x] = h[x]
      /\ g[id] = NewBlock(h, blk, v)
  BY <1>1, <1>2 DEF Put
<1> HIDE DEF g
<1>4. g[id].blk = blk /\ g[id].prev = v
  BY <1>3 DEF NewBlock
<1>5. ASSUME NEW k \in 1 .. n + 1
      PROVE  \/ g[<<1, k>>].prev = NoBlock
             \/ \E j \in 1 .. k - 1 : g[<<1, k>>].prev = <<1, j>>
  <2>1. CASE k = n + 1
    BY <1>1, <1>4, <2>1 DEF Ids
  <2>2. CASE k # n + 1
    <3>1. k \in 1 .. n /\ <<1, k>> \in Ids(n)
      BY <1>1, <2>2 DEF Ids
    <3>2. QED
      BY <1>3, <3>1 DEF IsTree
  <2>3. QED
    BY <2>1, <2>2
<1>6. IsTree(g, n + 1)
  BY <1>1, <1>3, <1>5, Zenon DEF IsTree
<1>7. \A x \in Ids(n) : h[x].prev \in Ids(n) \cup {NoBlock}
  BY DEF IsTree, Ids
<1>8. ASSUME NEW p \in Ids(n) \cup {NoBlock}
      PROVE  StartBalances(g, p) = StartBalances(h, p) /\ LengthFrom(g, p) = LengthFrom(h, p)
  BY <1>2, <1>3 DEF StartBalances, LengthFrom
<1>9. \A p \in Ids(n) \cup {NoBlock} : \A x : IsValid(g, x, p) = IsValid(h, x, p)
  BY <1>8 DEF IsValid
<1>10. IsAdded(g, h, n, blk, v)
  BY <1>2, <1>3, <1>4, <1>6, <1>7, <1>8, <1>9 DEF IsAdded
<1>11. QED
  BY <1>10 DEF g

LEMMA LengthsGrow ==
    ASSUME NEW g, NEW h, NEW n, NEW blk, NEW v, IsAdded(g, h, n, blk, v),
           v = NoBlock \/ v \in Ids(n)
    PROVE  /\ HasLengths(h, n) => HasLengths(g, n + 1)
           /\ (HasBlocks(h, n) /\ blk \in Pool
                 /\ (v # NoBlock => h[v].blk.hash = blk.prev)) => HasBlocks(g, n + 1)
<1> DEFINE id == <<1, n + 1>>
<1>1. g[id].length = LengthFrom(h, v)
  BY DEF NewBlock, IsAdded
<1>2. ASSUME HasLengths(h, n) PROVE HasLengths(g, n + 1)
  <2>1. \A x \in Ids(n) : g[x].length = LengthFrom(g, g[x].prev)
    BY <1>2 DEF HasLengths, IsAdded
  <2>2. g[id].length = LengthFrom(g, g[id].prev)
    BY <1>1 DEF IsAdded
  <2>3. QED
    BY <2>1, <2>2 DEF HasLengths, IsAdded
<1>3. ASSUME HasBlocks(h, n), blk \in Pool, v # NoBlock => h[v].blk.hash = blk.prev
      PROVE  HasBlocks(g, n + 1)
  <2>1. ASSUME NEW x \in Ids(n)
        PROVE  g[x].blk \in Pool /\ (g[x].prev # NoBlock => g[g[x].prev].blk.hash = g[x].blk.prev)
    BY <1>3 DEF HasBlocks, IsAdded
  <2>2. g[id].blk \in Pool /\ (g[id].prev # NoBlock => g[g[id].prev].blk.hash = g[id].blk.prev)
    BY <1>3 DEF IsAdded
  <2>3. QED
    BY <2>1, <2>2 DEF HasBlocks, IsAdded
<1>4. QED
  BY <1>2, <1>3

\* One turn of the loop.
LEMMA ReadEffect ==
    ASSUME ReaderInv, NEW blk \in Pool, Read(blk)
    PROVE  \E n \in 0 .. MaxBlocks - 1 :
              LET id == <<1, n + 1>>
                  v  == Predecessor(blk, bmap)
                  ok == IsValid(heap, blk, v)
              IN  /\ IsTree(heap, n) /\ HasLengths(heap, n)
                  /\ HasBlocks(heap, n) /\ OnValid(heap, n)
                  /\ v = NoBlock \/ (v \in Ids(n) /\ Valid(heap, v) /\ heap[v].blk.hash = blk.prev)
                  /\ heap' = Put(heap, id, NewBlock(heap, blk, v))
                  /\ bmap' = IF ok THEN Put(bmap, blk.hash, id) ELSE bmap
                  /\ tip' = IF ok THEN id ELSE tip
<1>1. PICK n \in 0 .. MaxBlocks : /\ IsTree(heap, n) /\ HasLengths(heap, n)
                                  /\ HasBlocks(heap, n) /\ OnValid(heap, n)
  BY DEF ReaderInv
<1> DEFINE id == <<1, n + 1>>
           v  == Predecessor(blk, bmap)
           ok == IsValid(heap, blk, v)
<1>2. Cardinality(DOMAIN heap) = n
  BY <1>1, IdsAreCounted DEF IsTree
<1>3. /\ n < MaxBlocks
      /\ heap' = Put(heap, id, NewBlock(heap, blk, v))
      /\ bmap' = IF ok THEN Put(bmap, blk.hash, id) ELSE bmap
      /\ tip' = IF ok THEN id ELSE tip
  BY <1>2, Zenon DEF Read, ReadBlock
<1>4. v = NoBlock \/ (v \in Ids(n) /\ Valid(heap, v) /\ heap[v].blk.hash = blk.prev)
  <2>1. CASE blk.prev # Zero /\ blk.prev \in DOMAIN bmap
    <3>1. v = bmap[blk.prev]
      BY <2>1 DEF Predecessor
    <3>2. DOMAIN heap = Ids(n) /\ MapOK
      BY <1>1 DEF IsTree, ReaderInv
    <3>3. QED
      BY <2>1, <3>1, <3>2 DEF MapOK
  <2>2. CASE ~(blk.prev # Zero /\ blk.prev \in DOMAIN bmap)
    <3>1. v = NoBlock
      BY <2>2, Zenon DEF Predecessor
    <3>2. QED
      BY <3>1, Zenon
  <2>3. QED
    BY <2>1, <2>2
<1>5. n \in 0 .. MaxBlocks - 1
  BY <1>3, FileAssumption
<1>6. QED
  BY <1>1, <1>3, <1>4, <1>5, Zenon

\* A fresh object leaves what the others are worth alone.
LEMMA ValidStays ==
    ASSUME NEW g, NEW h, NEW n, NEW blk, NEW v, IsAdded(g, h, n, blk, v),
           v = NoBlock \/ v \in Ids(n)
    PROVE  /\ \A x \in Ids(n) : Valid(g, x) = Valid(h, x)
           /\ Valid(g, <<1, n + 1>>) = IsValid(h, blk, v)
  BY DEF IsAdded, Valid

LEMMA ReadKeepsInv ==
    ASSUME ReaderInv, NEW blk \in Pool, Read(blk)
    PROVE  ReaderInv'
<1> DEFINE v  == Predecessor(blk, bmap)
           ok == IsValid(heap, blk, v)
<1>1. PICK n \in 0 .. MaxBlocks - 1 :
          /\ IsTree(heap, n) /\ HasLengths(heap, n)
          /\ HasBlocks(heap, n) /\ OnValid(heap, n)
          /\ v = NoBlock \/ (v \in Ids(n) /\ Valid(heap, v) /\ heap[v].blk.hash = blk.prev)
          /\ heap' = Put(heap, <<1, n + 1>>, NewBlock(heap, blk, v))
          /\ bmap' = IF ok THEN Put(bmap, blk.hash, <<1, n + 1>>) ELSE bmap
          /\ tip' = IF ok THEN <<1, n + 1>> ELSE tip
  BY ReadEffect, Zenon
<1> DEFINE id == <<1, n + 1>>
<1> HIDE DEF v, ok
<1>2. IsAdded(heap', heap, n, blk, v)
  BY <1>1, ObjectAdded
<1>3. n + 1 \in 0 .. MaxBlocks /\ IsTree(heap', n + 1) /\ DOMAIN heap' = Ids(n + 1)
  <2>1. IsTree(heap', n + 1)
    BY <1>2 DEF IsAdded
  <2>2. DOMAIN heap' = Ids(n + 1)
    BY <2>1 DEF IsTree
  <2>3. n + 1 \in 0 .. MaxBlocks
    BY FileAssumption
  <2>4. QED
    BY <2>1, <2>2, <2>3
<1>4. HasLengths(heap', n + 1) /\ HasBlocks(heap', n + 1)
  BY <1>1, <1>2, LengthsGrow
<1>5. DOMAIN heap = Ids(n) /\ NoBlock \notin Ids(n + 1)
  BY <1>1 DEF IsTree, Ids, NoBlock
<1>6. /\ Ids(n + 1) = Ids(n) \cup {id} /\ id \notin Ids(n)
      /\ \A x \in Ids(n) : heap'[x] = heap[x]
      /\ heap'[id].blk = blk /\ heap'[id].prev = v
      /\ \A x \in Ids(n) : heap[x].prev \in Ids(n) \cup {NoBlock}
  BY <1>2 DEF IsAdded
<1>7. (\A x \in Ids(n) : Valid(heap', x) = Valid(heap, x)) /\ Valid(heap', id) = ok
  BY <1>1, <1>2, ValidStays DEF ok
<1>8. OnValid(heap', n + 1)
  BY <1>1, <1>6, <1>7 DEF OnValid
<1>9. MapOK /\ TipOK
  BY DEF ReaderInv
<1>10. CASE ok
  <2>1. /\ DOMAIN bmap' = DOMAIN bmap \cup {blk.hash} /\ bmap'[blk.hash] = id
        /\ \A g \in DOMAIN bmap : g # blk.hash => bmap'[g] = bmap[g]
    BY <1>1, <1>10 DEF Put
  <2>2. tip' = id
    BY <1>1, <1>10
  <2>3. MapOK'
    <3>1. ASSUME NEW x \in Ids(n + 1), Valid(heap', x)
          PROVE  heap'[x].blk.hash \in DOMAIN bmap'
      BY <1>5, <1>6, <1>7, <1>9, <2>1, <3>1 DEF MapOK
    <3>2. ASSUME NEW g \in DOMAIN bmap'
          PROVE  /\ bmap'[g] \in Ids(n + 1) /\ Valid(heap', bmap'[g])
                 /\ heap'[bmap'[g]].blk.hash = g
      <4>1. CASE g = blk.hash
        BY <1>6, <1>7, <1>10, <2>1, <4>1
      <4>2. CASE g # blk.hash
        BY <1>5, <1>6, <1>7, <1>9, <2>1, <4>2 DEF MapOK
      <4>3. QED
        BY <4>1, <4>2
    <3>3. QED
      BY <1>3, <3>1, <3>2 DEF MapOK
  <2>4. TipOK'
    BY <1>3, <1>6, <2>1, <2>2 DEF TipOK
  <2>5. QED
    BY <1>3, <1>4, <1>8, <2>3, <2>4 DEF ReaderInv
<1>11. CASE ~ok
  <2>1. bmap' = bmap /\ tip' = tip
    BY <1>1, <1>11
  <2>2. \A g \in DOMAIN bmap : bmap[g] \in Ids(n) /\ bmap[g] \in Ids(n + 1)
    BY <1>5, <1>6, <1>9 DEF MapOK
  <2>3. MapOK'
    BY <1>3, <1>5, <1>6, <1>7, <1>9, <1>11, <2>1, <2>2 DEF MapOK
  <2>4. TipOK'
    <3>1. CASE DOMAIN bmap = {}
      BY <1>9, <2>1, <3>1 DEF TipOK
    <3>2. CASE DOMAIN bmap # {}
      BY <1>3, <1>5, <1>6, <1>7, <1>9, <2>1, <2>2, <3>2 DEF TipOK
    <3>3. QED
      BY <3>1, <3>2
  <2>5. QED
    BY <1>3, <1>4, <1>8, <2>3, <2>4 DEF ReaderInv
<1>12. QED
  BY <1>10, <1>11

LEMMA ReaderInvariance == Spec => []ReaderInv
<1>1. Init => ReaderInv
  <2> SUFFICES ASSUME Init PROVE ReaderInv
    OBVIOUS
  <2>1. DOMAIN heap = {} /\ DOMAIN bmap = {} /\ Ids(0) = {}
    BY DEF Init, NoMap, Ids
  <2>2. /\ IsTree(heap, 0) /\ HasLengths(heap, 0)
        /\ HasBlocks(heap, 0) /\ OnValid(heap, 0)
    BY <2>1 DEF IsTree, HasLengths, HasBlocks, OnValid
  <2>3. MapOK /\ TipOK
    BY <2>1 DEF MapOK, TipOK, Init
  <2>4. QED
    BY <2>2, <2>3, FileAssumption DEF ReaderInv
<1>2. ReaderInv /\ [Next]_vars => ReaderInv'
  <2>1. ASSUME ReaderInv, UNCHANGED vars PROVE ReaderInv'
    BY <2>1 DEF vars, ReaderInv, MapOK, TipOK
  <2>2. QED
    BY <2>1, ReadKeepsInv DEF Next, ReadNext
<1>3. QED
  BY <1>1, <1>2, PTL DEF Spec

\* The predecessors of an object are shorter.
LEMMA PathShorter ==
    ASSUME NEW h, NEW n, IsTree(h, n), HasLengths(h, n), NEW x \in Ids(n)
    PROVE  \A y \in Path(h, x) : y # x => h[y].length < h[x].length
<1> DEFINE S == {y \in Ids(n) : \A z \in Path(h, y) : z # y => h[z].length < h[y].length}
<1>1. ASSUME NEW y \in Ids(n), h[y].prev = NoBlock \/ h[y].prev \in S
      PROVE  y \in S
  <2>1. Path(h, y) = IF h[y].prev = NoBlock THEN {y} ELSE {y} \cup Path(h, h[y].prev)
    BY PathSteps
  <2>2. CASE h[y].prev = NoBlock
    BY <2>1, <2>2
  <2>3. CASE h[y].prev # NoBlock
    <3> DEFINE v == h[y].prev
    <3>1. v \in S /\ v \in Ids(n) /\ Path(h, y) = {y} \cup Path(h, v)
      BY <1>1, <2>1, <2>3
    <3>2. h[y].length = h[v].length + 1
      BY <2>3 DEF HasLengths, LengthFrom
    <3>3. Path(h, v) \subseteq Ids(n)
      BY <3>1, PathClosed
    <3>4. ASSUME NEW z \in Path(h, y), z # y PROVE h[z].length < h[y].length
      <4>1. z \in Path(h, v) /\ h[z].length \in Nat /\ h[v].length \in Nat
        BY <3>1, <3>3, <3>4, ChainLength
      <4>2. z = v \/ h[z].length < h[v].length
        BY <3>1, <4>1
      <4>3. QED
        BY <3>2, <4>1, <4>2
    <3>5. QED
      BY <3>4
  <2>4. QED
    BY <2>2, <2>3
<1> HIDE DEF S
<1>2. Ids(n) \subseteq S
  BY <1>1, TreeInduction
<1>3. QED
  BY <1>2 DEF S

\* The predecessors of an object that validated have validated.
LEMMA PathsAreValid ==
    ASSUME NEW h, NEW n, IsTree(h, n), OnValid(h, n), NEW x \in Ids(n), Valid(h, x)
    PROVE  \A y \in Path(h, x) : Valid(h, y)
<1> SUFFICES ASSUME NEW y \in Path(h, x), y # x PROVE Valid(h, y)
  OBVIOUS
<1>1. y \in Ids(n) /\ \E z \in Path(h, x) : h[z].prev = y
  BY PathClosed
<1>2. y # NoBlock
  BY <1>1 DEF Ids, NoBlock
<1>3. Path(h, x) \subseteq Ids(n)
  BY PathClosed
<1>4. QED
  BY <1>1, <1>2, <1>3 DEF OnValid

\* Nothing that failed to validate is ever built upon: see ChainsAreValid.
THEOREM NoChainOnInvalid == Spec => []ChainsAreValid
<1>1. ReaderInv => ChainsAreValid
  <2> SUFFICES ASSUME ReaderInv, NEW g \in DOMAIN bmap, NEW y \in Path(heap, bmap[g])
               PROVE  Valid(heap, y)
    BY DEF ChainsAreValid, Accepted, Valid
  <2>1. PICK n \in 0 .. MaxBlocks : IsTree(heap, n) /\ OnValid(heap, n)
    BY DEF ReaderInv
  <2>2. bmap[g] \in Ids(n) /\ Valid(heap, bmap[g])
    BY <2>1 DEF ReaderInv, MapOK, IsTree
  <2>3. QED
    BY <2>1, <2>2, PathsAreValid
<1>2. QED
  BY <1>1, ReaderInvariance, PTL

\* Blocks with a true hash, which a block that validated is.
Hashed == {x \in Pool : x.hashed}

LEMMA ValidIsHashed ==
    ASSUME NEW h, NEW n, HasBlocks(h, n), NEW x \in Ids(n), Valid(h, x)
    PROVE  h[x].blk \in Hashed
  BY DEF HasBlocks, Valid, IsValid, Validate, Hashed

LEMMA HashesAreTrusted ==
    /\ \A x, y \in Hashed : x.hash = y.hash => SayTheSame(x, y)
    /\ \A H \in SUBSET {x.hash : x \in Hashed} :
          H # {} => \E x \in Hashed : x.hash \in H /\ x.prev \notin H
  BY FileAssumption DEF HashAssumption, Hashed

\* On a file without forks an object is as long as any with its hash.
LEMMA SameHashNoLonger ==
    ASSUME ReaderInv, NEW n, IsTree(heap, n), HasLengths(heap, n),
           HasBlocks(heap, n), OnValid(heap, n), DOMAIN bmap # {},
           DOMAIN bmap = {heap[y].blk.hash : y \in Path(heap, tip)}
    PROVE  \A y \in Path(heap, tip), z \in Ids(n) :
              Valid(heap, z) /\ heap[z].blk.hash = heap[y].blk.hash
                 => heap[z].length <= heap[y].length
<1> DEFINE P == Path(heap, tip)
           S == {y \in P : \A z \in Ids(n) :
                             Valid(heap, z) /\ heap[z].blk.hash = heap[y].blk.hash
                                => heap[z].length <= heap[y].length}
<1>1. DOMAIN heap = Ids(n) /\ MapOK /\ TipOK
  BY DEF IsTree, ReaderInv
<1>2. tip \in Ids(n) /\ Valid(heap, tip)
  BY <1>1 DEF TipOK, MapOK
<1>3. P \subseteq Ids(n) /\ \A y \in P : Valid(heap, y)
  BY <1>2, PathClosed, PathsAreValid
<1>4. \A y \in Ids(n) : Valid(heap, y) => heap[y].blk \in Hashed
  BY ValidIsHashed
<1>5. \A y, z \in Ids(n) : /\ Valid(heap, y) /\ Valid(heap, z)
                           /\ heap[y].blk.hash = heap[z].blk.hash
                           => heap[y].blk.prev = heap[z].blk.prev
  BY <1>4, HashesAreTrusted DEF SayTheSame
<1>6. \A y \in Ids(n) : heap[y].prev # NoBlock =>
         /\ heap[y].prev \in Ids(n) /\ Valid(heap, heap[y].prev)
         /\ heap[heap[y].prev].blk.hash = heap[y].blk.prev
         /\ heap[y].blk.prev \in DOMAIN bmap
  <2>1. \A y \in Ids(n) : heap[y].prev # NoBlock => heap[y].prev \in Ids(n)
    BY PrevIsKnown
  <2>2. QED
    BY <1>1, <2>1 DEF OnValid, HasBlocks, MapOK
<1>7. \A y \in Ids(n) : heap[y].length \in Nat \ {0}
  BY ChainLength
<1>8. \A y \in Ids(n) : heap[y].length = IF heap[y].prev = NoBlock THEN 1
                                         ELSE heap[heap[y].prev].length + 1
  BY DEF HasLengths, LengthFrom
<1>9. PICK t \in Hashed : t.hash \in DOMAIN bmap /\ t.prev \notin DOMAIN bmap
  <2>1. DOMAIN bmap \in SUBSET {x.hash : x \in Hashed}
    BY <1>3, <1>4
  <2>2. QED
    BY <2>1, HashesAreTrusted
<1>10. PICK y0 \in P : heap[y0].blk.hash = t.hash
  BY <1>9
<1>11. heap[y0].blk.prev \notin DOMAIN bmap /\ heap[y0].prev = NoBlock
  <2>1. heap[y0].blk.prev = t.prev
    BY <1>3, <1>4, <1>10, HashesAreTrusted DEF SayTheSame
  <2>2. QED
    BY <1>3, <1>6, <1>9, <1>10, <2>1
<1>12. ASSUME NEW y \in P, heap[y].prev = NoBlock \/ heap[y].prev \in S
       PROVE  y \in S
  <2> SUFFICES ASSUME NEW z \in Ids(n), Valid(heap, z), heap[z].blk.hash = heap[y].blk.hash
               PROVE  heap[z].length <= heap[y].length
    OBVIOUS
  <2>1. y \in Ids(n) /\ Valid(heap, y) /\ heap[z].blk.prev = heap[y].blk.prev
    BY <1>3, <1>5
  <2>2. CASE heap[z].prev = NoBlock
    BY <1>7, <1>8, <2>1, <2>2
  <2>3. CASE heap[z].prev # NoBlock
    <3>1. heap[y].prev # NoBlock
      <4>1. heap[y].blk.prev \in DOMAIN bmap
        BY <1>6, <2>1, <2>3
      <4>2. y # y0
        BY <1>11, <4>1
      <4>3. QED
        BY <1>2, <1>10, <1>11, <4>2, PathClosed
    <3>2. heap[y].prev \in S
      BY <1>12, <3>1
    <3>3. heap[heap[z].prev].blk.hash = heap[heap[y].prev].blk.hash
      BY <1>6, <2>1, <2>3, <3>1
    <3>4. heap[heap[z].prev].length <= heap[heap[y].prev].length
      BY <1>6, <2>3, <3>2, <3>3
    <3>5. QED
      BY <1>6, <1>7, <1>8, <2>1, <2>3, <3>1, <3>4
  <2>4. QED
    BY <2>2, <2>3
<1> HIDE DEF S
<1>13. P \subseteq S
  BY <1>2, <1>12, PathInduction
<1>14. QED
  BY <1>13 DEF S

TxnsOf(x) == [source : {t.source : t \in ToSet(x.txs)},
              dest   : {t.dest   : t \in ToSet(x.txs)},
              change : {t.change : t \in ToSet(x.txs)},
              amount : Nat, signed : BOOLEAN]

\* Blocks of the pool have transactions with amounts.
LEMMA PoolHasBlocks == \A x \in Pool : IsBlock(x)
<1> SUFFICES ASSUME NEW x \in Pool PROVE IsBlock(x)
  OBVIOUS
<1>1. x.txs \in Seq(TxnsOf(x))
  BY FileAssumption DEF TxnsOf
<1>2. \A t \in TxnsOf(x) : t.amount \in Int
  BY DEF TxnsOf
<1>3. /\ DOMAIN x.txs = 1 .. Len(x.txs) /\ Len(x.txs) \in Nat
      /\ \A i \in DOMAIN x.txs : x.txs[i] \in TxnsOf(x)
  BY <1>1
<1>4. QED
  BY <1>2, <1>3 DEF IsBlock

LEMMA NoBalancesIsMap == IsMap(NoBalances)
  BY FS_EmptySet DEF IsMap, NoBalances

\* The objects that day1 reads, its map, and its tip, which is a longest.
LongestOK ==
    IF DOMAIN bmap1 = {}
    THEN longest = NoBlock
    ELSE /\ longest \in DOMAIN heap1
         /\ \A g \in DOMAIN bmap1 : /\ bmap1[g] \in DOMAIN heap1
                                    /\ heap1[bmap1[g]].length <= heap1[longest].length

Day1Inv ==
    /\ \E n \in Nat : DOMAIN heap = Ids(n) /\ IsTree(heap1, n) /\ HasLengths(heap1, n)
    /\ LongestOK

\* Both versions see the same blocks, and if no amount is zero they accept the
\* same ones, with the same lengths and balances.
SameObject(x) ==
    /\ heap1[x].blk = heap[x].blk /\ heap1[x].length = heap[x].length
    /\ Valid(heap, x) => /\ heap1[x].balances = heap[x].balances
                         /\ IsMap(heap[x].balances)

SameReading ==
    NoZeroAmounts =>
        /\ bmap1 = bmap
        /\ longest # NoBlock => Valid(heap, longest)
        /\ \A x \in DOMAIN heap : SameObject(x)

\* One turn of the loop of day1.
LEMMA ReadDay1Effect ==
    ASSUME Day1Inv, NEW n \in Nat, DOMAIN heap = Ids(n), NEW blk \in Pool, ReadDay1(blk)
    PROVE  LET id == <<1, n + 1>>
               v  == Predecessor(blk, bmap1)
               ok == IsValidDay1(heap1, blk, v)
           IN  /\ IsTree(heap1, n) /\ HasLengths(heap1, n)
               /\ v = NoBlock \/ v \in Ids(n)
               /\ heap1' = Put(heap1, id, NewBlockDay1(heap1, blk, v))
               /\ bmap1' = IF ok THEN Put(bmap1, blk.hash, id) ELSE bmap1
               /\ longest' = IF ok THEN LongerOf(heap1', longest, id) ELSE longest
<1> DEFINE v == Predecessor(blk, bmap1)
<1>1. IsTree(heap1, n) /\ HasLengths(heap1, n)
  <2>1. PICK m \in Nat : DOMAIN heap = Ids(m) /\ IsTree(heap1, m) /\ HasLengths(heap1, m)
    BY DEF Day1Inv
  <2>2. m = n
    BY <2>1, IdsAreCounted
  <2>3. QED
    BY <2>1, <2>2
<1>2. Cardinality(DOMAIN heap1) = n /\ DOMAIN heap1 = Ids(n)
  BY <1>1, IdsAreCounted DEF IsTree
<1>3. v = NoBlock \/ v \in Ids(n)
  <2>1. CASE blk.prev # Zero /\ blk.prev \in DOMAIN bmap1
    <3>1. v = bmap1[blk.prev]
      BY <2>1 DEF Predecessor
    <3>2. QED
      BY <1>2, <2>1, <3>1 DEF Day1Inv, LongestOK
  <2>2. CASE ~(blk.prev # Zero /\ blk.prev \in DOMAIN bmap1)
    <3>1. v = NoBlock
      BY <2>2, Zenon DEF Predecessor
    <3>2. QED
      BY <3>1, Zenon
  <2>3. QED
    BY <2>1, <2>2
<1>4. QED
  BY <1>1, <1>2, <1>3, Zenon DEF ReadDay1

\* The new object of day1 and what it leaves alone.
LEMMA ObjectAddedDay1 ==
    ASSUME NEW h, NEW n, IsTree(h, n), HasLengths(h, n),
           NEW blk, NEW v, v = NoBlock \/ v \in Ids(n),
           NEW g, g = Put(h, <<1, n + 1>>, NewBlockDay1(h, blk, v))
    PROVE  /\ IsTree(g, n + 1) /\ HasLengths(g, n + 1)
           /\ \A x \in Ids(n) : g[x] = h[x]
           /\ g[<<1, n + 1>>] = NewBlockDay1(h, blk, v)
<1> DEFINE id == <<1, n + 1>>
<1>1. n \in Nat /\ n + 1 \in Nat /\ DOMAIN h = Ids(n)
  BY DEF IsTree
<1>2. Ids(n + 1) = Ids(n) \cup {id} /\ id \notin Ids(n) /\ NoBlock \notin Ids(n)
  BY <1>1 DEF Ids, NoBlock
<1>3. /\ DOMAIN g = Ids(n + 1)
      /\ \A x \in Ids(n) : g[x] = h[x]
      /\ g[id] = NewBlockDay1(h, blk, v)
  BY <1>1, <1>2 DEF Put
<1>4. g[id].blk = blk /\ g[id].prev = v /\ g[id].length = LengthFrom(h, v)
  BY <1>3 DEF NewBlockDay1
<1>5. ASSUME NEW k \in 1 .. n + 1
      PROVE  \/ g[<<1, k>>].prev = NoBlock
             \/ \E j \in 1 .. k - 1 : g[<<1, k>>].prev = <<1, j>>
  <2>1. CASE k = n + 1
    BY <1>1, <1>4, <2>1 DEF Ids
  <2>2. CASE k # n + 1
    <3>1. k \in 1 .. n /\ <<1, k>> \in Ids(n)
      BY <1>1, <2>2 DEF Ids
    <3>2. QED
      BY <1>3, <3>1 DEF IsTree
  <2>3. QED
    BY <2>1, <2>2
<1>6. IsTree(g, n + 1)
  BY <1>1, <1>3, <1>5, Zenon DEF IsTree
<1>7. \A x \in Ids(n) : h[x].prev \in Ids(n) \cup {NoBlock}
  BY DEF IsTree, Ids
<1>8. \A p \in Ids(n) \cup {NoBlock} : LengthFrom(g, p) = LengthFrom(h, p)
  BY <1>2, <1>3 DEF LengthFrom
<1>9. HasLengths(g, n + 1)
  BY <1>2, <1>3, <1>4, <1>7, <1>8 DEF HasLengths
<1>10. QED
  BY <1>3, <1>6, <1>9

\* A longer chain replaces the tip.
LEMMA LongestFollows ==
    ASSUME Day1Inv, NEW n \in Nat, DOMAIN heap = Ids(n), NEW blk \in Pool,
           Read(blk), ReadDay1(blk), DOMAIN heap' = Ids(n + 1)
    PROVE  Day1Inv'
<1> DEFINE v  == Predecessor(blk, bmap1)
           ok == IsValidDay1(heap1, blk, v)
           id == <<1, n + 1>>
<1>1. /\ IsTree(heap1, n) /\ HasLengths(heap1, n)
      /\ v = NoBlock \/ v \in Ids(n)
      /\ heap1' = Put(heap1, id, NewBlockDay1(heap1, blk, v))
      /\ bmap1' = IF ok THEN Put(bmap1, blk.hash, id) ELSE bmap1
      /\ longest' = IF ok THEN LongerOf(heap1', longest, id) ELSE longest
  BY ReadDay1Effect
<1> HIDE DEF v, ok
<1>2. PICK g : g = heap1'
  OBVIOUS
<1>3. /\ IsTree(g, n + 1) /\ HasLengths(g, n + 1)
      /\ \A x \in Ids(n) : g[x] = heap1[x]
  BY <1>1, <1>2, ObjectAddedDay1
<1>4. /\ n + 1 \in Nat /\ DOMAIN g = Ids(n + 1) /\ DOMAIN heap1 = Ids(n)
      /\ Ids(n + 1) = Ids(n) \cup {id} /\ NoBlock \notin Ids(n + 1)
  BY <1>1, <1>3 DEF IsTree, Ids, NoBlock
<1>5. \A x \in Ids(n + 1) : g[x].length \in Nat
  BY <1>3, ChainLength
<1>6. LongestOK
  BY DEF Day1Inv
<1>7. CASE ~ok
  <2>1. bmap1' = bmap1 /\ longest' = longest
    BY <1>1, <1>7
  <2>2. LongestOK'
    BY <1>2, <1>3, <1>4, <1>6, <2>1 DEF LongestOK
  <2>3. QED
    BY <1>2, <1>3, <1>4, <2>2 DEF Day1Inv
<1>8. CASE ok
  <2>1. /\ DOMAIN bmap1' = DOMAIN bmap1 \cup {blk.hash} /\ bmap1'[blk.hash] = id
        /\ \A h \in DOMAIN bmap1 : h # blk.hash => bmap1'[h] = bmap1[h]
    BY <1>1, <1>8 DEF Put
  <2>2. longest' = IF longest = NoBlock \/ g[longest].length < g[id].length
                   THEN id ELSE longest
    BY <1>1, <1>2, <1>8 DEF LongerOf
  <2>3. \A h \in DOMAIN bmap1 : /\ bmap1[h] \in Ids(n) /\ longest \in Ids(n)
                                /\ g[bmap1[h]].length <= g[longest].length
    BY <1>3, <1>4, <1>6 DEF LongestOK
  <2>4. longest = NoBlock \/ longest \in Ids(n)
    BY <1>4, <1>6 DEF LongestOK
  <2>5. /\ longest' \in Ids(n + 1) /\ g[id].length <= g[longest'].length
        /\ longest # NoBlock => g[longest].length <= g[longest'].length
    BY <1>4, <1>5, <2>2, <2>4
  <2>6. ASSUME NEW h \in DOMAIN bmap1'
        PROVE  bmap1'[h] \in Ids(n + 1) /\ g[bmap1'[h]].length <= g[longest'].length
    <3>1. CASE h = blk.hash
      BY <1>4, <2>1, <2>5, <3>1
    <3>2. CASE h # blk.hash
      <4>1. bmap1'[h] = bmap1[h] /\ h \in DOMAIN bmap1
        BY <2>1, <3>2
      <4>2. bmap1[h] \in Ids(n + 1) /\ longest \in Ids(n + 1) /\ longest # NoBlock
        BY <1>4, <2>3, <4>1
      <4>3. /\ g[bmap1[h]].length \in Nat /\ g[longest].length \in Nat
            /\ g[longest'].length \in Nat
        BY <1>5, <2>5, <4>2
      <4>4. QED
        BY <2>3, <2>5, <4>1, <4>2, <4>3
    <3>3. QED
      BY <3>1, <3>2
  <2>7. LongestOK'
    BY <1>2, <1>4, <2>1, <2>5, <2>6 DEF LongestOK
  <2>8. QED
    BY <1>2, <1>3, <1>4, <2>7 DEF Day1Inv
<1>9. QED
  BY <1>7, <1>8

\* Blocks without zero amounts are the same to both versions.
LEMMA ReadingStaysTheSame ==
    ASSUME ReaderInv, Day1Inv, SameReading, NEW blk \in Pool, Read(blk), ReadDay1(blk),
           NoZeroAmounts'
    PROVE  /\ bmap1' = bmap'
           /\ longest' # NoBlock => Valid(heap', longest')
           /\ \A x \in DOMAIN heap' : SameObject(x)'
<1> DEFINE v  == Predecessor(blk, bmap)
           ok == IsValid(heap, blk, v)
<1>1. PICK n \in 0 .. MaxBlocks - 1 :
          /\ IsTree(heap, n) /\ HasLengths(heap, n)
          /\ HasBlocks(heap, n) /\ OnValid(heap, n)
          /\ v = NoBlock \/ (v \in Ids(n) /\ Valid(heap, v) /\ heap[v].blk.hash = blk.prev)
          /\ heap' = Put(heap, <<1, n + 1>>, NewBlock(heap, blk, v))
          /\ bmap' = IF ok THEN Put(bmap, blk.hash, <<1, n + 1>>) ELSE bmap
          /\ tip' = IF ok THEN <<1, n + 1>> ELSE tip
  BY ReadEffect, Zenon
<1> DEFINE id    == <<1, n + 1>>
           owned == StartBalances(heap, v)
<1>2. IsAdded(heap', heap, n, blk, v) /\ DOMAIN heap = Ids(n) /\ n \in Nat
  BY <1>1, ObjectAdded DEF IsTree
<1>3. /\ DOMAIN heap' = Ids(n + 1) /\ Ids(n + 1) = Ids(n) \cup {id} /\ id \notin Ids(n)
      /\ \A x \in Ids(n) : heap'[x] = heap[x]
      /\ heap'[id] = NewBlock(heap, blk, v) /\ heap'[id].blk = blk
  BY <1>2 DEF IsAdded, IsTree
<1>4. NoZeroAmounts /\ \A tx \in ToSet(blk.txs) : tx.amount > 0
  <2>1. \A x \in Ids(n) : \A tx \in ToSet(heap[x].blk.txs) : tx.amount > 0
    BY <1>3 DEF NoZeroAmounts
  <2>2. \A tx \in ToSet(blk.txs) : tx.amount > 0
    BY <1>3 DEF NoZeroAmounts
  <2>3. QED
    BY <1>2, <2>1, <2>2 DEF NoZeroAmounts
<1>5. /\ bmap1 = bmap
      /\ longest # NoBlock => Valid(heap, longest)
      /\ \A x \in Ids(n) : SameObject(x)
  BY <1>2, <1>4 DEF SameReading
<1>6. IsBlock(blk) /\ IsMap(owned) /\ StartBalances(heap1, v) = owned
  <2>1. CASE v = NoBlock
    BY <2>1, PoolHasBlocks, NoBalancesIsMap DEF StartBalances
  <2>2. CASE v # NoBlock
    BY <1>1, <1>5, <2>2, PoolHasBlocks DEF StartBalances, SameObject
  <2>3. QED
    BY <2>1, <2>2
<1>7. /\ IsValidDay1(heap1, blk, v) <=> ok
      /\ ok => /\ ValidateDay1(blk, owned).balances = Validate(blk, owned).balances
               /\ IsMap(Validate(blk, owned).balances)
  <2>1. \A i \in DOMAIN blk.txs : blk.txs[i].amount > 0
    BY <1>4 DEF ToSet
  <2>2. ok = Validate(blk, owned).ok /\ IsValidDay1(heap1, blk, v) = ValidateDay1(blk, owned).ok
    BY <1>6 DEF IsValid, IsValidDay1
  <2> HIDE DEF owned, ok
  <2>3. /\ ValidateDay1(blk, owned).ok <=> Validate(blk, owned).ok
        /\ Validate(blk, owned).ok =>
              ValidateDay1(blk, owned).balances = Validate(blk, owned).balances
    BY <1>6, <2>1, Day1Agrees
  <2>4. Validate(blk, owned).ok => IsMap(Validate(blk, owned).balances)
    BY <1>6, BlockCreatesReward
  <2>5. QED
    BY <2>2, <2>3, <2>4
<1> DEFINE ok1 == IsValidDay1(heap1, blk, v)
<1>8. /\ IsTree(heap1, n) /\ HasLengths(heap1, n)
      /\ heap1' = Put(heap1, id, NewBlockDay1(heap1, blk, v))
      /\ bmap1' = IF ok1 THEN Put(bmap1, blk.hash, id) ELSE bmap1
      /\ longest' = IF ok1 THEN LongerOf(heap1', longest, id) ELSE longest
  <2>1. Predecessor(blk, bmap1) = v
    BY <1>5
  <2>2. QED
    BY <1>2, <2>1, ReadDay1Effect
<1>9. PICK g : g = heap1'
  OBVIOUS
<1>10. (\A x \in Ids(n) : g[x] = heap1[x]) /\ g[id] = NewBlockDay1(heap1, blk, v)
  <2>1. v = NoBlock \/ v \in Ids(n)
    BY <1>1
  <2>2. QED
    BY <1>8, <1>9, <2>1, ObjectAddedDay1
<1>11. (\A x \in Ids(n) : Valid(heap', x) = Valid(heap, x)) /\ Valid(heap', id) = ok
  BY <1>1, <1>2, ValidStays
<1> HIDE DEF ok, ok1
<1>12. bmap1' = bmap'
  BY <1>1, <1>5, <1>7, <1>8 DEF ok1
<1>13. longest' # NoBlock => Valid(heap', longest')
  <2>1. longest = NoBlock \/ longest \in Ids(n)
    <3>1. DOMAIN heap1 = Ids(n)
      BY <1>8 DEF IsTree
    <3>2. QED
      BY <3>1 DEF Day1Inv, LongestOK
  <2>2. longest' = longest \/ (ok /\ longest' = id)
    BY <1>7, <1>8 DEF LongerOf, ok1
  <2>3. QED
    BY <1>5, <1>11, <2>1, <2>2
<1>14. ASSUME NEW x \in Ids(n) PROVE SameObject(x)'
  BY <1>3, <1>5, <1>9, <1>10, <1>11 DEF SameObject
<1>15. SameObject(id)'
  <2>1. LengthFrom(heap1, v) = LengthFrom(heap, v)
    BY <1>1, <1>5 DEF LengthFrom, SameObject
  <2>2. /\ heap'[id].length = LengthFrom(heap, v)
        /\ heap'[id].balances = Validate(blk, owned).balances
    BY <1>3 DEF NewBlock
  <2>3. /\ g[id].blk = blk /\ g[id].length = LengthFrom(heap1, v)
        /\ g[id].balances = ValidateDay1(blk, owned).balances
    BY <1>6, <1>10 DEF NewBlockDay1
  <2> HIDE DEF owned
  <2>4. QED
    BY <1>3, <1>7, <1>9, <1>11, <2>1, <2>2, <2>3 DEF SameObject
<1>16. QED
  BY <1>3, <1>12, <1>13, <1>14, <1>15

LEMMA Day1Invariance == Spec => [](Day1Inv /\ SameReading)
<1>1. Init => Day1Inv /\ SameReading
  <2> SUFFICES ASSUME Init PROVE Day1Inv /\ SameReading
    OBVIOUS
  <2>1. /\ DOMAIN heap = {} /\ DOMAIN heap1 = {} /\ DOMAIN bmap1 = {} /\ Ids(0) = {}
        /\ bmap1 = bmap /\ longest = NoBlock
    BY DEF Init, NoMap, Ids
  <2>2. IsTree(heap1, 0) /\ HasLengths(heap1, 0)
    BY <2>1 DEF IsTree, HasLengths
  <2>3. QED
    BY <2>1, <2>2 DEF Day1Inv, LongestOK, SameReading
<1>2. ReaderInv /\ Day1Inv /\ SameReading /\ [Next]_vars => (Day1Inv /\ SameReading)'
  <2>1. ASSUME Day1Inv, SameReading, UNCHANGED vars PROVE (Day1Inv /\ SameReading)'
    BY <2>1 DEF vars, day1, Day1Inv, LongestOK, SameReading, SameObject, NoZeroAmounts
  <2>2. ASSUME ReaderInv, Day1Inv, SameReading, NEW blk \in Pool, Read(blk), ReadDay1(blk)
        PROVE  (Day1Inv /\ SameReading)'
    <3>1. SameReading'
      BY <2>2, ReadingStaysTheSame DEF SameReading
    <3>2. PICK n \in 0 .. MaxBlocks - 1 :
              /\ IsTree(heap, n)
              /\ Predecessor(blk, bmap) = NoBlock \/ Predecessor(blk, bmap) \in Ids(n)
              /\ heap' = Put(heap, <<1, n + 1>>,
                             NewBlock(heap, blk, Predecessor(blk, bmap)))
      BY <2>2, ReadEffect, Zenon
    <3>3. IsAdded(heap', heap, n, blk, Predecessor(blk, bmap))
      BY <3>2, ObjectAdded
    <3>4. n \in Nat /\ DOMAIN heap = Ids(n) /\ DOMAIN heap' = Ids(n + 1)
      BY <3>2, <3>3 DEF IsAdded, IsTree
    <3>5. Day1Inv'
      BY <2>2, <3>4, LongestFollows
    <3>6. QED
      BY <3>1, <3>5
  <2>3. QED
    BY <2>1, <2>2 DEF Next, ReadNext
<1>3. QED
  BY <1>1, <1>2, ReaderInvariance, PTL DEF Spec

\* The tips of day1 and of day4: see TipRules.
THEOREM TipsFollowTheirRules == Spec => []TipRules
<1>1. ReaderInv /\ Day1Inv /\ SameReading => TipRules
  <2> SUFFICES ASSUME ReaderInv, Day1Inv, SameReading PROVE TipRules
    OBVIOUS
  <2>1. PICK n \in 0 .. MaxBlocks : /\ IsTree(heap, n) /\ HasLengths(heap, n)
                                    /\ HasBlocks(heap, n) /\ OnValid(heap, n)
    BY DEF ReaderInv
  <2>2. DOMAIN heap = Ids(n) /\ DOMAIN heap1 = Ids(n) /\ MapOK /\ TipOK /\ LongestOK
    BY <2>1 DEF IsTree, ReaderInv, Day1Inv
  <2>3. longest # NoBlock =>
          \A g \in DOMAIN bmap1 : heap1[bmap1[g]].length <= heap1[longest].length
    BY <2>2 DEF LongestOK
  <2>4. ASSUME tip # NoBlock, NoZeroAmounts,
               DOMAIN bmap = {heap[id].blk.hash : id \in Path(heap, tip)}
        PROVE  /\ heap[tip].blk.hash = heap1[longest].blk.hash
               /\ heap[tip].length = heap1[longest].length
    <3>1. DOMAIN bmap # {}
      BY <2>2, <2>4 DEF TipOK
    <3>2. /\ bmap1 = bmap
          /\ longest # NoBlock => Valid(heap, longest)
          /\ \A x \in Ids(n) : SameObject(x)
      BY <2>2, <2>4 DEF SameReading
    <3>3. /\ tip \in Ids(n) /\ longest \in Ids(n)
          /\ heap1[tip].length <= heap1[longest].length
      BY <2>2, <3>1, <3>2 DEF TipOK, LongestOK
    <3>4. Valid(heap, longest)
      BY <3>2, <3>3 DEF Ids, NoBlock
    <3>5. /\ heap1[longest].blk = heap[longest].blk
          /\ heap1[longest].length = heap[longest].length
          /\ heap1[tip].length = heap[tip].length
      BY <3>2, <3>3 DEF SameObject
    <3>6. PICK x \in Path(heap, tip) : heap[x].blk.hash = heap[longest].blk.hash
      BY <2>2, <2>4, <3>3, <3>4 DEF MapOK
    <3>7. heap[longest].length <= heap[x].length
      BY <2>1, <2>4, <3>1, <3>3, <3>4, <3>6, SameHashNoLonger
    <3>8. x \in Ids(n) /\ (x # tip => heap[x].length < heap[tip].length)
      BY <2>1, <3>3, PathClosed, PathShorter
    <3>9. heap[x].length \in Nat /\ heap[tip].length \in Nat /\ heap[longest].length \in Nat
      BY <2>1, <3>3, <3>8, ChainLength
    <3>10. x = tip
      BY <3>3, <3>5, <3>7, <3>8, <3>9
    <3>11. QED
      BY <3>3, <3>5, <3>6, <3>7, <3>9, <3>10
  <2>5. QED
    BY <2>3, <2>4 DEF TipRules
<1>2. QED
  BY <1>1, ReaderInvariance, Day1Invariance, PTL

-----------------------------------------------------------------------------
(* rewritechain: the chunks of a chain.                                     *)

\* The number of blocks in the first i of n chunks.
UpTo(size, n, i) == IF i = n THEN size ELSE (size \div n) * i

LEMMA ShareFacts ==
    ASSUME NEW size \in Nat, NEW n \in Nat \ {0}
    PROVE  /\ size \div n \in Nat
           /\ n * (size \div n) <= size /\ size < n * (size \div n) + n
           /\ size >= n => size \div n >= 1
           /\ size < n => size \div n = 0
<1>1. size \div n \in Nat /\ n * (size \div n) <= size /\ size < n * (size \div n) + n
  OBVIOUS
<1> DEFINE q == size \div n
<1> HIDE DEF q
<1>2. size >= n => q >= 1
  <2>1. q = 0 => n * q = 0
    BY <1>1 DEF q
  <2>2. QED
    BY <1>1, <2>1 DEF q
<1>3. size < n => q = 0
  <2>1. q >= 1 => n * q >= n
    BY <1>1 DEF q
  <2>2. QED
    BY <1>1, <2>1 DEF q
<1>4. QED
  BY <1>1, <1>2, <1>3 DEF q

LEMMA Products ==
    ASSUME NEW q \in Nat \ {0}
    PROVE  \A i, j \in Nat : /\ q * i \in Nat
                             /\ i < j => q * i < q * j
                             /\ i > 0 => q * i > 0
  OBVIOUS

\* Every chunk has a block of its own if there are as many blocks as chunks.
LEMMA ChunksAreFilled ==
    ASSUME NEW size \in Nat, NEW n \in Nat \ {0}, size >= n
    PROVE  /\ UpTo(size, n, 0) = 0 /\ UpTo(size, n, n) = size
           /\ \A i \in 0 .. n : UpTo(size, n, i) \in 0 .. size
           /\ \A i, j \in 0 .. n : i < j => UpTo(size, n, i) < UpTo(size, n, j)
<1> DEFINE q == size \div n
<1>1. q \in Nat \ {0} /\ n * q <= size /\ n * q = q * n
  BY ShareFacts
<1> HIDE DEF q
<1>2. \A i, j \in Nat : q * i \in Nat /\ (i < j => q * i < q * j)
  BY <1>1, Products
<1>3. ASSUME NEW i \in 0 .. n, NEW j \in 0 .. n, i < j
      PROVE  UpTo(size, n, i) < UpTo(size, n, j)
  <2>1. UpTo(size, n, i) = q * i /\ i \in Nat /\ j \in Nat
    BY <1>3 DEF UpTo, q
  <2>2. q * i < q * j /\ q * i \in Nat /\ q * j \in Nat /\ q * n \in Nat
    BY <1>2, <1>3, <2>1
  <2>3. CASE j = n
    BY <1>1, <2>1, <2>2, <2>3 DEF UpTo
  <2>4. CASE j # n
    BY <2>1, <2>2, <2>4 DEF UpTo, q
  <2>5. QED
    BY <2>3, <2>4
<1>4. UpTo(size, n, 0) = 0 /\ UpTo(size, n, n) = size
  BY <1>1 DEF UpTo, q
<1>5. ASSUME NEW i \in 0 .. n PROVE UpTo(size, n, i) \in 0 .. size
  <2>1. CASE i = n
    BY <1>4, <2>1
  <2>2. CASE i # n
    <3>1. UpTo(size, n, i) = q * i /\ i \in Nat /\ i < n
      BY <2>2 DEF UpTo, q
    <3>2. q * i \in Nat /\ q * i < q * n /\ q * n \in Nat
      BY <1>2, <3>1
    <3>3. QED
      BY <1>1, <3>1, <3>2
  <2>3. QED
    BY <2>1, <2>2
<1>6. QED
  BY <1>3, <1>4, <1>5

\* The ends of the chunks are where the shares end, but for the last; without
\* a block for each chunk only the last end is the index of a block.
LEMMA CutsAre ==
    ASSUME NEW size \in Nat \ {0}, size < UnsignedWrap, NEW n \in Nat \ {0}
    PROVE  Cuts(size, n) = IF size >= n THEN {UpTo(size, n, i) - 1 : i \in 1 .. n}
                           ELSE {size - 1}
<1> DEFINE e(i) == ((IF i = n - 1 THEN size ELSE (size \div n) * (i + 1)) - 1) % UnsignedWrap
<1>0. UnsignedWrap \in Nat \ {0}
  BY WrapAssumption
<1>1. Cuts(size, n) = {e(i) : i \in 0 .. n - 1} \cap (0 .. size - 1)
  BY DEF Cuts, ChunkEnds
<1>2. \A k \in 0 .. size - 1 : k % UnsignedWrap = k
  BY <1>0
<1>3. \A i \in 0 .. n - 1 : e(i) = (UpTo(size, n, i + 1) - 1) % UnsignedWrap
  BY DEF UpTo
<1> HIDE DEF e
<1>4. CASE size >= n
  <2>1. \A i \in 0 .. n - 1 : UpTo(size, n, i + 1) - 1 \in 0 .. size - 1
    <3> SUFFICES ASSUME NEW i \in 0 .. n - 1
                 PROVE  UpTo(size, n, i + 1) - 1 \in 0 .. size - 1
      OBVIOUS
    <3>1. 0 \in 0 .. n /\ i + 1 \in 0 .. n /\ 0 < i + 1
      OBVIOUS
    <3>2. UpTo(size, n, i + 1) \in 0 .. size /\ UpTo(size, n, 0) < UpTo(size, n, i + 1)
      BY <1>4, <3>1, ChunksAreFilled
    <3>3. UpTo(size, n, 0) = 0
      BY <1>4, ChunksAreFilled
    <3>4. QED
      BY <3>2, <3>3
  <2>2. \A i \in 0 .. n - 1 : e(i) = UpTo(size, n, i + 1) - 1
    BY <1>2, <1>3, <2>1
  <2>3. Cuts(size, n) = {UpTo(size, n, i + 1) - 1 : i \in 0 .. n - 1}
    BY <1>1, <2>1, <2>2
  <2>4. /\ \A i \in 0 .. n - 1 : i + 1 \in 1 .. n
        /\ \A i \in 1 .. n : i - 1 \in 0 .. n - 1 /\ (i - 1) + 1 = i
    OBVIOUS
  <2>5. {UpTo(size, n, i + 1) - 1 : i \in 0 .. n - 1} = {UpTo(size, n, i) - 1 : i \in 1 .. n}
    BY <2>4
  <2>6. QED
    BY <1>4, <2>3, <2>5
<1>5. CASE ~(size >= n)
  <2>1. size \div n = 0
    BY <1>5, ShareFacts
  <2>2. \A i \in 0 .. n - 1 : UpTo(size, n, i + 1) = IF i = n - 1 THEN size ELSE 0
    BY <2>1 DEF UpTo
  <2>3. (0 - 1) % UnsignedWrap = UnsignedWrap - 1
    BY <1>0
  <2>4. \A i \in 0 .. n - 1 : e(i) = IF i = n - 1 THEN size - 1 ELSE UnsignedWrap - 1
    BY <1>2, <1>3, <2>2, <2>3
  <2>5. size - 1 \in 0 .. size - 1 /\ UnsignedWrap - 1 \notin 0 .. size - 1 /\ n - 1 \in 0 .. n - 1
    BY <1>0
  <2>6. QED
    BY <1>1, <1>5, <2>4, <2>5
<1>6. QED
  BY <1>4, <1>5

\* The i-th cut ends the i-th chunk.
LEMMA ChunksAre ==
    ASSUME NEW size \in Nat \ {0}, size < UnsignedWrap, NEW n \in Nat \ {0}, size >= n
    PROVE  /\ Cardinality(Cuts(size, n)) = n
           /\ \A i \in 1 .. n :
                 /\ CutAt(size, n, i) = UpTo(size, n, i) - 1
                 /\ ChunkStart(size, n, CutAt(size, n, i)) = UpTo(size, n, i - 1)
<1> DEFINE C == Cuts(size, n)
           E(i) == UpTo(size, n, i) - 1
<1>1. C = {E(i) : i \in 1 .. n}
  BY CutsAre
<1>2. /\ UpTo(size, n, 0) = 0
      /\ \A i \in 0 .. n : UpTo(size, n, i) \in Int
      /\ \A i, j \in 0 .. n : i < j => UpTo(size, n, i) < UpTo(size, n, j)
  BY ChunksAreFilled
<1>3. /\ \A i \in 1 .. n : E(i) \in Int
      /\ \A i, j \in 1 .. n : (i < j => E(i) < E(j)) /\ (E(i) = E(j) => i = j)
  BY <1>2
<1> HIDE DEF C
<1>4. ASSUME NEW i \in 1 .. n
      PROVE  Cardinality({d \in C : d <= UpTo(size, n, i) - 1}) = i
  <2> DEFINE D == {d \in C : d <= UpTo(size, n, i) - 1}
             f == [j \in 1 .. i |-> E(j)]
  <2>1. \A j \in 1 .. n : E(j) <= E(i) <=> j \in 1 .. i
    BY <1>3
  <2>2. D = {E(j) : j \in 1 .. i}
    BY <1>1, <2>1
  <2> HIDE DEF D
  <2>3. f \in Bijection(1 .. i, D)
    <3>1. \A j, k \in 1 .. i : E(j) = E(k) => j = k
      BY <1>3
    <3> HIDE DEF E
    <3>2. QED
      BY <2>2, <3>1 DEF Bijection, Injection, Surjection, IsInjective
  <2>4. IsFiniteSet(1 .. i) /\ Cardinality(1 .. i) = i
    BY FS_Interval
  <2>5. Cardinality(D) = i
    BY <2>3, <2>4, FS_Bijection DEF ExistsBijection
  <2>6. QED
    BY <2>5 DEF D
<1>5. ASSUME NEW i \in 1 .. n PROVE CutAt(size, n, i) = E(i)
  <2>1. CutAt(size, n, i) = CHOOSE e \in C : Cardinality({d \in C : d <= e}) = i
    BY DEF CutAt, C
  <2>2. E(i) \in C /\ Cardinality({d \in C : d <= E(i)}) = i
    BY <1>1, <1>4
  <2>3. ASSUME NEW e \in C, Cardinality({d \in C : d <= e}) = i PROVE e = E(i)
    <3>1. PICK j \in 1 .. n : e = E(j)
      BY <1>1
    <3>2. Cardinality({d \in C : d <= E(j)}) = j
      BY <1>4
    <3>3. QED
      BY <2>3, <3>1, <3>2
  <2> HIDE DEF E
  <2>4. QED
    BY <2>1, <2>2, <2>3
<1>6. Cardinality(C) = n
  <2>1. \A d \in C : d <= E(n)
    BY <1>1, <1>3
  <2>2. {d \in C : d <= UpTo(size, n, n) - 1} = C
    BY <2>1
  <2>3. QED
    BY <1>4, <2>2
<1>7. ASSUME NEW i \in 1 .. n PROVE ChunkStart(size, n, E(i)) = UpTo(size, n, i - 1)
  <2>1. \A j \in 1 .. n : E(j) < E(i) <=> j \in 1 .. i - 1
    BY <1>3
  <2>2. ChunkStart(size, n, E(i)) = IF \E d \in C : d < E(i)
          THEN 1 + CHOOSE d \in C : d < E(i) /\ \A g \in C : g < E(i) => g <= d
          ELSE 0
    BY DEF ChunkStart, C
  <2>3. CASE i = 1
    <3>1. ~ \E d \in C : d < E(i)
      BY <1>1, <2>1, <2>3
    <3>2. QED
      BY <1>2, <2>2, <2>3, <3>1
  <2>4. CASE i # 1
    <3>1. i - 1 \in 1 .. n /\ i - 1 \in 1 .. i - 1
      BY <2>4
    <3>2. /\ E(i - 1) \in C /\ E(i - 1) < E(i)
          /\ \A g \in C : g < E(i) => g <= E(i - 1)
      BY <1>1, <1>3, <2>1, <3>1
    <3>3. \A d \in C : d < E(i) /\ (\A g \in C : g < E(i) => g <= d) => d = E(i - 1)
      BY <1>1, <1>3, <3>1, <3>2
    <3>4. (CHOOSE d \in C : d < E(i) /\ \A g \in C : g < E(i) => g <= d) = E(i - 1)
      <4> HIDE DEF E
      <4>1. QED
        BY <3>2, <3>3
    <3>5. ChunkStart(size, n, E(i)) = 1 + E(i - 1)
      BY <2>2, <3>2, <3>4
    <3>6. QED
      BY <1>2, <3>1, <3>5
  <2>5. QED
    BY <2>3, <2>4
<1>8. QED
  BY <1>5, <1>6, <1>7 DEF C

Joined(out) == FlattenSeq([i \in DOMAIN out |-> out[i].blocks])

\* The chunks of an indexed file, one after another, are the blocks it was
\* written from; each has a block and the map of its last one.
LEMMA AllBlocksWritten ==
    ASSUME NEW S, NEW blocks \in Seq(S), NEW balances, NEW n \in Nat \ {0},
           Len(blocks) < UnsignedWrap, Len(blocks) >= n,
           NEW out, out = Rewritten(blocks, balances, n)
    PROVE  /\ DOMAIN out = 1 .. n
           /\ \A i \in 1 .. n :
                 \E k \in 1 .. Len(blocks) :
                    /\ out[i].blocks \in Seq(S) /\ out[i].blocks # <<>>
                    /\ Last(out[i].blocks) = blocks[k]
                    /\ out[i].map = balances[k]
           /\ Joined(out) = blocks
<1> DEFINE size == Len(blocks)
           B(i) == UpTo(size, n, i)
           seqs == [i \in 1 .. n |-> SubSeq(blocks, B(i - 1) + 1, B(i))]
<1>1. size \in Nat \ {0} /\ size < UnsignedWrap /\ size >= n
  OBVIOUS
<1>2. /\ Cardinality(Cuts(size, n)) = n
      /\ \A i \in 1 .. n : /\ CutAt(size, n, i) = B(i) - 1
                           /\ ChunkStart(size, n, CutAt(size, n, i)) = B(i - 1)
  BY <1>1, ChunksAre
<1>3. /\ B(0) = 0 /\ B(n) = size
      /\ \A i \in 0 .. n : B(i) \in 0 .. size
      /\ \A i \in 1 .. n : B(i - 1) < B(i) /\ B(i - 1) \in 0 .. size /\ B(i) \in 1 .. size
  <2>1. /\ B(0) = 0 /\ B(n) = size /\ \A i \in 0 .. n : B(i) \in 0 .. size
        /\ \A i, j \in 0 .. n : i < j => B(i) < B(j)
    BY <1>1, ChunksAreFilled
  <2>2. \A i \in 1 .. n : i - 1 \in 0 .. n /\ i \in 0 .. n /\ i - 1 < i
    OBVIOUS
  <2> HIDE DEF B
  <2>3. QED
    BY <2>1, <2>2
<1> HIDE DEF B, size
<1>4. \A i \in 1 .. n : B(i) - 1 + 1 = B(i)
  BY <1>3
<1>5. /\ DOMAIN out = 1 .. n
      /\ \A i \in 1 .. n : /\ out[i].blocks = SubSeq(blocks, B(i - 1) + 1, B(i))
                           /\ out[i].map = balances[B(i)]
  BY <1>2, <1>4 DEF Rewritten, size
<1>6. ASSUME NEW i \in 1 .. n
      PROVE  /\ SubSeq(blocks, B(i - 1) + 1, B(i)) \in Seq(S)
             /\ SubSeq(blocks, B(i - 1) + 1, B(i)) # <<>>
             /\ Last(SubSeq(blocks, B(i - 1) + 1, B(i))) = blocks[B(i)]
  <2> DEFINE m == B(i - 1) + 1
             k == B(i)
             s == SubSeq(blocks, m, k)
  <2>1. m \in Int /\ k \in Int /\ m <= k /\ m >= 1 /\ k <= Len(blocks)
    BY <1>3 DEF size
  <2>2. \A j \in m .. k : blocks[j] \in S
    BY <2>1
  <2> HIDE DEF m, k
  <2>3. /\ s \in Seq(S) /\ Len(s) = k - m + 1
        /\ \A j \in 1 .. k - m + 1 : s[j] = blocks[m + j - 1]
    BY <2>1, <2>2, SubSeqProperties
  <2> HIDE DEF s
  <2>4. Len(s) >= 1 /\ s[Len(s)] = blocks[k]
    <3>1. Len(s) \in 1 .. k - m + 1 /\ m + Len(s) - 1 = k
      BY <2>1, <2>3
    <3>2. QED
      BY <2>3, <3>1
  <2>5. QED
    BY <2>3, <2>4 DEF Last, s, m, k
<1>7. \A i \in 1 .. n :
         \E k \in 1 .. Len(blocks) :
            /\ out[i].blocks \in Seq(S) /\ out[i].blocks # <<>>
            /\ Last(out[i].blocks) = blocks[k] /\ out[i].map = balances[k]
  BY <1>3, <1>5, <1>6 DEF size
<1>8. [i \in DOMAIN out |-> out[i].blocks] = seqs
  BY <1>5
<1>9. seqs \in [1 .. n -> Seq(S)]
  BY <1>6
<1>10. FlattenSeq(seqs) = blocks
  <2>1. \A i \in 1 .. n : seqs[i] = SubSeq(blocks, B(i - 1) + 1, B(i))
    OBVIOUS
  <2> HIDE DEF seqs
  <2>2. PICK h \in [0 .. n -> Seq(S)] :
           /\ h[0] = <<>>
           /\ \A i \in 1 .. n : h[i] = h[i - 1] \o seqs[i]
           /\ FlattenSeq(seqs) = h[n]
    BY <1>9, FlattenSteps
  <2> DEFINE T == {i \in 0 .. n : h[i] = SubSeq(blocks, 1, B(i))}
  <2>3. 0 \in T
    <3>1. SubSeq(blocks, 1, 0) = <<>>
      BY SubSeqEmpty
    <3>2. QED
      BY <1>3, <2>2, <3>1
  <2>4. ASSUME NEW i \in 0 .. n - 1, i \in T PROVE i + 1 \in T
    <3>1. i + 1 \in 1 .. n /\ (i + 1) - 1 = i /\ i + 1 \in 0 .. n
      OBVIOUS
    <3>2. B(i) \in 0 .. size /\ B(i + 1) \in 1 .. size /\ B(i) < B(i + 1)
      BY <1>3, <3>1
    <3>3. h[i + 1] = h[i] \o SubSeq(blocks, B(i) + 1, B(i + 1))
      BY <2>1, <2>2, <3>1
    <3>4. SubSeq(blocks, 1, B(i)) \o SubSeq(blocks, B(i) + 1, B(i + 1))
            = SubSeq(blocks, 1, B(i + 1))
      <4>1. 1 \in 1 .. Len(blocks) + 1 /\ B(i) \in 1 - 1 .. Len(blocks)
            /\ B(i + 1) \in B(i) .. Len(blocks)
        BY <3>2 DEF size
      <4>2. QED
        BY <4>1, ConcatAdjacentSubSeq
    <3>5. QED
      BY <2>4, <3>1, <3>3, <3>4
  <2> HIDE DEF T
  <2>5. 0 .. n \subseteq T
    BY <2>3, <2>4, PrefixInduction
  <2>6. h[n] = SubSeq(blocks, 1, size)
    BY <1>3, <2>5 DEF T
  <2>7. QED
    BY <2>2, <2>6, SubSeqFull DEF size
<1>11. QED
  BY <1>5, <1>7, <1>8, <1>10 DEF Joined

\* The writer keeps a tree as well, with the last object as its tip.
WriterTree ==
    /\ file \in Seq(Pool) /\ Len(file) <= MaxBlocks
    /\ IsTree(wheap, Len(file)) /\ HasLengths(wheap, Len(file))
    /\ \A g \in DOMAIN wbmap : wbmap[g] \in DOMAIN wheap
    /\ wtip = IF file = <<>> THEN NoBlock ELSE <<1, Len(file)>>

TheBlocks(chain) == [i \in DOMAIN chain |-> chain[i].blk]
TheBalances(chain) == [i \in DOMAIN chain |-> chain[i].balances]

\* What the asserts let through.
WriterOutcome ==
    LET chain == Chain(wheap, wtip)
    IN  /\ outcome # "length"
        /\ outcome \in {"written", "maps"} =>
              /\ wtip # NoBlock /\ chunks \in Nat \ {0, 1}
              /\ (outcome = "written") <=> (Cardinality(Cuts(Len(chain), chunks)) = chunks)
        /\ outcome = "written" =>
              output = Rewritten(TheBlocks(chain), TheBalances(chain), chunks)

WriterInv == WriterTree /\ WriterOutcome


\* Every turn adds an object to the tree of the writer.
LEMMA WriterReadEffect ==
    ASSUME WriterTree, NEW blk \in Pool, WriterRead(blk)
    PROVE  LET n == Len(file)
               v == Predecessor(blk, wbmap)
           IN  /\ n \in Nat /\ n < MaxBlocks
               /\ file' = Append(file, blk) /\ Len(file') = n + 1
               /\ v = NoBlock \/ v \in Ids(n)
               /\ wheap' = Put(wheap, <<1, n + 1>>, NewBlock(wheap, blk, v))
               /\ wbmap' = Put(wbmap, blk.hash, <<1, n + 1>>)
               /\ wtip' = <<1, n + 1>>
               /\ outcome = "reading"
               /\ outcome' = IF file = <<>> \/ v # NoBlock THEN "reading" ELSE "orphan"
<1> DEFINE n == Len(file)
           v == Predecessor(blk, wbmap)
<1>1. /\ n < MaxBlocks
      /\ file' = Append(file, blk)
      /\ wheap' = Put(wheap, <<1, n + 1>>, NewBlock(wheap, blk, v))
      /\ wbmap' = Put(wbmap, blk.hash, <<1, n + 1>>)
      /\ wtip' = <<1, n + 1>>
      /\ outcome = "reading"
      /\ outcome' = IF file = <<>> \/ v # NoBlock THEN "reading" ELSE "orphan"
  BY Zenon DEF WriterRead
<1>2. n \in Nat /\ Len(file') = n + 1
  BY <1>1 DEF WriterTree
<1>3. v = NoBlock \/ v \in Ids(n)
  <2>1. CASE blk.prev # Zero /\ blk.prev \in DOMAIN wbmap
    <3>1. v = wbmap[blk.prev]
      BY <2>1 DEF Predecessor
    <3>2. v \in DOMAIN wheap
      BY <2>1, <3>1 DEF WriterTree
    <3>3. QED
      BY <3>2 DEF WriterTree, IsTree
  <2>2. CASE ~(blk.prev # Zero /\ blk.prev \in DOMAIN wbmap)
    <3>1. v = NoBlock
      BY <2>2, Zenon DEF Predecessor
    <3>2. QED
      BY <3>1
  <2>3. QED
    BY <2>1, <2>2
<1>4. QED
  BY <1>1, <1>2, <1>3, Zenon

LEMMA WriterReadKeepsInv ==
    ASSUME WriterInv, NEW blk \in Pool, WriterRead(blk)
    PROVE  WriterInv'
<1> DEFINE n == Len(file)
           v == Predecessor(blk, wbmap)
<1>1. WriterTree
  BY DEF WriterInv
<1>2. /\ n \in Nat /\ n < MaxBlocks
      /\ file' = Append(file, blk) /\ Len(file') = n + 1
      /\ v = NoBlock \/ v \in Ids(n)
      /\ wheap' = Put(wheap, <<1, n + 1>>, NewBlock(wheap, blk, v))
      /\ wbmap' = Put(wbmap, blk.hash, <<1, n + 1>>)
      /\ wtip' = <<1, n + 1>>
      /\ outcome' \in {"reading", "orphan"}
  BY <1>1, WriterReadEffect
<1> HIDE DEF v
<1>3. IsAdded(wheap', wheap, n, blk, v)
  BY <1>1, <1>2, ObjectAdded DEF WriterTree
<1>4. HasLengths(wheap', n + 1)
  BY <1>1, <1>2, <1>3, LengthsGrow DEF WriterTree
<1>5. IsTree(wheap', n + 1) /\ DOMAIN wheap' = Ids(n + 1)
  <2>1. IsTree(wheap', n + 1)
    BY <1>3 DEF IsAdded
  <2>2. QED
    BY <2>1 DEF IsTree
<1>6. ASSUME NEW g \in DOMAIN wbmap' PROVE wbmap'[g] \in DOMAIN wheap'
  <2>1. Ids(n + 1) = Ids(n) \cup {<<1, n + 1>>} /\ DOMAIN wheap = Ids(n)
    BY <1>1, <1>3 DEF IsAdded, WriterTree, IsTree
  <2>2. wbmap'[g] = <<1, n + 1>> \/ (g \in DOMAIN wbmap /\ wbmap'[g] = wbmap[g])
    BY <1>2 DEF Put
  <2>3. QED
    BY <1>1, <1>5, <2>1, <2>2 DEF WriterTree
<1>7. file' \in Seq(Pool) /\ file' # <<>> /\ Len(file') <= MaxBlocks
  BY <1>1, <1>2, FileAssumption DEF WriterTree
<1>8. WriterTree'
  BY <1>2, <1>4, <1>5, <1>6, <1>7 DEF WriterTree
<1>9. WriterOutcome'
  BY <1>2 DEF WriterOutcome
<1>10. QED
  BY <1>8, <1>9 DEF WriterInv

\* The chain of the tip, which is as long as the tip says.
LEMMA TipChain ==
    ASSUME WriterTree, wtip # NoBlock
    PROVE  /\ Chain(wheap, wtip) \in Seq({wheap[y] : y \in Ids(Len(file))})
           /\ Len(Chain(wheap, wtip)) = wheap[wtip].length
           /\ Len(Chain(wheap, wtip)) \in 1 .. MaxBlocks
<1> DEFINE n == Len(file)
<1>1. wtip \in Ids(n) /\ n \in Nat /\ n <= MaxBlocks /\ wtip = <<1, n>> /\ n >= 1
  BY DEF WriterTree, Ids
<1>2. IsTree(wheap, n) /\ HasLengths(wheap, n)
  BY DEF WriterTree
<1>3. /\ wheap[wtip].length \in Nat \ {0}
      /\ Chain(wheap, wtip) \in Seq({wheap[y] : y \in Path(wheap, wtip)})
      /\ Len(Chain(wheap, wtip)) = wheap[wtip].length
  BY <1>1, <1>2, ChainLength
<1>4. Path(wheap, wtip) \subseteq Ids(n)
  BY <1>1, <1>2, PathClosed
<1> DEFINE D == {wheap[y] : y \in Path(wheap, wtip)}
           E == {wheap[y] : y \in Ids(n)}
<1>5. D \subseteq E
  BY <1>4
<1> HIDE DEF D, E
<1>6. Chain(wheap, wtip) \in Seq(E)
  BY <1>3, <1>5 DEF D
<1>7. wheap[wtip].length <= n
  <2>1. ASSUME NEW k \in Nat, k <= n, \A j \in 1 .. k - 1 : wheap[<<1, j>>].length <= j
        PROVE  k >= 1 => wheap[<<1, k>>].length <= k
    <3> SUFFICES ASSUME k >= 1 PROVE wheap[<<1, k>>].length <= k
      OBVIOUS
    <3>1. <<1, k>> \in Ids(n) /\ k \in 1 .. n
      BY <1>1, <2>1 DEF Ids
    <3>2. CASE wheap[<<1, k>>].prev = NoBlock
      BY <1>2, <3>1, <3>2 DEF HasLengths, LengthFrom
    <3>3. CASE wheap[<<1, k>>].prev # NoBlock
      <4>1. PICK j \in 1 .. k - 1 : wheap[<<1, k>>].prev = <<1, j>>
        BY <1>2, <3>1, <3>3 DEF IsTree
      <4>2. wheap[<<1, k>>].length = wheap[<<1, j>>].length + 1
        BY <1>2, <3>1, <3>3, <4>1 DEF HasLengths, LengthFrom
      <4>3. <<1, j>> \in Ids(n) /\ wheap[<<1, j>>].length <= j
        BY <2>1, <4>1 DEF Ids
      <4>4. wheap[<<1, j>>].length \in Nat
        BY <1>2, <4>3, ChainLength
      <4>5. QED
        BY <4>2, <4>3, <4>4
    <3>4. QED
      BY <3>2, <3>3
  <2> DEFINE T == {k \in Nat : k <= n => \A j \in 1 .. k : wheap[<<1, j>>].length <= j}
  <2>2. 0 \in T
    OBVIOUS
  <2>3. ASSUME NEW k \in Nat, k \in T PROVE k + 1 \in T
    <3> SUFFICES ASSUME k + 1 <= n, NEW j \in 1 .. k + 1 PROVE wheap[<<1, j>>].length <= j
      OBVIOUS
    <3>0. k <= n
      BY <1>1
    <3>1. \A i \in 1 .. k : wheap[<<1, i>>].length <= i
      BY <2>3, <3>0
    <3>2. CASE j = k + 1
      BY <2>1, <3>1, <3>2
    <3>3. CASE j # k + 1
      BY <3>1, <3>3
    <3>4. QED
      BY <3>2, <3>3
  <2> HIDE DEF T
  <2>4. n \in T
    BY <1>1, <2>2, <2>3, NumberInduction
  <2>5. QED
    BY <1>1, <2>4 DEF T
<1>8. QED
  BY <1>1, <1>3, <1>6, <1>7, FileAssumption DEF E

LEMMA RewriteKeepsInv ==
    ASSUME WriterInv, NEW n \in ChunkCounts, Rewrite(n)
    PROVE  WriterInv'
<1> DEFINE chain == IF wtip = NoBlock THEN <<>> ELSE Chain(wheap, wtip)
<1>1. /\ chunks' = n /\ outcome' = Verdict(chain, n)
      /\ UNCHANGED <<file, wheap, wbmap, wtip>>
      /\ outcome' = "written" => output' = Rewritten(TheBlocks(chain), TheBalances(chain), n)
  BY DEF Rewrite, TheBlocks, TheBalances
<1>2. WriterTree /\ WriterTree' /\ n \in Nat
  BY <1>1, RewriteAssumption DEF WriterInv, WriterTree
<1>3. CASE wtip = NoBlock
  <2>1. outcome' \in {"chunks", "crash"}
    BY <1>1, <1>2, <1>3 DEF Verdict
  <2>2. QED
    BY <1>2, <2>1 DEF WriterInv, WriterOutcome
<1>4. CASE wtip # NoBlock
  <2>1. /\ chain = Chain(wheap, wtip) /\ Len(chain) \in 1 .. MaxBlocks
        /\ wheap[wtip].length = Len(chain) /\ chain # <<>>
    BY <1>2, <1>4, TipChain
  <2> HIDE DEF chain
  <2>2. CASE n <= 1
    <3>1. outcome' = "chunks"
      BY <1>1, <1>2, <2>2 DEF Verdict
    <3>2. QED
      BY <1>2, <3>1 DEF WriterInv, WriterOutcome
  <2>3. CASE n > 1
    <3>1. outcome' = IF Cardinality(Cuts(Len(chain), n)) # n THEN "maps" ELSE "written"
      BY <1>1, <1>2, <2>1, <2>3 DEF Verdict
    <3>2. n \in Nat \ {0, 1}
      BY <1>2, <2>3
    <3>3. Chain(wheap', wtip') = chain /\ wtip' # NoBlock
      BY <1>1, <1>4, <2>1
    <3>4. WriterOutcome'
      BY <1>1, <3>1, <3>2, <3>3 DEF WriterOutcome
    <3>5. QED
      BY <1>2, <3>4 DEF WriterInv
  <2>4. QED
    BY <1>2, <2>2, <2>3
<1>5. QED
  BY <1>3, <1>4

LEMMA WriterInvariance == WriterSpec => []WriterInv
<1>1. WriterInit => WriterInv
  <2> SUFFICES ASSUME WriterInit PROVE WriterInv
    OBVIOUS
  <2>1. /\ file = <<>> /\ Len(file) = 0 /\ DOMAIN wheap = {} /\ DOMAIN wbmap = {}
        /\ Ids(0) = {} /\ wtip = NoBlock /\ outcome = "reading"
    BY DEF WriterInit, NoMap, Ids
  <2>2. WriterTree
    BY <2>1, FileAssumption DEF WriterTree, IsTree, HasLengths
  <2>3. QED
    BY <2>1, <2>2 DEF WriterInv, WriterOutcome
<1>2. WriterInv /\ [WriterNext]_writerVars => WriterInv'
  <2>1. ASSUME WriterInv, UNCHANGED writerVars PROVE WriterInv'
    BY <2>1 DEF writerVars, WriterInv, WriterTree, WriterOutcome
  <2>2. QED
    BY <2>1, WriterReadKeepsInv, RewriteKeepsInv DEF WriterNext
<1>3. QED
  BY <1>1, <1>2, PTL DEF WriterSpec

\* The chain of a file that was written, and its chunks.
LEMMA ChainWritten ==
    ASSUME WriterInv, outcome = "written"
    PROVE  LET chain == Chain(wheap, wtip)
           IN  /\ wtip # NoBlock
               /\ chain \in Seq({wheap[y] : y \in Ids(Len(file))})
               /\ DOMAIN output = 1 .. chunks
               /\ \A i \in 1 .. chunks :
                     \E k \in 1 .. Len(chain) :
                        /\ output[i].blocks # <<>>
                        /\ Last(output[i].blocks) = chain[k].blk
                        /\ output[i].map = chain[k].balances
               /\ Flat = TheBlocks(chain)
<1> DEFINE chain == Chain(wheap, wtip)
           S == {chain[i].blk : i \in 1 .. Len(chain)}
<1>1. /\ wtip # NoBlock /\ chunks \in Nat \ {0, 1}
      /\ Cardinality(Cuts(Len(chain), chunks)) = chunks
      /\ output = Rewritten(TheBlocks(chain), TheBalances(chain), chunks)
  BY DEF WriterInv, WriterOutcome
<1>2. /\ chain \in Seq({wheap[y] : y \in Ids(Len(file))})
      /\ Len(chain) \in 1 .. MaxBlocks
  BY <1>1, TipChain DEF WriterInv
<1> HIDE DEF chain
<1>3. /\ TheBlocks(chain) \in Seq(S) /\ Len(TheBlocks(chain)) = Len(chain)
      /\ \A k \in 1 .. Len(chain) : /\ TheBlocks(chain)[k] = chain[k].blk
                                    /\ TheBalances(chain)[k] = chain[k].balances
  <2>1. DOMAIN chain = 1 .. Len(chain) /\ Len(chain) \in Nat
    BY <1>2
  <2>2. TheBlocks(chain) \in [1 .. Len(chain) -> S]
    BY <2>1 DEF TheBlocks
  <2> HIDE DEF S
  <2>3. TheBlocks(chain) \in Seq(S) /\ Len(TheBlocks(chain)) = Len(chain)
    BY <2>1, <2>2
  <2>4. QED
    BY <2>1, <2>3 DEF TheBlocks, TheBalances
<1> HIDE DEF S
<1>4. Len(chain) \in Nat \ {0} /\ Len(chain) < UnsignedWrap
  BY <1>2, RewriteAssumption, FileAssumption, WrapAssumption
<1>5. Len(chain) >= chunks
  <2> SUFFICES ASSUME ~(Len(chain) >= chunks) PROVE FALSE
    OBVIOUS
  <2>1. Cuts(Len(chain), chunks) = {Len(chain) - 1}
    BY <1>1, <1>4, CutsAre
  <2>2. Cardinality({Len(chain) - 1}) = 1
    BY FS_Singleton
  <2>3. QED
    BY <1>1, <2>1, <2>2
<1>6. /\ DOMAIN output = 1 .. chunks
      /\ \A i \in 1 .. chunks :
            \E k \in 1 .. Len(TheBlocks(chain)) :
               /\ output[i].blocks \in Seq(S) /\ output[i].blocks # <<>>
               /\ Last(output[i].blocks) = TheBlocks(chain)[k]
               /\ output[i].map = TheBalances(chain)[k]
      /\ Joined(output) = TheBlocks(chain)
  <2>1. /\ TheBlocks(chain) \in Seq(S) /\ chunks \in Nat \ {0}
        /\ Len(TheBlocks(chain)) < UnsignedWrap /\ Len(TheBlocks(chain)) >= chunks
        /\ output = Rewritten(TheBlocks(chain), TheBalances(chain), chunks)
    BY <1>1, <1>3, <1>4, <1>5
  <2>2. DOMAIN output = 1 .. chunks
    BY <2>1, AllBlocksWritten
  <2>3. Joined(output) = TheBlocks(chain)
    BY <2>1, AllBlocksWritten
  <2>4. ASSUME NEW i \in 1 .. chunks
        PROVE  \E k \in 1 .. Len(TheBlocks(chain)) :
                  /\ output[i].blocks \in Seq(S) /\ output[i].blocks # <<>>
                  /\ Last(output[i].blocks) = TheBlocks(chain)[k]
                  /\ output[i].map = TheBalances(chain)[k]
    BY <2>1, AllBlocksWritten
  <2>5. QED
    BY <2>2, <2>3, <2>4
<1>7. Flat = TheBlocks(chain)
  BY <1>6 DEF Flat, Joined
<1>8. \A i \in 1 .. chunks :
         \E k \in 1 .. Len(chain) :
            /\ output[i].blocks # <<>>
            /\ Last(output[i].blocks) = chain[k].blk
            /\ output[i].map = chain[k].balances
  BY <1>3, <1>6
<1>9. QED
  BY <1>1, <1>2, <1>6, <1>7, <1>8 DEF chain

\* Nothing of a chain is lost in the indexed file: see NothingLost.
THEOREM ChainIsWritten == WriterSpec => []NothingLost
<1>1. WriterInv => NothingLost
  <2> SUFFICES ASSUME WriterInv PROVE NothingLost
    OBVIOUS
  <2>1. WholeChainWritten
    BY ChainWritten DEF WholeChainWritten, TheBlocks
  <2>2. LengthIsMapSize
    BY DEF WriterInv, WriterOutcome, LengthIsMapSize
  <2>3. ChunksHaveMaps
    <3> SUFFICES ASSUME outcome = "maps" PROVE Len(Chain(wheap, wtip)) < chunks
      BY DEF ChunksHaveMaps
    <3>1. /\ wtip # NoBlock /\ chunks \in Nat \ {0, 1}
          /\ Cardinality(Cuts(Len(Chain(wheap, wtip)), chunks)) # chunks
      BY DEF WriterInv, WriterOutcome
    <3>2. Len(Chain(wheap, wtip)) \in 1 .. MaxBlocks
      BY <3>1, TipChain DEF WriterInv
    <3>3. Len(Chain(wheap, wtip)) \in Nat \ {0} /\ Len(Chain(wheap, wtip)) < UnsignedWrap
      BY <3>2, RewriteAssumption, FileAssumption, WrapAssumption
    <3>4. QED
      BY <3>1, <3>3, ChunksAre
  <2>4. QED
    BY <2>1, <2>2, <2>3 DEF NothingLost
<1>2. QED
  BY <1>1, WriterInvariance, PTL

-----------------------------------------------------------------------------
(* The two programs on the same file.                                       *)

\* The programs compose: what holds of each on its own holds here.
THEOREM ToolsAreBoth == ToolsSpec => Spec /\ WriterSpec
<1>1. ToolsInit => Init /\ WriterInit
  BY DEF ToolsInit
<1>2. [ToolsNext]_<<vars, writerVars>> => [Next]_vars /\ [WriterNext]_writerVars
  BY DEF ToolsNext, ReadBoth, RewriteFile, Next, WriterNext
<1>3. QED
  BY <1>1, <1>2, PTL DEF ToolsSpec, Spec, WriterSpec

\* The two programs have the same objects as long as readchain accepts all.
AllValid == \A x \in DOMAIN heap : Valid(heap, x)

HasBalances(h, n) ==
    \A x \in Ids(n) :
        h[x].balances = Validate(h[x].blk, StartBalances(h, h[x].prev)).balances

SameObjects ==
    /\ \E n \in Nat : DOMAIN heap = Ids(n) /\ HasBalances(heap, n)
    /\ outcome # "orphan" =>
          /\ DOMAIN heap = Ids(Len(file))
          /\ AllValid => /\ wheap = heap /\ wbmap = bmap
                         /\ \A x \in DOMAIN heap : heap[x].prev = NoBlock => x = <<1, 1>>

ToolsInv == ReaderInv /\ WriterInv /\ SameObjects

LEMMA ReadBothKeepsInv ==
    ASSUME ToolsInv, NEW blk \in Pool, ReadBoth(blk)
    PROVE  SameObjects'
<1> DEFINE v  == Predecessor(blk, bmap)
           ok == IsValid(heap, blk, v)
<1>0. ReaderInv /\ WriterTree /\ SameObjects /\ Read(blk)
  BY DEF ToolsInv, WriterInv, ReadBoth, ReadNext
<1>1. PICK n \in 0 .. MaxBlocks - 1 :
          /\ IsTree(heap, n)
          /\ v = NoBlock \/ v \in Ids(n)
          /\ heap' = Put(heap, <<1, n + 1>>, NewBlock(heap, blk, v))
          /\ bmap' = IF ok THEN Put(bmap, blk.hash, <<1, n + 1>>) ELSE bmap
  BY <1>0, ReadEffect, Zenon
<1> DEFINE id == <<1, n + 1>>
<1> HIDE DEF v, ok
<1>2. IsAdded(heap', heap, n, blk, v) /\ n \in Nat /\ n + 1 \in Nat /\ DOMAIN heap = Ids(n)
  BY <1>1, ObjectAdded DEF IsTree
<1>3. DOMAIN heap' = Ids(n + 1)
  <2>1. IsTree(heap', n + 1)
    BY <1>2 DEF IsAdded
  <2>2. QED
    BY <2>1 DEF IsTree
<1>4. \A m \in Nat : Ids(m) = Ids(n) => m = n
  BY <1>2, IdsAreCounted
<1>5. HasBalances(heap', n + 1)
  <2>1. HasBalances(heap, n)
    BY <1>0, <1>2, <1>4 DEF SameObjects
  <2>2. \A x \in Ids(n) :
           heap'[x].balances = Validate(heap'[x].blk, StartBalances(heap', heap'[x].prev)).balances
    BY <1>2, <2>1 DEF HasBalances, IsAdded
  <2>3. heap'[id].balances = Validate(heap'[id].blk, StartBalances(heap', heap'[id].prev)).balances
    <3>1. heap'[id].balances = Validate(blk, StartBalances(heap, v)).balances
      BY <1>2 DEF IsAdded, NewBlock
    <3>2. StartBalances(heap', v) = StartBalances(heap, v) /\ heap'[id].blk = blk /\ heap'[id].prev = v
      BY <1>1, <1>2 DEF IsAdded
    <3>3. QED
      BY <3>1, <3>2
  <2>4. QED
    BY <1>2, <2>2, <2>3 DEF HasBalances, IsAdded
<1>6. ASSUME outcome' # "orphan"
      PROVE  /\ DOMAIN heap' = Ids(Len(file'))
             /\ AllValid' =>
                   /\ wheap' = heap' /\ wbmap' = bmap'
                   /\ \A x \in DOMAIN heap' : heap'[x].prev = NoBlock => x = <<1, 1>>
  <2>1. WriterRead(blk)
    BY <1>6 DEF ReadBoth, writerVars
  <2> DEFINE k == Len(file)
             w == Predecessor(blk, wbmap)
  <2>2. /\ k \in Nat /\ Len(file') = k + 1
        /\ wheap' = Put(wheap, <<1, k + 1>>, NewBlock(wheap, blk, w))
        /\ wbmap' = Put(wbmap, blk.hash, <<1, k + 1>>)
        /\ outcome = "reading"
        /\ outcome' = IF file = <<>> \/ w # NoBlock THEN "reading" ELSE "orphan"
    BY <1>0, <2>1, WriterReadEffect
  <2> HIDE DEF w
  <2>3. k = n
    BY <1>0, <1>2, <1>4, <2>2 DEF SameObjects
  <2>4. ASSUME AllValid'
        PROVE  /\ wheap' = heap' /\ wbmap' = bmap'
               /\ \A x \in DOMAIN heap' : heap'[x].prev = NoBlock => x = <<1, 1>>
    <3>1. /\ \A x \in Ids(n) : Valid(heap', x) = Valid(heap, x)
          /\ Valid(heap', id) = ok
      BY <1>1, <1>2, ValidStays DEF ok
    <3>2. Ids(n + 1) = Ids(n) \cup {id}
      BY <1>2 DEF IsAdded
    <3>3. AllValid /\ ok
      BY <1>2, <1>3, <2>4, <3>1, <3>2 DEF AllValid
    <3>4. /\ wheap = heap /\ wbmap = bmap /\ w = v
          /\ \A x \in DOMAIN heap : heap[x].prev = NoBlock => x = <<1, 1>>
      BY <1>0, <2>2, <3>3 DEF SameObjects, v, w
    <3>5. wheap' = heap' /\ wbmap' = bmap'
      BY <1>1, <2>2, <2>3, <3>3, <3>4
    <3>6. heap'[id].prev = v /\ \A x \in Ids(n) : heap'[x] = heap[x]
      BY <1>2 DEF IsAdded
    <3>7. v = NoBlock => id = <<1, 1>>
      <4>1. v = NoBlock => file = <<>>
        BY <1>6, <2>2, <3>4
      <4>2. file = <<>> => k = 0
        OBVIOUS
      <4>3. QED
        BY <2>3, <4>1, <4>2
    <3>8. QED
      BY <1>2, <1>3, <3>2, <3>4, <3>5, <3>6, <3>7
  <2>5. QED
    BY <1>3, <2>2, <2>3, <2>4
<1>7. QED
  BY <1>2, <1>3, <1>5, <1>6 DEF SameObjects

LEMMA ToolsInvariance == ToolsSpec => []ToolsInv
<1>1. ToolsInit => SameObjects
  <2> SUFFICES ASSUME ToolsInit PROVE SameObjects
    OBVIOUS
  <2>1. /\ DOMAIN heap = {} /\ wheap = heap /\ wbmap = bmap /\ Len(file) = 0 /\ Ids(0) = {}
    BY DEF ToolsInit, Init, WriterInit, NoMap, Ids
  <2>2. HasBalances(heap, 0)
    BY <2>1 DEF HasBalances
  <2>3. QED
    BY <2>1, <2>2 DEF SameObjects
<1>2. ReaderInv /\ WriterInv /\ SameObjects /\ [ToolsNext]_<<vars, writerVars>> => SameObjects'
  <2>1. ASSUME SameObjects, UNCHANGED <<vars, writerVars>> PROVE SameObjects'
    BY <2>1 DEF vars, writerVars, SameObjects, AllValid
  <2>2. ASSUME SameObjects, NEW n \in ChunkCounts, RewriteFile(n) PROVE SameObjects'
    BY <2>2 DEF RewriteFile, Rewrite, vars, SameObjects, AllValid
  <2>3. QED
    BY <2>1, <2>2, ReadBothKeepsInv DEF ToolsNext, ToolsInv
<1>3. QED
  BY <1>1, <1>2, ToolsAreBoth, ReaderInvariance, WriterInvariance, PTL DEF ToolsSpec, ToolsInv

\* Blocks that validate and say the same are the same: their transactions are
\* all signed.
LEMMA ValidIsSigned ==
    ASSUME NEW blk, IsBlock(blk), NEW owned, IsMap(owned), Validate(blk, owned).ok
    PROVE  \A i \in DOMAIN blk.txs : blk.txs[i].signed
<1> DEFINE b == [ok |-> TRUE, balances |-> owned]
           end == FoldLeft(ApplyTxn, b, blk.txs)
<1>1. PICK A : \E n \in Nat :
              /\ Readable(blk.txs, n, A)
              /\ b \in Accs(A)
              /\ \E g \in [0 .. n -> Accs(A)] : IsRun(g, n, blk.txs, b, end)
  BY ValidateRun
<1>2. PICK n \in Nat :
              /\ Readable(blk.txs, n, A)
              /\ b \in Accs(A)
              /\ \E g \in [0 .. n -> Accs(A)] : IsRun(g, n, blk.txs, b, end)
  BY <1>1
<1>3. PICK g \in [0 .. n -> Accs(A)] : IsRun(g, n, blk.txs, b, end)
  BY <1>2
<1>4. end.ok
  BY DEF Validate
<1> HIDE DEF b, end
<1> DEFINE S == {i \in 0 .. n : g[i].ok => \A j \in 1 .. i : blk.txs[j].signed}
<1>5. 0 \in S
  OBVIOUS
<1>6. ASSUME NEW i \in 0 .. n - 1, i \in S PROVE i + 1 \in S
  <2>1. i + 1 \in 1 .. n /\ (i + 1) - 1 = i /\ i \in 0 .. n
    OBVIOUS
  <2>2. g[i + 1] = ApplyTxn(g[i], blk.txs[i + 1]) /\ g[i] \in Accs(A)
    BY <1>3, <2>1 DEF IsRun
  <2>3. /\ blk.txs[i + 1].amount \in Int
        /\ {blk.txs[i + 1].dest, blk.txs[i + 1].change} \subseteq A
    BY <1>2, <2>1 DEF Readable
  <2>4. g[i + 1].ok => g[i].ok /\ blk.txs[i + 1].signed
    BY <2>2, <2>3, ApplyTxnStep
  <2>5. \A j \in 1 .. i + 1 : j \in 1 .. i \/ j = i + 1
    OBVIOUS
  <2>6. g[i + 1].ok => \A j \in 1 .. i + 1 : blk.txs[j].signed
    BY <1>6, <2>4, <2>5
  <2>7. QED
    BY <2>1, <2>6
<1> HIDE DEF S
<1>7. 0 .. n \subseteq S
  BY <1>5, <1>6, PrefixInduction
<1>8. g[n].ok
  BY <1>3, <1>4 DEF IsRun
<1>9. QED
  BY <1>2, <1>7, <1>8 DEF S, Readable

LEMMA SignedTxnsAgree ==
    ASSUME NEW x, NEW y, NEW r \in TxnsOf(x), NEW s \in TxnsOf(y),
           Unsigned(r) = Unsigned(s), r.signed, s.signed
    PROVE  r = s
<1>1. /\ r.source = s.source /\ r.dest = s.dest /\ r.change = s.change
      /\ r.amount = s.amount /\ r.signed = s.signed
  <2>1. /\ Unsigned(r).source = r.source /\ Unsigned(s).source = s.source
        /\ Unsigned(r).dest = r.dest /\ Unsigned(s).dest = s.dest
        /\ Unsigned(r).change = r.change /\ Unsigned(s).change = s.change
        /\ Unsigned(r).amount = r.amount /\ Unsigned(s).amount = s.amount
    BY DEF Unsigned, TxnsOf
  <2>2. r.signed = TRUE /\ s.signed = TRUE
    BY DEF TxnsOf
  <2>3. QED
    BY <2>1, <2>2
<1>2. QED
  BY <1>1 DEF TxnsOf

LEMMA ValidBlocksAgree ==
    ASSUME NEW x \in Hashed, NEW y \in Hashed, x.hash = y.hash, NEW owned, IsMap(owned),
           Validate(x, owned).ok, Validate(y, owned).ok
    PROVE  Validate(x, owned).balances = Validate(y, owned).balances
<1>1. /\ SayTheSame(x, y) /\ x \in Pool /\ y \in Pool
  BY HashesAreTrusted DEF Hashed
<1>2. /\ \A i \in DOMAIN x.txs : x.txs[i].signed
      /\ \A i \in DOMAIN y.txs : y.txs[i].signed
  BY <1>1, ValidIsSigned, PoolHasBlocks
<1>3. x.txs \in Seq(TxnsOf(x)) /\ y.txs \in Seq(TxnsOf(y))
  BY <1>1, FileAssumption DEF TxnsOf
<1> DEFINE ux == [i \in DOMAIN x.txs |-> Unsigned(x.txs[i])]
           uy == [i \in DOMAIN y.txs |-> Unsigned(y.txs[i])]
<1>4. ux = uy /\ x.reward = y.reward
  BY <1>1 DEF SayTheSame
<1>5. DOMAIN x.txs = DOMAIN y.txs
  BY <1>4
<1>6. \A i \in DOMAIN x.txs : Unsigned(x.txs[i]) = Unsigned(y.txs[i])
  BY <1>4, <1>5
<1> HIDE DEF ux, uy
<1>7. ASSUME NEW i \in DOMAIN x.txs PROVE x.txs[i] = y.txs[i]
  <2>1. x.txs[i] \in TxnsOf(x) /\ y.txs[i] \in TxnsOf(y)
    BY <1>3, <1>5
  <2>2. QED
    BY <1>2, <1>5, <1>6, <2>1, SignedTxnsAgree
<1>8. x.txs = y.txs
  BY <1>3, <1>5, <1>7
<1>9. QED
  BY <1>4, <1>8 DEF Validate

LEMMA ValidBalancesAreMaps ==
    ASSUME NEW h, NEW n, IsTree(h, n), HasBlocks(h, n), HasBalances(h, n),
           \A x \in Ids(n) : Valid(h, x)
    PROVE  \A x \in Ids(n) : IsMap(h[x].balances) /\ IsMap(StartBalances(h, h[x].prev))
<1> DEFINE S == {x \in Ids(n) : IsMap(h[x].balances) /\ IsMap(StartBalances(h, h[x].prev))}
<1>1. ASSUME NEW x \in Ids(n), h[x].prev = NoBlock \/ h[x].prev \in S
      PROVE  x \in S
  <2> DEFINE owned == StartBalances(h, h[x].prev)
  <2>1. IsMap(owned)
    BY <1>1, NoBalancesIsMap DEF StartBalances
  <2>2. IsBlock(h[x].blk)
    BY PoolHasBlocks DEF HasBlocks
  <2>3. Validate(h[x].blk, owned).ok /\ h[x].balances = Validate(h[x].blk, owned).balances
    BY DEF Valid, IsValid, HasBalances
  <2> HIDE DEF owned
  <2>4. IsMap(h[x].balances)
    BY <2>1, <2>2, <2>3, BlockCreatesReward
  <2>5. QED
    BY <2>1, <2>4 DEF owned
<1> HIDE DEF S
<1>2. Ids(n) \subseteq S
  BY <1>1, TreeInduction
<1>3. QED
  BY <1>2 DEF S

\* Objects with the same hash have the same balances.
LEMMA SameHashSameBalances ==
    ASSUME NEW h, NEW n, IsTree(h, n), HasBlocks(h, n), HasBalances(h, n),
           \A x \in Ids(n) : Valid(h, x) /\ (h[x].prev = NoBlock => x = <<1, 1>>)
    PROVE  \A x, y \in Ids(n) : h[x].blk.hash = h[y].blk.hash => h[x].balances = h[y].balances
<1> DEFINE H == {h[x].blk.hash : x \in Ids(n)}
           S == {x \in Ids(n) : \A y \in Ids(n) :
                   h[x].blk.hash = h[y].blk.hash => h[x].balances = h[y].balances}
<1>1. \A x \in Ids(n) : h[x].blk \in Hashed
  BY ValidIsHashed
<1>2. \A x, y \in Ids(n) : h[x].blk.hash = h[y].blk.hash => h[x].blk.prev = h[y].blk.prev
  BY <1>1, HashesAreTrusted DEF SayTheSame
<1>3. \A x \in Ids(n) : h[x].prev # NoBlock =>
         /\ h[x].prev \in Ids(n)
         /\ h[h[x].prev].blk.hash = h[x].blk.prev
         /\ h[x].blk.prev \in H
  <2>1. \A x \in Ids(n) : h[x].prev # NoBlock => h[x].prev \in Ids(n)
    BY PrevIsKnown
  <2>2. QED
    BY <2>1 DEF HasBlocks
<1>4. \A x \in Ids(n) : h[x].prev = NoBlock => h[x].blk.prev \notin H
  <2> SUFFICES ASSUME NEW x \in Ids(n), h[x].prev = NoBlock PROVE h[x].blk.prev \notin H
    OBVIOUS
  <2>1. H \in SUBSET {t.hash : t \in Hashed} /\ H # {}
    BY <1>1
  <2>2. PICK t \in Hashed : t.hash \in H /\ t.prev \notin H
    BY <2>1, HashesAreTrusted
  <2>3. PICK y \in Ids(n) : h[y].blk.hash = t.hash
    BY <2>2
  <2>4. h[y].blk.prev = t.prev
    BY <1>1, <2>2, <2>3, HashesAreTrusted DEF SayTheSame
  <2>5. h[y].prev = NoBlock
    BY <1>3, <2>2, <2>4
  <2>6. x = y
    BY <2>5
  <2>7. QED
    BY <2>2, <2>4, <2>6
<1> HIDE DEF H
<1>5. ASSUME NEW x \in Ids(n), h[x].prev = NoBlock \/ h[x].prev \in S
      PROVE  x \in S
  <2> SUFFICES ASSUME NEW y \in Ids(n), h[x].blk.hash = h[y].blk.hash
               PROVE  h[x].balances = h[y].balances
    OBVIOUS
  <2> DEFINE owned == StartBalances(h, h[x].prev)
  <2>1. h[x].blk.prev = h[y].blk.prev
    BY <1>2
  <2>2. owned = StartBalances(h, h[y].prev)
    <3>1. CASE h[x].prev = NoBlock
      <4>1. h[y].prev = NoBlock
        BY <1>3, <1>4, <2>1, <3>1
      <4>2. QED
        BY <3>1, <4>1
    <3>2. CASE h[x].prev # NoBlock
      <4>1. h[y].prev # NoBlock
        BY <1>3, <1>4, <2>1, <3>2
      <4>2. /\ h[x].prev \in S /\ h[y].prev \in Ids(n)
            /\ h[h[x].prev].blk.hash = h[h[y].prev].blk.hash
        BY <1>3, <1>5, <2>1, <3>2, <4>1
      <4>3. h[h[x].prev].balances = h[h[y].prev].balances
        BY <4>2
      <4>4. QED
        BY <3>2, <4>1, <4>3 DEF StartBalances
    <3>3. QED
      BY <3>1, <3>2
  <2>3. IsMap(owned)
    BY ValidBalancesAreMaps
  <2>4. /\ Validate(h[x].blk, owned).ok /\ h[x].balances = Validate(h[x].blk, owned).balances
        /\ Validate(h[y].blk, owned).ok /\ h[y].balances = Validate(h[y].blk, owned).balances
    BY <2>2 DEF Valid, IsValid, HasBalances
  <2> HIDE DEF owned
  <2>5. QED
    BY <1>1, <2>3, <2>4, ValidBlocksAgree
<1> HIDE DEF S
<1>6. Ids(n) \subseteq S
  BY <1>5, TreeInduction
<1>7. QED
  BY <1>6 DEF S

\* What is written after a chunk is what readchain knows: see MapsAreBalances.
THEOREM MapsFollowBlocks == ToolsSpec => []MapsAreBalances
<1>1. ToolsInv => MapsAreBalances
  <2> SUFFICES ASSUME ToolsInv, outcome = "written",
                      \A x \in DOMAIN heap : Valid(heap, x),
                      NEW i \in DOMAIN output
               PROVE  BalanceMapsEqual(output[i].map,
                                       heap[bmap[Last(output[i].blocks).hash]].balances)
    BY DEF MapsAreBalances, Valid
  <2> DEFINE n == Len(file)
             chain == Chain(wheap, wtip)
  <2>1. /\ DOMAIN heap = Ids(n) /\ wheap = heap /\ wbmap = bmap
        /\ \A x \in DOMAIN heap : heap[x].prev = NoBlock => x = <<1, 1>>
    BY DEF ToolsInv, SameObjects, AllValid
  <2>2. n \in Nat /\ \A m \in Nat : Ids(m) = Ids(n) => m = n
    BY IdsAreCounted DEF ToolsInv, WriterInv, WriterTree
  <2>3. IsTree(heap, n) /\ HasBlocks(heap, n) /\ HasBalances(heap, n)
    <3>1. PICK m \in 0 .. MaxBlocks : IsTree(heap, m) /\ HasBlocks(heap, m)
      BY DEF ToolsInv, ReaderInv
    <3>2. m = n
      BY <2>1, <2>2, <3>1 DEF IsTree
    <3>3. PICK k \in Nat : DOMAIN heap = Ids(k) /\ HasBalances(heap, k)
      BY DEF ToolsInv, SameObjects
    <3>4. k = n
      BY <2>1, <2>2, <3>3
    <3>5. QED
      BY <3>1, <3>2, <3>3, <3>4
  <2>4. /\ chain \in Seq({wheap[y] : y \in Ids(n)})
        /\ i \in 1 .. chunks
        /\ \E k \in 1 .. Len(chain) : /\ Last(output[i].blocks) = chain[k].blk
                                      /\ output[i].map = chain[k].balances
    BY ChainWritten DEF ToolsInv
  <2> HIDE DEF n, chain
  <2>5. PICK k \in 1 .. Len(chain) : /\ Last(output[i].blocks) = chain[k].blk
                                     /\ output[i].map = chain[k].balances
    BY <2>4
  <2>6. PICK x \in Ids(n) : chain[k] = heap[x]
    BY <2>1, <2>4, <2>5
  <2> DEFINE y == bmap[heap[x].blk.hash]
  <2>7. y \in Ids(n) /\ heap[y].blk.hash = heap[x].blk.hash
    BY <2>1, <2>6 DEF ToolsInv, ReaderInv, MapOK
  <2>8. heap[x].balances = heap[y].balances
    BY <2>1, <2>3, <2>7, SameHashSameBalances
  <2>9. QED
    BY <2>5, <2>6, <2>8 DEF BalanceMapsEqual, IncludedIn
<1>2. QED
  BY <1>1, ToolsInvariance, PTL

-----------------------------------------------------------------------------
(* genchain: the balances of the block under construction.                  *)

\* Validating one more transaction goes on where validation stopped.
LEMMA FoldAppend ==
    ASSUME NEW T, NEW s \in Seq(T), NEW t \in T, \A x \in T : x.amount \in Int,
           NEW m, IsMap(m)
    PROVE  LET b == [ok |-> TRUE, balances |-> m]
           IN  /\ FoldLeft(ApplyTxn, b, <<>>) = b
               /\ FoldLeft(ApplyTxn, b, Append(s, t)) = ApplyTxn(FoldLeft(ApplyTxn, b, s), t)
<1> DEFINE b == [ok |-> TRUE, balances |-> m]
           A == DOMAIN m \cup {x.dest : x \in T} \cup {x.change : x \in T}
           V == Accs(A)
           n == Len(s)
           r == Append(s, t)
<1>1. b \in V
  BY MapsAreMaps DEF Accs
<1>2. \A acc \in V : \A x \in T : ApplyTxn(acc, x) \in V
  <2> SUFFICES ASSUME NEW acc \in V, NEW x \in T PROVE ApplyTxn(acc, x) \in V
    OBVIOUS
  <2>1. {x.dest, x.change} \subseteq A
    OBVIOUS
  <2> HIDE DEF A
  <2>2. QED
    BY <2>1, ApplyTxnStep
<1> HIDE DEF b, V
<1>3. /\ n \in Nat /\ DOMAIN s = 1 .. n /\ DOMAIN r = 1 .. n + 1
      /\ \A i \in 1 .. n : s[i] \in T /\ r[i] = s[i]
      /\ r[n + 1] = t /\ \A i \in 1 .. n + 1 : r[i] \in T
  OBVIOUS
<1> HIDE DEF r, n
<1>4. FoldLeft(ApplyTxn, b, <<>>) = b
  <2>1. DOMAIN <<>> = 1 .. 0 /\ \A acc \in V : \A i \in 1 .. 0 : ApplyTxn(acc, <<>>[i]) \in V
    OBVIOUS
  <2>2. \E g \in [0 .. 0 -> V] : IsRun(g, 0, <<>>, b, FoldLeft(ApplyTxn, b, <<>>))
    BY <1>1, <2>1, FoldApplyTxn
  <2>3. QED
    BY <2>2 DEF IsRun
<1>5. PICK g \in [0 .. n -> V] : IsRun(g, n, s, b, FoldLeft(ApplyTxn, b, s))
  <2>1. \A acc \in V : \A i \in 1 .. n : ApplyTxn(acc, s[i]) \in V
    BY <1>2, <1>3
  <2>2. QED
    BY <1>1, <1>3, <2>1, FoldApplyTxn
<1>6. PICK h \in [0 .. n + 1 -> V] : IsRun(h, n + 1, r, b, FoldLeft(ApplyTxn, b, r))
  <2>1. n + 1 \in Nat /\ \A acc \in V : \A i \in 1 .. n + 1 : ApplyTxn(acc, r[i]) \in V
    BY <1>2, <1>3
  <2>2. QED
    BY <1>1, <1>3, <2>1, FoldApplyTxn
<1> DEFINE S == {i \in 0 .. n : g[i] = h[i]}
<1>7. 0 .. n \subseteq S
  <2>1. 0 \in S
    BY <1>3, <1>5, <1>6 DEF IsRun
  <2>2. ASSUME NEW i \in 0 .. n - 1, i \in S PROVE i + 1 \in S
    <3>1. i + 1 \in 1 .. n /\ i + 1 \in 1 .. n + 1 /\ i + 1 \in 0 .. n /\ (i + 1) - 1 = i
      BY <1>3
    <3>2. g[i + 1] = ApplyTxn(g[i], s[i + 1]) /\ h[i + 1] = ApplyTxn(h[i], r[i + 1])
      BY <1>5, <1>6, <3>1 DEF IsRun
    <3>3. QED
      BY <1>3, <2>2, <3>1, <3>2
  <2> HIDE DEF S
  <2>3. QED
    BY <1>3, <2>1, <2>2, PrefixInduction
<1>8. h[n + 1] = ApplyTxn(g[n], t)
  <2>1. n + 1 \in 1 .. n + 1 /\ n \in 0 .. n /\ (n + 1) - 1 = n
    BY <1>3
  <2>2. h[n + 1] = ApplyTxn(h[n], r[n + 1])
    BY <1>6, <2>1 DEF IsRun
  <2>3. QED
    BY <1>3, <1>7, <2>1, <2>2
<1>9. FoldLeft(ApplyTxn, b, r) = ApplyTxn(FoldLeft(ApplyTxn, b, s), t)
  BY <1>5, <1>6, <1>8 DEF IsRun
<1>10. QED
  BY <1>4, <1>9 DEF b, r

\* Two addresses own no more than all.
LEMMA TwoValues ==
    ASSUME NEW m, IsMap(m), NEW x, NEW y, x # y
    PROVE  Value(m, x) \in Nat /\ Value(m, y) \in Nat /\ Value(m, x) + Value(m, y) <= Supply(m)
<1> DEFINE W == Without(m, x)
<1>1. Supply(m) = Value(m, x) + Supply(W) /\ Value(m, x) \in Nat /\ Value(m, y) \in Nat
  BY SupplySplit
<1>2. IsMap(W) /\ DOMAIN W = DOMAIN m \ {x} /\ \A k \in DOMAIN m \ {x} : W[k] = m[k]
  BY WithoutMap
<1> HIDE DEF W
<1>3. Value(W, y) = Value(m, y)
  BY <1>2 DEF Value
<1>4. Supply(W) = Value(W, y) + Supply(Without(W, y)) /\ Supply(Without(W, y)) \in Nat
  BY <1>2, SupplySplit
<1>5. QED
  BY <1>1, <1>3, <1>4

\* What a payment between three addresses leaves them.
LEMMA PaymentArrives ==
    ASSUME NEW m, IsMap(m), Supply(m) < Wrap, NEW tx, tx.amount \in Nat,
           BalanceAvailable(tx, m),
           tx.source # tx.dest, tx.source # tx.change, tx.dest # tx.change
    PROVE  LET R == UpdateBalances(tx, m)
           IN  /\ IsMap(R)
               /\ Supply(R) <= Supply(m)
               /\ Value(R, tx.dest) = Value(m, tx.dest) + tx.amount
               /\ Value(R, tx.change) = Value(m, tx.change) + m[tx.source] - tx.amount
               /\ \A x : x \notin {tx.source, tx.dest, tx.change} => Value(R, x) = Value(m, x)
<1> DEFINE s == tx.source
           n1 == tx.amount
           n2 == m[tx.source] - tx.amount
           v1 == (Value(m, tx.dest) + n1) % Wrap
           m1 == Put(m, tx.dest, v1)
           v2 == (Value(m1, tx.change) + n2) % Wrap
           m2 == Put(m1, tx.change, v2)
           R == UpdateBalances(tx, m)
<1>1. n1 \in Nat /\ n2 \in Nat /\ n1 + n2 = Value(m, s)
  BY DEF BalanceAvailable, IsMap, Value
<1>2. /\ Value(m, tx.dest) \in Nat /\ Value(m, tx.dest) + n1 < Wrap
      /\ Value(m, tx.change) \in Nat /\ Value(m, tx.change) + n2 < Wrap
  <2>1. /\ Value(m, s) + Value(m, tx.dest) <= Supply(m)
        /\ Value(m, s) + Value(m, tx.change) <= Supply(m)
        /\ Value(m, tx.dest) \in Nat /\ Value(m, tx.change) \in Nat
    BY TwoValues
  <2>2. Supply(m) \in Nat /\ Wrap \in Nat
    BY SupplyType, LedgerAssumption
  <2>3. QED
    BY <1>1, <2>1, <2>2
<1>0. \A k \in Nat : k < Wrap => k % Wrap = k
  BY LedgerAssumption
<1>3. v1 = Value(m, tx.dest) + n1 /\ v1 \in Nat
  <2>1. Value(m, tx.dest) + n1 \in Nat
    BY <1>1, <1>2
  <2>2. QED
    BY <1>0, <1>2, <2>1
<1>4. R = Without(m2, s)
  BY DEF UpdateBalances, Without, Credit, Value
<1>5. IsMap(m1) /\ \A x : Value(m1, x) = IF x = tx.dest THEN v1 ELSE Value(m, x)
  <2> HIDE DEF v1
  <2>1. IsMap(Put(m, tx.dest, v1))
    BY <1>3, PutMap
  <2>2. \A x : Value(Put(m, tx.dest, v1), x) = IF x = tx.dest THEN v1 ELSE Value(m, x)
    BY DEF Value, Put
  <2>3. QED
    BY <2>1, <2>2
<1>6. v2 = Value(m, tx.change) + n2 /\ v2 \in Nat
  <2>1. Value(m1, tx.change) = Value(m, tx.change)
    BY <1>5
  <2> HIDE DEF m1
  <2>2. Value(m, tx.change) + n2 \in Nat
    BY <1>1, <1>2
  <2>3. QED
    BY <1>0, <1>2, <2>1, <2>2
<1>7. IsMap(m2) /\ \A x : Value(m2, x) = IF x = tx.change THEN v2 ELSE Value(m1, x)
  <2> HIDE DEF v2, m1
  <2>1. IsMap(Put(m1, tx.change, v2))
    BY <1>5, <1>6, PutMap
  <2>2. \A x : Value(Put(m1, tx.change, v2), x)
                = IF x = tx.change THEN v2 ELSE Value(m1, x)
    BY DEF Value, Put
  <2>3. QED
    BY <2>1, <2>2
<1>8. \A x : x # s => Value(R, x) = Value(m2, x)
  <2> HIDE DEF m2, R, s
  <2>1. DOMAIN R = DOMAIN m2 \ {s} /\ \A k \in DOMAIN m2 \ {s} : R[k] = m2[k]
    BY <1>4, <1>7, WithoutMap
  <2>2. QED
    BY <2>1 DEF Value
<1>9. IsMap(R) /\ Supply(R) <= Supply(m)
  BY UpdateMovesMoney
<1> HIDE DEF m1, m2, v1, v2, R
<1>10. QED
  BY <1>3, <1>5, <1>6, <1>7, <1>8, <1>9 DEF R

GenTypes ==
    /\ numBlocks \in Nat /\ numBlocks * BLOCK_REWARD < Wrap
    /\ numTxns \in Nat /\ blockIndex \in 0 .. numBlocks
    /\ txIndex \in 0 .. numTxns /\ Len(txs) \in 0 .. txIndex
    /\ IsMap(prevBal) /\ IsMap(bal)
    /\ utxos \in [DOMAIN utxos -> Nat]
    /\ txs \in Seq({txs[i] : i \in DOMAIN txs})
    /\ \A i \in DOMAIN txs : txs[i].amount \in Nat

\* bal is what the transactions leave of prevBal; it owns no more than the
\* rewards of the blocks so far, and covers utxos.
GenLedger ==
    /\ pc \in {"txn", "validate"} =>
          FoldLeft(ApplyTxn, [ok |-> TRUE, balances |-> prevBal], txs)
             = [ok |-> TRUE, balances |-> bal]
    /\ pc = "start" => bal = prevBal
    /\ pc \in {"txn", "validate", "write"} => blockIndex < numBlocks
    /\ pc \in {"start", "txn", "validate"} =>
          /\ Supply(bal) <= blockIndex * BLOCK_REWARD
          /\ \A x \in DOMAIN utxos : utxos[x] <= Value(bal, x)
    /\ pc = "write" =>
          /\ Supply(bal) <= (blockIndex + 1) * BLOCK_REWARD
          /\ \A x \in DOMAIN utxos :
                utxos[x] + (IF x = reward THEN BLOCK_REWARD ELSE 0) <= Value(bal, x)

GenInv == GenTypes /\ GenLedger

\* There are as many addresses as transactions, the reward's among them.
GenNames ==
    /\ IsFiniteSet(DOMAIN utxos)
    /\ pc = "start" => utxos = NoBalances \/ Cardinality(DOMAIN utxos) = numTxns
    /\ pc \in {"txn", "validate", "write"} =>
          Cardinality(DOMAIN utxos) = numTxns /\ reward \in DOMAIN utxos
    /\ AssertsHold

LEMMA RewardsFit ==
    ASSUME GenTypes
    PROVE  \A k \in 0 .. numBlocks :
        /\ k * BLOCK_REWARD \in Nat /\ k * BLOCK_REWARD < Wrap
        /\ k < numBlocks => /\ (k + 1) * BLOCK_REWARD = k * BLOCK_REWARD + BLOCK_REWARD
                            /\ (k + 1) * BLOCK_REWARD < Wrap
<1>1. /\ numBlocks \in Nat /\ BLOCK_REWARD \in Nat /\ Wrap \in Nat
      /\ numBlocks * BLOCK_REWARD < Wrap
  BY LedgerAssumption DEF GenTypes
<1>2. \A n, k, r \in Nat : k <= n => k * r \in Nat /\ k * r <= n * r /\ (k + 1) * r = k * r + r
  OBVIOUS
<1>3. \A k \in 0 .. numBlocks :
         k \in Nat /\ k * BLOCK_REWARD \in Nat /\ numBlocks * BLOCK_REWARD \in Nat
           /\ k * BLOCK_REWARD <= numBlocks * BLOCK_REWARD
           /\ (k + 1) * BLOCK_REWARD = k * BLOCK_REWARD + BLOCK_REWARD
           /\ (k < numBlocks => k + 1 \in Nat /\ k + 1 <= numBlocks
                                /\ (k + 1) * BLOCK_REWARD <= numBlocks * BLOCK_REWARD)
  BY <1>1, <1>2
<1>4. \A p, q \in Nat : p <= q /\ q < Wrap => p < Wrap
  BY <1>1
<1>5. \A k \in 0 .. numBlocks : k < numBlocks => (k + 1) * BLOCK_REWARD \in Nat
  BY <1>1, <1>3
<1>6. QED
  BY <1>1, <1>3, <1>4, <1>5

LEMMA FilledUpValues ==
    ASSUME NEW u, u \in [DOMAIN u -> Nat], NEW used, NEW least
    PROVE  LET R == FilledUp(u, used, least)
           IN  /\ R \in [DOMAIN R -> Nat] /\ DOMAIN u \subseteq DOMAIN R
               /\ \A x \in DOMAIN R : R[x] = IF x \in DOMAIN u THEN u[x] ELSE 0
  BY DEF FilledUp

LEMMA FoldNothing ==
    ASSUME NEW m, IsMap(m)
    PROVE  FoldLeft(ApplyTxn, [ok |-> TRUE, balances |-> m], <<>>) = [ok |-> TRUE, balances |-> m]
<1> DEFINE T == {[amount |-> 0]}
<1>1. <<>> \in Seq(T) /\ [amount |-> 0] \in T /\ \A x \in T : x.amount \in Int
  OBVIOUS
<1> HIDE DEF T
<1>2. QED
  BY <1>1, FoldAppend

\* A payment between three addresses that the program believes in.
LEMMA PaymentMade ==
    ASSUME GenInv, pc = "txn", NEW spend \in FindSpendable,
           NEW recv \in DOMAIN utxos \ {spend},
           NEW change \in DOMAIN utxos \ {spend, recv},
           NEW amount \in 1 .. utxos[spend], NEW tx,
           tx = [source |-> spend, dest |-> recv, change |-> change,
                 amount |-> amount, signed |-> TRUE]
    PROVE  /\ TxnValidate(tx) /\ BalanceAvailable(tx, bal)
           /\ IsMap(UpdateBalances(tx, bal))
           /\ Supply(UpdateBalances(tx, bal)) <= blockIndex * BLOCK_REWARD
           /\ FoldLeft(ApplyTxn, [ok |-> TRUE, balances |-> prevBal], Append(txs, tx))
                = [ok |-> TRUE, balances |-> UpdateBalances(tx, bal)]
           /\ LET u == Paid(spend, recv, change, amount)
              IN  /\ u \in [DOMAIN u -> Nat] /\ DOMAIN u = DOMAIN utxos \ {spend}
                  /\ \A x \in DOMAIN u : u[x] <= Value(UpdateBalances(tx, bal), x)
<1> DEFINE R == UpdateBalances(tx, bal)
           u == Paid(spend, recv, change, amount)
<1>1. /\ IsMap(prevBal) /\ IsMap(bal) /\ \A x \in DOMAIN utxos : utxos[x] \in Nat
      /\ utxos \in [DOMAIN utxos -> Nat]
  BY DEF GenInv, GenTypes
<1>2. /\ \A x \in DOMAIN utxos : utxos[x] <= Value(bal, x)
      /\ Supply(bal) <= blockIndex * BLOCK_REWARD
      /\ FoldLeft(ApplyTxn, [ok |-> TRUE, balances |-> prevBal], txs)
           = [ok |-> TRUE, balances |-> bal]
  BY DEF GenInv, GenLedger
<1>3. spend \in DOMAIN utxos /\ utxos[spend] > 0 /\ amount \in Nat /\ amount > 0
      /\ amount <= utxos[spend]
  BY <1>1 DEF FindSpendable
<1>4. spend \in DOMAIN bal /\ bal[spend] = Value(bal, spend) /\ bal[spend] \in Nat
      /\ bal[spend] >= utxos[spend]
  BY <1>1, <1>2, <1>3 DEF Value, IsMap
<1>5. /\ tx.source = spend /\ tx.dest = recv /\ tx.change = change
      /\ tx.amount = amount /\ tx.signed
  OBVIOUS
<1>6. TxnValidate(tx) /\ BalanceAvailable(tx, bal)
  BY <1>1, <1>3, <1>4, <1>5 DEF TxnValidate, BalanceAvailable
<1>7. Supply(bal) < Wrap /\ Supply(bal) \in Nat /\ blockIndex * BLOCK_REWARD \in Nat
  <2>1. blockIndex \in 0 .. numBlocks /\ Wrap \in Nat
    BY LedgerAssumption DEF GenInv, GenTypes
  <2>2. blockIndex * BLOCK_REWARD \in Nat /\ blockIndex * BLOCK_REWARD < Wrap
    BY <2>1, RewardsFit DEF GenInv
  <2>3. Supply(bal) \in Nat
    BY <1>1, SupplyType
  <2>4. QED
    BY <1>2, <2>1, <2>2, <2>3
<1>8. recv \in DOMAIN utxos /\ change \in DOMAIN utxos /\ spend # recv
      /\ spend # change /\ recv # change
  OBVIOUS
<1>9. /\ IsMap(R) /\ Supply(R) <= Supply(bal)
      /\ Value(R, recv) = Value(bal, recv) + amount
      /\ Value(R, change) = Value(bal, change) + bal[spend] - amount
      /\ \A x : x \notin {spend, recv, change} => Value(R, x) = Value(bal, x)
  <2>1. /\ tx.amount \in Nat
        /\ tx.source # tx.dest /\ tx.source # tx.change /\ tx.dest # tx.change
    BY <1>3, <1>5, <1>8
  <2>2. /\ IsMap(R) /\ Supply(R) <= Supply(bal)
        /\ Value(R, tx.dest) = Value(bal, tx.dest) + tx.amount
        /\ Value(R, tx.change) = Value(bal, tx.change) + bal[tx.source] - tx.amount
        /\ \A x : x \notin {tx.source, tx.dest, tx.change} => Value(R, x) = Value(bal, x)
    <3> HIDE DEF R
    <3>1. IsMap(bal) /\ Supply(bal) < Wrap /\ BalanceAvailable(tx, bal)
      BY <1>1, <1>6, <1>7
    <3>2. IsMap(R) /\ Supply(R) <= Supply(bal)
      BY <2>1, <3>1, PaymentArrives DEF R
    <3>3. Value(R, tx.dest) = Value(bal, tx.dest) + tx.amount
      BY <2>1, <3>1, PaymentArrives DEF R
    <3>4. Value(R, tx.change) = Value(bal, tx.change) + bal[tx.source] - tx.amount
      BY <2>1, <3>1, PaymentArrives DEF R
    <3>5. \A x : x \notin {tx.source, tx.dest, tx.change} => Value(R, x) = Value(bal, x)
      BY <2>1, <3>1, PaymentArrives DEF R
    <3>6. QED
      BY <3>2, <3>3, <3>4, <3>5
  <2> HIDE DEF R
  <2>3. QED
    BY <1>5, <2>2
<1>10. Supply(R) <= blockIndex * BLOCK_REWARD
  <2>1. Supply(R) \in Nat
    BY <1>9, SupplyType
  <2>2. QED
    BY <1>2, <1>7, <1>9, <2>1
<1>11. FoldLeft(ApplyTxn, [ok |-> TRUE, balances |-> prevBal], Append(txs, tx))
         = [ok |-> TRUE, balances |-> R]
  <2> DEFINE T == {txs[i] : i \in DOMAIN txs} \cup {tx}
  <2>1. txs \in Seq(T) /\ tx \in T /\ \A x \in T : x.amount \in Int
    <3>1. txs \in Seq({txs[i] : i \in DOMAIN txs}) /\ \A i \in DOMAIN txs : txs[i].amount \in Nat
      BY DEF GenInv, GenTypes
    <3>2. \A x \in T : x.amount \in Int
      BY <1>3, <1>5, <3>1
    <3>3. {txs[i] : i \in DOMAIN txs} \subseteq T /\ tx \in T
      OBVIOUS
    <3> HIDE DEF T
    <3>4. txs \in Seq(T)
      BY <3>1, <3>3
    <3>5. QED
      BY <3>2, <3>3, <3>4
  <2> HIDE DEF T
  <2>2. FoldLeft(ApplyTxn, [ok |-> TRUE, balances |-> prevBal], Append(txs, tx))
          = ApplyTxn(FoldLeft(ApplyTxn, [ok |-> TRUE, balances |-> prevBal], txs), tx)
    BY <1>1, <2>1, FoldAppend
  <2>3. ApplyTxn([ok |-> TRUE, balances |-> bal], tx) = [ok |-> TRUE, balances |-> R]
    BY <1>6 DEF ApplyTxn
  <2>4. QED
    BY <1>2, <2>2, <2>3
<1>12. /\ u \in [DOMAIN u -> Nat] /\ DOMAIN u = DOMAIN utxos \ {spend}
       /\ u[recv] = utxos[recv] + amount /\ u[change] = utxos[spend] - amount
       /\ \A x \in DOMAIN u : x \notin {recv, change} => u[x] = utxos[x]
  <2>1. /\ DOMAIN u = DOMAIN utxos \ {spend}
        /\ u[recv] = utxos[recv] + amount /\ u[change] = utxos[spend] - amount
        /\ \A x \in DOMAIN u : x \notin {recv, change} => u[x] = utxos[x]
        /\ u = [x \in DOMAIN u |-> u[x]]
    BY <1>8 DEF Paid, Restrict
  <2> HIDE DEF u
  <2>2. \A x \in DOMAIN u : u[x] \in Nat
    BY <1>1, <1>3, <1>8, <2>1
  <2>3. QED
    BY <2>1, <2>2
<1> HIDE DEF u, R
<1>13. ASSUME NEW x \in DOMAIN u PROVE u[x] <= Value(R, x)
  <2>1. \A y : Value(bal, y) \in Nat
    BY <1>1, SupplySplit
  <2>2. CASE x = recv
    BY <1>1, <1>2, <1>3, <1>8, <1>9, <1>12, <2>1, <2>2
  <2>3. CASE x = change
    BY <1>1, <1>3, <1>4, <1>8, <1>9, <1>12, <2>1, <2>3
  <2>4. CASE x \notin {recv, change}
    BY <1>2, <1>9, <1>12, <2>4
  <2>5. QED
    BY <2>2, <2>3, <2>4
<1>14. QED
  BY <1>6, <1>9, <1>10, <1>11, <1>12, <1>13 DEF u, R

\* The amounts that the program keeps stay covered when fresh addresses join.
LEMMA FilledUpCovered ==
    ASSUME NEW u, u \in [DOMAIN u -> Nat], NEW used, NEW least, NEW m, IsMap(m),
           \A x \in DOMAIN u : u[x] <= Value(m, x)
    PROVE  LET R == FilledUp(u, used, least)
           IN  R \in [DOMAIN R -> Nat] /\ \A x \in DOMAIN R : R[x] <= Value(m, x)
<1> DEFINE R == FilledUp(u, used, least)
<1>1. /\ R \in [DOMAIN R -> Nat] /\ DOMAIN u \subseteq DOMAIN R
      /\ \A x \in DOMAIN R : R[x] = IF x \in DOMAIN u THEN u[x] ELSE 0
  BY FilledUpValues
<1>2. \A x : Value(m, x) \in Nat
  BY SupplySplit
<1> HIDE DEF R
<1>3. \A x \in DOMAIN R : R[x] <= Value(m, x)
  BY <1>1, <1>2
<1>4. QED
  BY <1>1, <1>3 DEF R

\* What a block validates to while it is the one under construction.
LEMMA BlockValidates ==
    ASSUME GenInv, pc = "validate"
    PROVE  Validate(Block, prevBal)
             = [ok |-> TRUE, balances |-> Credit(bal, reward, BLOCK_REWARD)]
<1>1. FoldLeft(ApplyTxn, [ok |-> TRUE, balances |-> prevBal], txs)
        = [ok |-> TRUE, balances |-> bal]
  BY DEF GenInv, GenLedger
<1>2. Block.txs = txs /\ Block.hashed = TRUE /\ Block.reward = reward
  BY DEF Block
<1> DEFINE end == FoldLeft(ApplyTxn, [ok |-> TRUE, balances |-> prevBal], Block.txs)
<1>3. end = [ok |-> TRUE, balances |-> bal]
  BY <1>1, <1>2
<1>4. end.ok /\ end.balances = bal
  BY <1>3
<1>5. Validate(Block, prevBal)
        = IF end.ok
          THEN [ok |-> Block.hashed,
                balances |-> Credit(end.balances, Block.reward, BLOCK_REWARD)]
          ELSE end
  BY Zenon DEF Validate
<1> HIDE DEF end
<1>6. QED
  BY <1>2, <1>4, <1>5

LEMMA GenStartBlock ==
    ASSUME GenInv, StartBlock
    PROVE  GenInv'
<1>1. GenTypes'
  <2>1. utxos' \in [DOMAIN utxos' -> Nat]
    BY FilledUpValues DEF GenInv, GenTypes, StartBlock, EnsureMinUtxos
  <2>2. /\ numBlocks' = numBlocks /\ numBlocks \in Nat /\ numBlocks * BLOCK_REWARD < Wrap
        /\ numTxns' = numTxns /\ numTxns \in Nat
        /\ blockIndex' \in 0 .. numBlocks /\ txIndex' = 0
        /\ IsMap(prevBal') /\ IsMap(bal')
    BY DEF GenInv, GenTypes, StartBlock
  <2>3. txs' = <<>>
    BY DEF StartBlock
  <2>4. DOMAIN txs' = {} /\ txs' \in Seq({txs'[i] : i \in DOMAIN txs'}) /\ Len(txs') = 0
    BY <2>3
  <2>5. QED
    BY <2>1, <2>2, <2>4 DEF GenTypes
<1>2. GenLedger'
  <2>1. /\ IsMap(bal) /\ bal = prevBal /\ Supply(bal) <= blockIndex * BLOCK_REWARD
        /\ \A x \in DOMAIN utxos : utxos[x] <= Value(bal, x)
        /\ utxos \in [DOMAIN utxos -> Nat]
    BY DEF GenInv, GenTypes, GenLedger, StartBlock
  <2>2. /\ bal' = bal /\ prevBal' = bal /\ txs' = <<>> /\ blockIndex' = blockIndex
        /\ pc' \in {"txn", "validate"} /\ blockIndex < numBlocks /\ numBlocks' = numBlocks
        /\ utxos' = FilledUp(utxos, DOMAIN prevBal, numTxns)
    BY <2>1 DEF StartBlock, EnsureMinUtxos
  <2>3. \A x \in DOMAIN utxos' : utxos'[x] <= Value(bal, x)
    BY <2>1, <2>2, FilledUpCovered
  <2>4. FoldLeft(ApplyTxn, [ok |-> TRUE, balances |-> prevBal'], txs')
          = [ok |-> TRUE, balances |-> bal']
    BY <2>1, <2>2, FoldNothing
  <2>5. QED
    BY <2>1, <2>2, <2>3, <2>4 DEF GenLedger
<1>3. QED
  BY <1>1, <1>2 DEF GenInv

LEMMA GenCreateTxn ==
    ASSUME GenInv, CreateTxn
    PROVE  GenInv'
<1>1. PICK spend \in FindSpendable :
           \E recv \in DOMAIN utxos \ {spend} :
           \E change \in DOMAIN utxos \ {spend, recv} :
           \E amount \in 1 .. utxos[spend] :
              LET tx == [source |-> spend, dest |-> recv, change |-> change,
                         amount |-> amount, signed |-> TRUE]
                  ok == TxnValidate(tx) /\ BalanceAvailable(tx, bal)
              IN  /\ txs' = IF ok THEN Append(txs, tx) ELSE txs
                  /\ bal' = IF ok THEN UpdateBalances(tx, bal) ELSE bal
                  /\ utxos' = EnsureMinUtxos(
                         Paid(spend, recv, change, amount),
                         DOMAIN prevBal \cup DOMAIN bal \cup DOMAIN utxos
                             \cup {t.source : t \in ToSet(txs)})
  BY DEF CreateTxn
<1>2. PICK recv \in DOMAIN utxos \ {spend} :
           \E change \in DOMAIN utxos \ {spend, recv} :
           \E amount \in 1 .. utxos[spend] :
              LET tx == [source |-> spend, dest |-> recv, change |-> change,
                         amount |-> amount, signed |-> TRUE]
                  ok == TxnValidate(tx) /\ BalanceAvailable(tx, bal)
              IN  /\ txs' = IF ok THEN Append(txs, tx) ELSE txs
                  /\ bal' = IF ok THEN UpdateBalances(tx, bal) ELSE bal
                  /\ utxos' = EnsureMinUtxos(
                         Paid(spend, recv, change, amount),
                         DOMAIN prevBal \cup DOMAIN bal \cup DOMAIN utxos
                             \cup {t.source : t \in ToSet(txs)})
  BY <1>1
<1>3. PICK change \in DOMAIN utxos \ {spend, recv}, amount \in 1 .. utxos[spend] :
              LET tx == [source |-> spend, dest |-> recv, change |-> change,
                         amount |-> amount, signed |-> TRUE]
                  ok == TxnValidate(tx) /\ BalanceAvailable(tx, bal)
              IN  /\ txs' = IF ok THEN Append(txs, tx) ELSE txs
                  /\ bal' = IF ok THEN UpdateBalances(tx, bal) ELSE bal
                  /\ utxos' = EnsureMinUtxos(
                         Paid(spend, recv, change, amount),
                         DOMAIN prevBal \cup DOMAIN bal \cup DOMAIN utxos
                             \cup {t.source : t \in ToSet(txs)})
  BY <1>2
<1> DEFINE tx == [source |-> spend, dest |-> recv, change |-> change,
                  amount |-> amount, signed |-> TRUE]
           used == DOMAIN prevBal \cup DOMAIN bal \cup DOMAIN utxos
                     \cup {t.source : t \in ToSet(txs)}
           u == Paid(spend, recv, change, amount)
           R == UpdateBalances(tx, bal)
<1>4. /\ pc = "txn" /\ txIndex' = txIndex + 1 /\ txIndex < numTxns
      /\ UNCHANGED <<numBlocks, numTxns, pc, blockIndex, reward, prevBal>>
  BY DEF CreateTxn
<1>5. TxnValidate(tx) /\ BalanceAvailable(tx, bal)
  BY <1>4, PaymentMade
<1>6. IsMap(R) /\ Supply(R) <= blockIndex * BLOCK_REWARD
  BY <1>4, PaymentMade
<1>7. FoldLeft(ApplyTxn, [ok |-> TRUE, balances |-> prevBal], Append(txs, tx))
        = [ok |-> TRUE, balances |-> R]
  BY <1>4, PaymentMade
<1>8. u \in [DOMAIN u -> Nat] /\ \A x \in DOMAIN u : u[x] <= Value(R, x)
  BY <1>4, PaymentMade
<1>9. txs' = Append(txs, tx) /\ bal' = R /\ utxos' = FilledUp(u, used, numTxns)
  BY <1>3, <1>5 DEF EnsureMinUtxos
<1>10. tx.amount \in Nat
  BY <1>3
<1> HIDE DEF u, R, used, tx
<1>11. utxos' \in [DOMAIN utxos' -> Nat] /\ \A x \in DOMAIN utxos' : utxos'[x] <= Value(R, x)
  BY <1>6, <1>8, <1>9, FilledUpCovered
<1>12. /\ txs' \in Seq({txs'[i] : i \in DOMAIN txs'})
       /\ \A i \in DOMAIN txs' : txs'[i].amount \in Nat
       /\ Len(txs') = Len(txs) + 1
  <2> DEFINE T == {txs[i] : i \in DOMAIN txs}
  <2>1. txs \in Seq(T) /\ \A i \in DOMAIN txs : txs[i].amount \in Nat
    BY DEF GenInv, GenTypes
  <2> HIDE DEF T
  <2>2. /\ Len(txs) \in Nat /\ DOMAIN txs = 1 .. Len(txs)
        /\ DOMAIN txs' = 1 .. (Len(txs) + 1) /\ Len(txs') = Len(txs) + 1
        /\ \A i \in DOMAIN txs' : txs'[i] = IF i = Len(txs) + 1 THEN tx ELSE txs[i]
    BY <1>9, <2>1
  <2>3. txs' \in Seq(T \cup {tx})
    <3>1. txs \in Seq(T \cup {tx}) /\ tx \in T \cup {tx}
      BY <2>1
    <3>2. QED
      BY <1>9, <3>1
  <2>4. txs' = [i \in 1 .. Len(txs') |-> txs'[i]]
    BY <2>2, <2>3
  <2>5. txs' \in Seq({txs'[i] : i \in DOMAIN txs'})
    BY <2>2, <2>4
  <2>6. QED
    BY <1>10, <2>1, <2>2, <2>5
<1>13. GenTypes'
  <2>1. /\ numBlocks \in Nat /\ numBlocks * BLOCK_REWARD < Wrap
        /\ numTxns \in Nat /\ blockIndex \in 0 .. numBlocks
        /\ txIndex \in 0 .. numTxns /\ Len(txs) \in 0 .. txIndex /\ IsMap(prevBal)
    BY DEF GenInv, GenTypes
  <2>2. /\ numBlocks' \in Nat /\ numBlocks' * BLOCK_REWARD < Wrap
        /\ numTxns' \in Nat /\ blockIndex' \in 0 .. numBlocks' /\ IsMap(prevBal')
    BY <1>4, <2>1
  <2>5. txIndex' \in 0 .. numTxns' /\ Len(txs') \in 0 .. txIndex'
    BY <1>4, <1>12, <2>1
  <2>3. IsMap(bal')
    BY <1>6, <1>9
  <2>4. QED
    BY <1>11, <1>12, <2>2, <2>3, <2>5 DEF GenTypes
<1>14. GenLedger'
  BY <1>4, <1>6, <1>7, <1>9, <1>11 DEF GenInv, GenLedger
<1>15. QED
  BY <1>13, <1>14 DEF GenInv

LEMMA GenValidateBlock ==
    ASSUME GenInv, ValidateBlock
    PROVE  GenInv'
<1> DEFINE C == Credit(bal, reward, BLOCK_REWARD)
<1>1. /\ pc = "validate" /\ pc' = "write" /\ bal' = C
      /\ UNCHANGED <<numBlocks, numTxns, blockIndex, utxos, reward, prevBal, txs, txIndex>>
  BY BlockValidates DEF ValidateBlock
<1>2. /\ IsMap(bal) /\ Supply(bal) <= blockIndex * BLOCK_REWARD
      /\ blockIndex < numBlocks /\ blockIndex \in 0 .. numBlocks
      /\ utxos \in [DOMAIN utxos -> Nat]
      /\ \A x \in DOMAIN utxos : utxos[x] <= Value(bal, x)
  BY <1>1 DEF GenInv, GenTypes, GenLedger
<1>3. BLOCK_REWARD \in Nat /\ Wrap \in Nat
  BY LedgerAssumption
<1>4. /\ blockIndex * BLOCK_REWARD \in Nat
      /\ (blockIndex + 1) * BLOCK_REWARD = blockIndex * BLOCK_REWARD + BLOCK_REWARD
      /\ (blockIndex + 1) * BLOCK_REWARD < Wrap
  BY <1>2, RewardsFit DEF GenInv
<1>5. Supply(bal) \in Nat /\ Supply(bal) + BLOCK_REWARD < Wrap
  <2>1. Supply(bal) \in Nat
    BY <1>2, SupplyType
  <2> DEFINE p == blockIndex * BLOCK_REWARD
  <2>2. p \in Nat /\ p + BLOCK_REWARD < Wrap /\ Supply(bal) <= p
    BY <1>2, <1>4
  <2> HIDE DEF p
  <2>3. QED
    BY <1>3, <2>1, <2>2
<1>6. IsMap(C) /\ Credited(C, bal, reward, BLOCK_REWARD)
  BY <1>2, <1>3, <1>5, SupplyCredit
<1>7. /\ Supply(C) = Supply(bal) + BLOCK_REWARD
      /\ \A x : Value(C, x) = IF x = reward THEN Value(bal, x) + BLOCK_REWARD ELSE Value(bal, x)
  BY <1>6 DEF Credited
<1> HIDE DEF C
<1>8. Supply(C) <= (blockIndex + 1) * BLOCK_REWARD
  <2> DEFINE p == blockIndex * BLOCK_REWARD
             q == (blockIndex + 1) * BLOCK_REWARD
  <2>1. p \in Nat /\ q = p + BLOCK_REWARD /\ Supply(bal) <= p
    BY <1>2, <1>4
  <2> HIDE DEF p, q
  <2>2. Supply(C) <= q
    BY <1>3, <1>5, <1>7, <2>1
  <2>3. QED
    BY <2>2 DEF q
<1>9. \A x : Value(bal, x) \in Nat
  BY <1>2, SupplySplit
<1>10. \A x \in DOMAIN utxos :
          utxos[x] + (IF x = reward THEN BLOCK_REWARD ELSE 0) <= Value(C, x)
  BY <1>2, <1>3, <1>7, <1>9
<1>11. GenTypes'
  BY <1>1, <1>6 DEF GenInv, GenTypes
<1>12. GenLedger'
  BY <1>1, <1>2, <1>8, <1>10 DEF GenLedger
<1>13. QED
  BY <1>11, <1>12 DEF GenInv

LEMMA GenWriteBlock ==
    ASSUME GenInv, WriteBlock
    PROVE  GenInv'
<1>1. /\ pc = "write" /\ prevBal' = bal /\ bal' = bal /\ blockIndex' = blockIndex + 1
      /\ pc' \in {"start", "crashed"}
      /\ UNCHANGED <<numBlocks, numTxns, reward, txs, txIndex>>
      /\ IF reward \in DOMAIN utxos
         THEN utxos' = [utxos EXCEPT ![reward] = @ + BLOCK_REWARD] /\ pc' = "start"
         ELSE utxos' = utxos /\ pc' = "crashed"
  BY DEF WriteBlock
<1>2. /\ blockIndex \in 0 .. numBlocks /\ blockIndex < numBlocks /\ numBlocks \in Nat
      /\ Len(txs) \in 0 .. txIndex
      /\ utxos \in [DOMAIN utxos -> Nat]
      /\ \A x \in DOMAIN utxos :
            utxos[x] + (IF x = reward THEN BLOCK_REWARD ELSE 0) <= Value(bal, x)
  BY <1>1 DEF GenInv, GenTypes, GenLedger
<1>3. BLOCK_REWARD \in Nat
  BY LedgerAssumption
<1>4. /\ utxos' \in [DOMAIN utxos' -> Nat] /\ DOMAIN utxos' = DOMAIN utxos
      /\ pc' = "start" =>
           \A x \in DOMAIN utxos' :
              utxos'[x] = utxos[x] + (IF x = reward THEN BLOCK_REWARD ELSE 0)
  BY <1>1, <1>2, <1>3
<1>5. GenTypes'
  BY <1>1, <1>2, <1>4 DEF GenInv, GenTypes
<1>6. GenLedger'
  BY <1>1, <1>2, <1>4 DEF GenInv, GenLedger
<1>7. QED
  BY <1>5, <1>6 DEF GenInv

LEMMA GenInitial == GenInit => GenInv
<1> SUFFICES ASSUME GenInit PROVE GenInv
  OBVIOUS
<1>1. IsMap(NoBalances) /\ DOMAIN NoBalances = {}
  BY NoBalancesIsMap DEF NoBalances
<1>2. Supply(NoBalances) = 0
  BY <1>1, SupplyIsSums, SumsEquation
<1>3. /\ numBlocks \in Nat /\ numBlocks * BLOCK_REWARD < Wrap
      /\ numTxns \in Nat /\ blockIndex = 0 /\ blockIndex \in 0 .. numBlocks /\ txIndex = 0
      /\ utxos = NoBalances /\ prevBal = NoBalances /\ bal = NoBalances /\ txs = <<>>
      /\ pc = "start" /\ 0 * BLOCK_REWARD = 0
  BY GenAssumption, LedgerAssumption DEF GenInit
<1>4. utxos \in [DOMAIN utxos -> Nat]
  BY <1>1, <1>3
<1>5. DOMAIN txs = {} /\ txs \in Seq({txs[i] : i \in DOMAIN txs}) /\ Len(txs) = 0
  BY <1>3
<1>6. GenTypes
  BY <1>1, <1>3, <1>4, <1>5 DEF GenTypes
<1>7. GenLedger
  BY <1>1, <1>2, <1>3 DEF GenLedger
<1>8. QED
  BY <1>6, <1>7 DEF GenInv

LEMMA GenStep == GenInv /\ [GenNext]_genVars => GenInv'
<1> SUFFICES ASSUME GenInv, [GenNext]_genVars PROVE GenInv'
  OBVIOUS
<1>1. CASE StartBlock
  BY <1>1, GenStartBlock
<1>2. CASE StartWithNone
  BY <1>2 DEF GenInv, GenTypes, GenLedger, StartWithNone
<1>3. CASE CreateTxn
  BY <1>3, GenCreateTxn
<1>4. CASE CreateTxnAborts
  BY <1>4 DEF GenInv, GenTypes, GenLedger, CreateTxnAborts
<1>5. CASE EndTxns
  BY <1>5 DEF GenInv, GenTypes, GenLedger, EndTxns
<1>6. CASE ValidateBlock
  BY <1>6, GenValidateBlock
<1>7. CASE WriteBlock
  BY <1>7, GenWriteBlock
<1>8. CASE Finish
  BY <1>8 DEF GenInv, GenTypes, GenLedger, Finish
<1>9. CASE Ended
  BY <1>9 DEF GenInv, GenTypes, GenLedger, Ended, genVars
<1>10. CASE UNCHANGED genVars
  BY <1>10 DEF GenInv, GenTypes, GenLedger, genVars
<1>11. CASE WriteBlockAborts
  BY <1>11 DEF GenInv, GenTypes, GenLedger, WriteBlockAborts
<1>12. QED
  BY <1>1, <1>2, <1>3, <1>4, <1>5, <1>6, <1>7, <1>8, <1>9, <1>10, <1>11 DEF GenNext

LEMMA GenInvariance == GenSpec => []GenInv
  BY GenInitial, GenStep, PTL DEF GenSpec

\* Whatever the program takes an address to own, the block under construction
\* has: an address that receives change loses what it had in utxos, which the
\* balance map keeps, so the two may differ, but never the wrong way.
THEOREM AmountsAreCovered == GenSpec => []AmountsCovered
<1>1. GenInv => AmountsCovered
  <2> SUFFICES ASSUME GenInv, pc \in {"start", "txn"}, NEW a \in DOMAIN utxos, utxos[a] > 0
               PROVE  a \in DOMAIN bal /\ bal[a] >= utxos[a]
    BY DEF AmountsCovered
  <2>1. utxos[a] \in Nat /\ utxos[a] <= Value(bal, a) /\ IsMap(bal)
    BY DEF GenInv, GenTypes, GenLedger
  <2>2. a \in DOMAIN bal
    BY <2>1 DEF Value
  <2>3. QED
    BY <2>1, <2>2 DEF Value, IsMap
<1>2. QED
  BY <1>1, GenInvariance, PTL

\* Validating the whole block gives what its transactions gave one by one,
\* with the reward, and never fails: assert(block->validate()) holds.
THEOREM RevalidationIsTheSame ==
    GenSpec => [](/\ RevalidationAgrees
                  /\ pc = "validate" => Validate(Block, prevBal).ok)
<1>1. GenInv => /\ RevalidationAgrees
                /\ pc = "validate" => Validate(Block, prevBal).ok
  BY BlockValidates DEF RevalidationAgrees
<1>2. QED
  BY <1>1, GenInvariance, PTL

-----------------------------------------------------------------------------
(* Names of addresses, which are the hashes of fresh keys: the code counts  *)
(* on there always being another, so the asserts are proved for an infinite *)
(* set of names.                                                            *)

EndlessNames == Addrs \subseteq Nat /\ ~IsFiniteSet(Addrs)

LEMMA LeastNumber ==
    ASSUME NEW S \in SUBSET Nat, S # {}
    PROVE  \E m \in S : \A y \in S : m <= y
<1> DEFINE R == OpToRel(<, Nat)
<1>1. IsWellFoundedOn(R, Nat)
  BY NatLessThanWellFounded
<1>2. R = {ss \in Nat \X Nat : ss[1] < ss[2]}
  BY DEF OpToRel
<1> HIDE DEF R
<1>3. PICK m \in S : \A y \in S : ~(<<y, m>> \in R)
  BY <1>1, WFMin
<1>4. ASSUME NEW y \in S PROVE m <= y
  <2>1. y \in Nat /\ m \in Nat /\ <<y, m>> \in Nat \X Nat
    BY <1>3
  <2>2. ~(y < m)
    BY <1>2, <1>3, <2>1
  <2>3. QED
    BY <2>1, <2>2
<1>5. QED
  BY <1>3, <1>4

\* An infinite set of numbers has its n smallest ones.
LEMMA SmallestNumbers ==
    ASSUME NEW S \in SUBSET Nat, ~IsFiniteSet(S)
    PROVE  \A n \in Nat : \E s \in SUBSET S :
              /\ IsFiniteSet(s) /\ Cardinality(s) = n
              /\ \A x \in s, y \in S \ s : x < y
<1> DEFINE Good(s, n) == /\ IsFiniteSet(s) /\ Cardinality(s) = n
                         /\ \A x \in s, y \in S \ s : x < y
           T == {n \in Nat : \E s \in SUBSET S : Good(s, n)}
<1>1. 0 \in T
  <2>1. Good({}, 0)
    BY FS_EmptySet
  <2>2. QED
    BY <2>1
<1>2. ASSUME NEW n \in Nat, n \in T PROVE n + 1 \in T
  <2>1. PICK s \in SUBSET S : Good(s, n)
    BY <1>2
  <2>2. S \ s # {}
    <3>1. IsFiniteSet(s)
      BY <2>1
    <3>2. S # s
      BY <3>1
    <3>3. QED
      BY <3>2
  <2>3. PICK m \in S \ s : \A y \in S \ s : m <= y
    <3>1. S \ s \in SUBSET Nat
      OBVIOUS
    <3>2. QED
      BY <2>2, <3>1, LeastNumber
  <2> DEFINE t == s \cup {m}
  <2>4. IsFiniteSet(t) /\ Cardinality(t) = n + 1
    BY <2>1, <2>3, FS_AddElement
  <2>5. ASSUME NEW x \in t, NEW y \in S \ t PROVE x < y
    <3>1. y \in S \ s /\ y # m /\ y \in Nat /\ m \in Nat
      BY <2>3
    <3>2. CASE x = m
      BY <2>3, <3>1, <3>2
    <3>3. CASE x \in s
      BY <2>1, <3>1, <3>3
    <3>4. QED
      BY <3>2, <3>3
  <2>6. t \in SUBSET S
    BY <2>3
  <2> HIDE DEF t
  <2>7. Good(t, n + 1)
    BY <2>4, <2>5
  <2>8. QED
    BY <2>6, <2>7
<1> HIDE DEF T
<1>3. Nat \subseteq T
  BY <1>1, <1>2, NumberInduction
<1>4. QED
  BY <1>3 DEF T

\* There are always as many fresh names as are asked for.
LEMMA FreshNames ==
    ASSUME EndlessNames, NEW n \in Nat, NEW used, IsFiniteSet(used)
    PROVE  /\ IsFiniteSet(Fresh(n, used)) /\ Cardinality(Fresh(n, used)) = n
           /\ Fresh(n, used) \cap used = {}
<1> DEFINE S == Addrs \ used
<1>1. S \in SUBSET Nat
  BY DEF EndlessNames
<1>2. ~IsFiniteSet(S)
  <2>1. ASSUME IsFiniteSet(S) PROVE FALSE
    <3>1. IsFiniteSet(S \cup used)
      BY <2>1, FS_Union
    <3>2. Addrs \in SUBSET (S \cup used)
      OBVIOUS
    <3>3. QED
      BY <3>1, <3>2, FS_Subset DEF EndlessNames
  <2>2. QED
    BY <2>1
<1>3. PICK s \in SUBSET S : /\ IsFiniteSet(s) /\ Cardinality(s) = n
                            /\ \A x \in s, y \in S \ s : x < y
  <2> HIDE DEF S
  <2>1. QED
    BY <1>1, <1>2, SmallestNumbers
<1>4. \A q \in SUBSET S : Addrs \ (used \cup q) = S \ q
  OBVIOUS
<1>5. \E q \in kSubset(n, Addrs \ used) :
         IsFiniteSet(q) /\ \A x \in q, y \in Addrs \ (used \cup q) : x < y
  BY <1>3, <1>4 DEF kSubset
<1>6. Fresh(n, used) \in kSubset(n, Addrs \ used) /\ IsFiniteSet(Fresh(n, used))
  BY <1>5 DEF Fresh
<1>7. QED
  BY <1>6 DEF kSubset

\* ensure_min_utxos leaves exactly least addresses where there were no more.
LEMMA FilledUpNumber ==
    ASSUME EndlessNames, NEW u, IsFiniteSet(DOMAIN u), NEW used, IsFiniteSet(used),
           NEW least \in Nat, Cardinality(DOMAIN u) <= least
    PROVE  /\ IsFiniteSet(DOMAIN FilledUp(u, used, least))
           /\ Cardinality(DOMAIN FilledUp(u, used, least)) = least
           /\ DOMAIN u \subseteq DOMAIN FilledUp(u, used, least)
<1> DEFINE missing == least - Cardinality(DOMAIN u)
           new == IF missing > 0 THEN Fresh(missing, used \cup DOMAIN u) ELSE {}
<1>1. Cardinality(DOMAIN u) \in Nat
  BY FS_CardinalityType
<1>2. IsFiniteSet(used \cup DOMAIN u)
  BY FS_Union
<1>3. missing \in Nat /\ least = Cardinality(DOMAIN u) + missing
  BY <1>1
<1> HIDE DEF missing
<1>4. IsFiniteSet(new) /\ Cardinality(new) = missing /\ new \cap DOMAIN u = {}
  <2>1. CASE missing > 0
    BY <1>2, <1>3, <2>1, FreshNames
  <2>2. CASE ~(missing > 0)
    BY <1>3, <2>2, FS_EmptySet
  <2>3. QED
    BY <2>1, <2>2
<1>5. DOMAIN FilledUp(u, used, least) = DOMAIN u \cup new
  BY DEF FilledUp, missing
<1> HIDE DEF new
<1>6. IsFiniteSet(DOMAIN u \cup new) /\ Cardinality(DOMAIN u \cup new) = least
  <2>1. Cardinality(DOMAIN u \cap new) = 0
    BY <1>4, FS_EmptySet
  <2>2. Cardinality(DOMAIN u \cup new)
          = Cardinality(DOMAIN u) + Cardinality(new) - Cardinality(DOMAIN u \cap new)
    BY <1>4, FS_Union
  <2>3. IsFiniteSet(DOMAIN u \cup new)
    BY <1>4, FS_Union
  <2>4. QED
    BY <1>1, <1>3, <1>4, <2>1, <2>2, <2>3
<1>7. QED
  BY <1>5, <1>6

LEMMA TxnSourcesFinite ==
    ASSUME GenTypes
    PROVE  IsFiniteSet({t.source : t \in ToSet(txs)})
<1> DEFINE S == {t.source : t \in ToSet(txs)}
           f == [i \in 1 .. Len(txs) |-> txs[i].source]
<1>1. Len(txs) \in Nat /\ DOMAIN txs = 1 .. Len(txs)
  <2> DEFINE T == {txs[i] : i \in DOMAIN txs}
  <2>1. txs \in Seq(T)
    BY DEF GenTypes
  <2> HIDE DEF T
  <2>2. QED
    BY <2>1
<1>2. S = {txs[i].source : i \in 1 .. Len(txs)}
  BY <1>1 DEF ToSet
<1>3. f \in Surjection(1 .. Len(txs), S)
  <2>1. f \in [1 .. Len(txs) -> S]
    BY <1>2
  <2>2. \A y \in S : \E i \in 1 .. Len(txs) : f[i] = y
    BY <1>2
  <2>3. QED
    BY <2>1, <2>2 DEF Surjection
<1> HIDE DEF S, f
<1>4. IsFiniteSet(1 .. Len(txs))
  BY <1>1, FS_Interval
<1>5. IsFiniteSet(S)
  BY <1>3, <1>4, FS_Surjection
<1>6. QED
  BY <1>5 DEF S

\* Two addresses at least when there is one to spend from beside the reward's.
LEMMA SpendableIsNotReward ==
    ASSUME IsFiniteSet(DOMAIN utxos), reward \in DOMAIN utxos, FindSpendable # {},
           Cardinality(DOMAIN utxos) < 3
    PROVE  Cardinality(DOMAIN utxos) = 2
<1>1. PICK a \in DOMAIN utxos : a # reward
  BY DEF FindSpendable
<1>2. IsFiniteSet({a}) /\ Cardinality({a}) = 1
  BY FS_Singleton
<1>3. Cardinality({a} \cup {reward}) = 2
  <2>1. reward \notin {a}
    BY <1>1
  <2>2. Cardinality({a} \cup {reward}) = Cardinality({a}) + 1
    BY <1>2, <2>1, FS_AddElement
  <2>3. QED
    BY <1>2, <2>2
<1>4. {a} \cup {reward} \in SUBSET DOMAIN utxos
  BY <1>1
<1>5. Cardinality({a} \cup {reward}) <= Cardinality(DOMAIN utxos)
  BY <1>4, FS_Subset
<1>6. Cardinality(DOMAIN utxos) \in Nat
  BY FS_CardinalityType
<1>7. QED
  BY <1>3, <1>5, <1>6

LEMMA GenNamesInitial == GenInit => GenNames
<1> SUFFICES ASSUME GenInit PROVE GenNames
  OBVIOUS
<1>1. utxos = NoBalances /\ pc = "start"
  BY DEF GenInit
<1>2. IsFiniteSet(DOMAIN NoBalances)
  BY NoBalancesIsMap DEF IsMap
<1>3. QED
  BY <1>1, <1>2 DEF GenNames, AssertsHold

LEMMA GenNamesStart ==
    ASSUME EndlessNames, GenInv, GenNames, StartBlock
    PROVE  GenNames'
<1>1. /\ pc = "start" /\ pc' \in {"txn", "validate"} /\ numTxns' = numTxns /\ numTxns \in Nat
      /\ utxos' = FilledUp(utxos, DOMAIN prevBal, numTxns) /\ reward' \in DOMAIN utxos'
  BY DEF GenInv, GenTypes, StartBlock, EnsureMinUtxos
<1>2. IsFiniteSet(DOMAIN utxos) /\ Cardinality(DOMAIN utxos) <= numTxns
  <2>1. utxos = NoBalances => Cardinality(DOMAIN utxos) = 0
    BY FS_EmptySet DEF NoBalances
  <2>2. QED
    BY <1>1, <2>1 DEF GenNames
<1>3. IsFiniteSet(DOMAIN prevBal)
  BY DEF GenInv, GenTypes, IsMap
<1>4. IsFiniteSet(DOMAIN utxos') /\ Cardinality(DOMAIN utxos') = numTxns
  BY <1>1, <1>2, <1>3, FilledUpNumber
<1>5. QED
  BY <1>1, <1>4 DEF GenNames, AssertsHold

\* No name at all only where none is asked for.
LEMMA GenNamesNone ==
    ASSUME EndlessNames, GenInv, GenNames, StartWithNone
    PROVE  GenNames'
<1>1. /\ pc = "start" /\ pc' = "crashed" /\ numTxns' = numTxns /\ numTxns \in Nat
      /\ utxos' = utxos /\ DOMAIN FilledUp(utxos, DOMAIN prevBal, numTxns) = {}
  BY DEF GenInv, GenTypes, StartWithNone, EnsureMinUtxos
<1>2. IsFiniteSet(DOMAIN utxos) /\ Cardinality(DOMAIN utxos) <= numTxns
  <2>1. utxos = NoBalances => Cardinality(DOMAIN utxos) = 0
    BY FS_EmptySet DEF NoBalances
  <2>2. QED
    BY <1>1, <2>1 DEF GenNames
<1>3. IsFiniteSet(DOMAIN prevBal)
  BY DEF GenInv, GenTypes, IsMap
<1>4. Cardinality({}) = numTxns
  BY <1>1, <1>2, <1>3, FilledUpNumber
<1>5. numTxns = 0
  BY <1>4, FS_EmptySet
<1>6. QED
  BY <1>1, <1>2, <1>5 DEF GenNames, AssertsHold

\* The spender leaves and one fresh address comes.
LEMMA GenNamesPayment ==
    ASSUME EndlessNames, GenInv, GenNames, CreateTxn
    PROVE  GenNames'
<1> DEFINE used == DOMAIN prevBal \cup DOMAIN bal \cup DOMAIN utxos
                     \cup {t.source : t \in ToSet(txs)}
<1>1. PICK spend \in FindSpendable :
           \E recv, change, amount :
              utxos' = EnsureMinUtxos(Paid(spend, recv, change, amount), used)
  BY DEF CreateTxn
<1>2. /\ pc = "txn" /\ pc' = pc /\ numTxns' = numTxns /\ reward' = reward /\ numTxns \in Nat
  BY DEF CreateTxn, GenInv, GenTypes
<1>3. /\ IsFiniteSet(DOMAIN utxos) /\ Cardinality(DOMAIN utxos) = numTxns
      /\ reward \in DOMAIN utxos
  BY <1>2 DEF GenNames
<1>4. spend \in DOMAIN utxos /\ spend # reward
  BY DEF FindSpendable
<1>5. PICK recv, change, amount :
           utxos' = EnsureMinUtxos(Paid(spend, recv, change, amount), used)
  BY <1>1
<1> DEFINE u == Paid(spend, recv, change, amount)
<1>6. DOMAIN u = DOMAIN utxos \ {spend}
  BY DEF Paid, Restrict
<1>7. IsFiniteSet(used)
  <2>1. IsFiniteSet(DOMAIN prevBal) /\ IsFiniteSet(DOMAIN bal)
    BY DEF GenInv, GenTypes, IsMap
  <2>2. IsFiniteSet({t.source : t \in ToSet(txs)})
    BY TxnSourcesFinite DEF GenInv
  <2>3. IsFiniteSet(DOMAIN prevBal \cup DOMAIN bal)
    BY <2>1, FS_Union
  <2>4. IsFiniteSet(DOMAIN prevBal \cup DOMAIN bal \cup DOMAIN utxos)
    BY <1>3, <2>3, FS_Union
  <2>5. QED
    BY <2>2, <2>4, FS_Union
<1> HIDE DEF used, u
<1>8. IsFiniteSet(DOMAIN u) /\ Cardinality(DOMAIN u) <= numTxns
  <2>1. IsFiniteSet(DOMAIN u) /\ Cardinality(DOMAIN u) = Cardinality(DOMAIN utxos) - 1
    BY <1>3, <1>4, <1>6, FS_RemoveElement
  <2>2. QED
    BY <1>2, <1>3, <2>1
<1>9. utxos' = FilledUp(u, used, numTxns)
  BY <1>5 DEF EnsureMinUtxos, u
<1>10. /\ IsFiniteSet(DOMAIN utxos') /\ Cardinality(DOMAIN utxos') = numTxns
      /\ DOMAIN u \subseteq DOMAIN utxos'
  BY <1>2, <1>7, <1>8, <1>9, FilledUpNumber
<1>11. reward \in DOMAIN utxos'
  BY <1>3, <1>4, <1>6, <1>10
<1>12. QED
  BY <1>2, <1>10, <1>11 DEF GenNames, AssertsHold

LEMMA GenNamesStep ==
    ASSUME EndlessNames, GenInv, GenNames, [GenNext]_genVars
    PROVE  GenNames'
<1>1. CASE StartBlock
  BY <1>1, GenNamesStart
<1>2. CASE StartWithNone
  BY <1>2, GenNamesNone
<1>3. CASE CreateTxn
  BY <1>3, GenNamesPayment
<1>4. CASE CreateTxnAborts
  <2>1. /\ pc = "txn" /\ pc' = "aborted" /\ utxos' = utxos /\ numTxns' = numTxns
        /\ FindSpendable # {} /\ Cardinality(DOMAIN utxos) < 3
    BY <1>4 DEF CreateTxnAborts
  <2>2. /\ IsFiniteSet(DOMAIN utxos) /\ reward \in DOMAIN utxos
        /\ Cardinality(DOMAIN utxos) = numTxns
    BY <2>1 DEF GenNames
  <2>3. Cardinality(DOMAIN utxos) = 2
    BY <2>1, <2>2, SpendableIsNotReward
  <2>4. QED
    BY <2>1, <2>2, <2>3 DEF GenNames, AssertsHold
<1>5. CASE EndTxns
  BY <1>5 DEF GenNames, AssertsHold, EndTxns
<1>6. CASE ValidateBlock
  <2>1. /\ pc = "validate" /\ pc' = "write"
        /\ utxos' = utxos /\ numTxns' = numTxns /\ reward' = reward
    BY <1>6, BlockValidates DEF ValidateBlock
  <2>2. QED
    BY <2>1 DEF GenNames, AssertsHold
<1>7. CASE WriteBlock
  <2>1. pc = "write" /\ numTxns' = numTxns
    BY <1>7 DEF WriteBlock
  <2>2. reward \in DOMAIN utxos /\ IsFiniteSet(DOMAIN utxos) /\ Cardinality(DOMAIN utxos) = numTxns
    BY <2>1 DEF GenNames
  <2>3. pc' = "start" /\ DOMAIN utxos' = DOMAIN utxos
    BY <1>7, <2>2 DEF WriteBlock
  <2>4. QED
    BY <2>1, <2>2, <2>3 DEF GenNames, AssertsHold
<1>8. CASE Finish
  BY <1>8 DEF GenNames, AssertsHold, Finish
<1>9. CASE Ended
  BY <1>9 DEF GenNames, AssertsHold, Ended, genVars
<1>10. CASE UNCHANGED genVars
  BY <1>10 DEF GenNames, AssertsHold, genVars
<1>11. CASE WriteBlockAborts
  <2>1. /\ pc = "write" /\ pc' = "aborted" /\ Len(txs) > MAX_TRANSACTIONS
        /\ utxos' = utxos /\ numTxns' = numTxns /\ txs' = txs
    BY <1>11 DEF WriteBlockAborts
  <2>2. numTxns \in Nat /\ txIndex \in 0 .. numTxns /\ Len(txs) \in 0 .. txIndex
    BY DEF GenInv, GenTypes
  <2>3. Len(txs) \in MAX_TRANSACTIONS + 1 .. numTxns
    BY <2>1, <2>2, GenAssumption
  <2>4. QED
    BY <2>1, <2>3 DEF GenNames, AssertsHold
<1>12. QED
  BY <1>1, <1>2, <1>3, <1>4, <1>5, <1>6, <1>7, <1>8, <1>9, <1>10, <1>11 DEF GenNext

\* While fresh keys give fresh addresses, assert(recv) and assert(change) fail
\* only for max_txns_per_block = 2, the assert on the size of a block that is
\* written only for a block of more than MAX_TRANSACTIONS, which takes a
\* max_txns_per_block above it, rand() % 0 happens only for 0, and the reward
\* always finds its address.
THEOREM AssertsAlwaysHold == EndlessNames => (GenSpec => []AssertsHold)
<1> SUFFICES ASSUME EndlessNames PROVE GenSpec => []AssertsHold
  OBVIOUS
<1>1. GenInit => GenNames
  BY GenNamesInitial
<1>2. GenInv /\ GenNames /\ [GenNext]_genVars => GenNames'
  BY GenNamesStep
<1>3. GenNames => AssertsHold
  BY DEF GenNames
<1>4. QED
  BY <1>1, <1>2, <1>3, GenInvariance, PTL DEF GenSpec

=============================================================================
