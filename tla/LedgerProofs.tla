---------------------------- MODULE LedgerProofs ----------------------------
(***************************************************************************)
(* What validation does to the money, for all blocks and balances: the     *)
(* folds over a balance map and over the transactions of a block, proved   *)
(* by induction over their sizes.                                          *)
(***************************************************************************)
EXTENDS Ledger, FiniteSets, FiniteSetTheorems, WellFoundedInduction, TLAPS

(* Induction, stated with sets in place of predicates.                      *)

\* Counting up from 0 reaches every number: loops over an index.
LEMMA NumberInduction ==
    ASSUME NEW S, 0 \in S, \A n \in Nat : n \in S => n + 1 \in S
    PROVE  Nat \subseteq S
<1> DEFINE R == OpToRel(<, Nat)
<1>1. IsWellFoundedOn(R, Nat)
  BY NatLessThanWellFounded
<1>2. R = {ss \in Nat \X Nat : ss[1] < ss[2]}
  BY DEF OpToRel
<1> HIDE DEF R
<1>3. SUFFICES ASSUME Nat \ S # {} PROVE FALSE
  OBVIOUS
<1>4. PICK n \in Nat \ S : \A y \in Nat \ S : ~(<<y, n>> \in R)
  BY <1>1, <1>3, WFMin
<1>5. n - 1 \in Nat \ S /\ <<n - 1, n>> \in R
  <2>1. n \in Nat /\ n # 0
    OBVIOUS
  <2>2. n - 1 \in Nat /\ n - 1 < n /\ (n - 1) + 1 = n
    BY <2>1
  <2>3. n - 1 \notin S
    BY <2>2
  <2>4. QED
    BY <1>2, <2>1, <2>2, <2>3
<1>6. QED
  BY <1>4, <1>5

\* The same up to a bound: loops over the transactions of a block.
LEMMA PrefixInduction ==
    ASSUME NEW S, NEW n \in Nat, 0 \in S,
           \A i \in 0 .. n - 1 : i \in S => i + 1 \in S
    PROVE  0 .. n \subseteq S
<1> DEFINE T == {i \in Nat : i <= n => i \in S}
<1>1. 0 \in T
  OBVIOUS
<1>2. \A i \in Nat : i \in T => i + 1 \in T
  OBVIOUS
<1> HIDE DEF T
<1>3. Nat \subseteq T
  BY <1>1, <1>2, NumberInduction
<1>4. QED
  BY <1>3 DEF T

\* A property that a finite set has if the sets with one element less have it,
\* all its subsets have: loops over the entries of a balance map.
LEMMA SubsetInduction ==
    ASSUME NEW D, IsFiniteSet(D), NEW F,
           \A T \in SUBSET D : (\A x \in T : T \ {x} \in F) => T \in F
    PROVE  SUBSET D \subseteq F
<1> DEFINE S == {n \in Nat : \A T \in SUBSET D : Cardinality(T) = n => T \in F}
<1>1. ASSUME NEW T \in SUBSET D
      PROVE  /\ IsFiniteSet(T) /\ Cardinality(T) \in Nat
             /\ Cardinality(T) = 0 => T = {}
             /\ \A x \in T : Cardinality(T \ {x}) = Cardinality(T) - 1
  BY FS_Subset, FS_CardinalityType, FS_RemoveElement, FS_EmptySet
<1>2. 0 \in S
  BY <1>1
<1>3. \A n \in Nat : n \in S => n + 1 \in S
  <2> SUFFICES ASSUME NEW n \in Nat, n \in S, NEW T \in SUBSET D, Cardinality(T) = n + 1
               PROVE  T \in F
    OBVIOUS
  <2>1. ASSUME NEW x \in T PROVE T \ {x} \in F
    <3>1. Cardinality(T \ {x}) = n /\ T \ {x} \in SUBSET D
      BY <1>1
    <3>2. QED
      BY <3>1
  <2>2. QED
    BY <2>1
<1> HIDE DEF S
<1>4. Nat \subseteq S
  BY <1>2, <1>3, NumberInduction
<1>5. QED
  BY <1>1, <1>4 DEF S

-----------------------------------------------------------------------------
(* Folds.  The library defines them by a recursive function on the subsets  *)
(* of the folded domain, and first it must be shown that there is one.      *)

\* ch names the element of each set that a fold combines last.
Chooses(ch, D) == \A s \in SUBSET D : s # {} => ch[s] \in s

IsFold(g, D, b, st, ch) ==
    \A s \in SUBSET D : g[s] = IF s = {} THEN b ELSE st[<<ch[s], g[s \ {ch[s]}]>>]

\* A fold that combines the elements of a finite set by st has a value on
\* every subset.
LEMMA FoldExists ==
    ASSUME NEW D, IsFiniteSet(D), NEW V, NEW b \in V, NEW st \in [D \X V -> V],
           NEW ch, Chooses(ch, D)
    PROVE  \E g \in [SUBSET D -> V] : IsFold(g, D, b, st, ch)
<1> DEFINE Below(k) == {s \in SUBSET D : Cardinality(s) <= k}
           Solves(g, k) ==
              /\ g \in [Below(k) -> V]
              /\ \A s \in Below(k) :
                    g[s] = IF s = {} THEN b ELSE st[<<ch[s], g[s \ {ch[s]}]>>]
           S == {k \in Nat : \E g : Solves(g, k)}
<1>1. ASSUME NEW s \in SUBSET D
      PROVE  /\ Cardinality(s) \in Nat /\ Cardinality(s) <= Cardinality(D)
             /\ Cardinality(s) = 0 <=> s = {}
             /\ \A x \in s : Cardinality(s \ {x}) = Cardinality(s) - 1
  BY FS_Subset, FS_CardinalityType, FS_RemoveElement, FS_EmptySet
<1>2. 0 \in S
  <2>1. \A s \in Below(0) : s = {}
    BY <1>1
  <2>2. Solves([s \in Below(0) |-> b], 0)
    BY <2>1
  <2>3. QED
    BY <2>2
<1>3. ASSUME NEW k \in Nat, NEW g, Solves(g, k)
      PROVE  \E h : Solves(h, k + 1)
  <2>1. ASSUME NEW s \in Below(k + 1), s # {}
        PROVE  ch[s] \in s /\ ch[s] \in D /\ s \ {ch[s]} \in Below(k)
    <3>1. ch[s] \in s /\ s \in SUBSET D
      BY <2>1 DEF Chooses
    <3>2. Cardinality(s \ {ch[s]}) = Cardinality(s) - 1 /\ Cardinality(s) \in Nat
      BY <1>1, <3>1
    <3>3. QED
      BY <3>1, <3>2
  <2> DEFINE h == [s \in Below(k + 1) |->
                     IF s = {} THEN b ELSE st[<<ch[s], g[s \ {ch[s]}]>>]]
  <2>2. h \in [Below(k + 1) -> V]
    <3>1. ASSUME NEW s \in Below(k + 1), s # {}
          PROVE  st[<<ch[s], g[s \ {ch[s]}]>>] \in V
      BY <1>3, <2>1, <3>1
    <3>2. QED
      BY <3>1
  <2>3. Below(k) \subseteq Below(k + 1)
    BY <1>1
  <2>4. \A s \in Below(k) : h[s] = g[s]
    BY <1>3, <2>3
  <2>5. ASSUME NEW s \in Below(k + 1)
        PROVE  h[s] = IF s = {} THEN b ELSE st[<<ch[s], h[s \ {ch[s]}]>>]
    BY <2>1, <2>4
  <2> HIDE DEF h
  <2>6. QED
    BY <2>2, <2>5
<1> HIDE DEF Solves
<1>4. \A k \in Nat : k \in S => k + 1 \in S
  BY <1>3
<1> HIDE DEF S
<1>5. Cardinality(D) \in S
  BY <1>1, <1>2, <1>4, NumberInduction
<1>6. PICK g : Solves(g, Cardinality(D))
  BY <1>5 DEF S
<1>7. Below(Cardinality(D)) = SUBSET D
  BY <1>1
<1>8. QED
  BY <1>6, <1>7 DEF Solves, IsFold

-----------------------------------------------------------------------------
(* The supply of a balance map.                                             *)

\* The containers that hold balances: any finite number of entries.
IsMap(m) == IsFiniteSet(DOMAIN m) /\ m \in [DOMAIN m -> Nat]

Value(m, a) == IF a \in DOMAIN m THEN m[a] ELSE 0

Without(m, a) == Restrict(m, DOMAIN m \ {a})

\* The recursive function behind Supply.
Sums(m) ==
    CHOOSE g : g = [s \in SUBSET DOMAIN m |->
                       IF s = {} THEN 0
                       ELSE m[CHOOSE x \in s : TRUE] + g[s \ {CHOOSE x \in s : TRUE}]]

LEMMA SupplyIsSums == ASSUME NEW m PROVE Supply(m) = Sums(m)[DOMAIN m]
  BY Zenon
  DEF Supply, SumFunction, SumFunctionOnSet, FoldFunctionOnSet, MapThenFoldSet, Sums

\* The amounts of a balance map have sums, which are taken entry by entry.
LEMMA SumsEquation ==
    ASSUME NEW m, IsMap(m)
    PROVE  /\ Sums(m)[{}] = 0
           /\ \A s \in SUBSET DOMAIN m : s # {} =>
                 \E x \in s : /\ x = CHOOSE y \in s : TRUE
                              /\ Sums(m)[s] = m[x] + Sums(m)[s \ {x}]
<1> DEFINE D == DOMAIN m
           ch == [s \in SUBSET D |-> CHOOSE x \in s : TRUE]
           st == [p \in D \X Nat |-> m[p[1]] + p[2]]
           Body(g) == [s \in SUBSET D |->
                         IF s = {} THEN 0
                         ELSE m[CHOOSE x \in s : TRUE] + g[s \ {CHOOSE x \in s : TRUE}]]
<1>1. IsFiniteSet(D) /\ m \in [D -> Nat]
  BY DEF IsMap
<1>2. st \in [D \X Nat -> Nat]
  BY <1>1
<1>3. ASSUME NEW s \in SUBSET D, s # {}
      PROVE  ch[s] = (CHOOSE x \in s : TRUE) /\ ch[s] \in s
  BY <1>3
<1> HIDE DEF ch
<1>4. PICK g \in [SUBSET D -> Nat] : IsFold(g, D, 0, st, ch)
  <2>1. Chooses(ch, D)
    BY <1>3 DEF Chooses
  <2> HIDE DEF st, D, Body
  <2>2. QED
    BY <1>1, <1>2, <2>1, FoldExists
<1>5. g = Body(g)
  <2>1. ASSUME NEW s \in SUBSET D, s # {}
        PROVE  g[s] = m[CHOOSE x \in s : TRUE] + g[s \ {CHOOSE x \in s : TRUE}]
    <3>1. ch[s] \in D /\ s \ {ch[s]} \in SUBSET D
      BY <1>3, <2>1
    <3>2. <<ch[s], g[s \ {ch[s]}]>> \in D \X Nat
      BY <3>1
    <3>3. g[s] = m[ch[s]] + g[s \ {ch[s]}]
      BY <1>4, <2>1, <3>2 DEF IsFold
    <3>4. QED
      BY <1>3, <2>1, <3>3
  <2>2. g[{}] = 0
    BY <1>4 DEF IsFold
  <2>3. QED
    BY <2>1, <2>2
<1>6. Sums(m) = Body(Sums(m))
  <2> HIDE DEF Body
  <2>1. Sums(m) = CHOOSE h : h = Body(h)
    BY DEF Sums, Body
  <2>2. QED
    BY <1>5, <2>1
<1>7. Sums(m)[{}] = 0
  BY <1>6
<1>8. ASSUME NEW s \in SUBSET D, s # {}
      PROVE  \E x \in s : /\ x = CHOOSE y \in s : TRUE
                          /\ Sums(m)[s] = m[x] + Sums(m)[s \ {x}]
  <2>1. (CHOOSE y \in s : TRUE) \in s
    BY <1>8
  <2>2. QED
    BY <1>6, <1>8, <2>1
<1>9. QED
  BY <1>7, <1>8

LEMMA SumsType ==
    ASSUME NEW m, IsMap(m)
    PROVE  \A s \in SUBSET DOMAIN m : Sums(m)[s] \in Nat
<1> DEFINE D == DOMAIN m
           F == {s \in SUBSET D : Sums(m)[s] \in Nat}
<1>1. IsFiniteSet(D) /\ m \in [D -> Nat]
  BY DEF IsMap
<1>2. ASSUME NEW T \in SUBSET D, \A x \in T : T \ {x} \in F
      PROVE  T \in F
  <2>1. CASE T = {}
    BY <2>1, SumsEquation
  <2>2. CASE T # {}
    <3>1. PICK x \in T : Sums(m)[T] = m[x] + Sums(m)[T \ {x}]
      BY <2>2, SumsEquation
    <3>2. m[x] \in Nat /\ Sums(m)[T \ {x}] \in Nat
      BY <1>1, <1>2
    <3>3. QED
      BY <3>1, <3>2
  <2>3. QED
    BY <2>1, <2>2
<1> HIDE DEF F, D
<1>3. SUBSET D \subseteq F
  BY <1>1, <1>2, SubsetInduction
<1>4. QED
  BY <1>3 DEF F, D

\* The order in which the entries are added does not matter.
LEMMA SumsRemove ==
    ASSUME NEW m, IsMap(m)
    PROVE  \A s \in SUBSET DOMAIN m : \A x \in s : Sums(m)[s] = m[x] + Sums(m)[s \ {x}]
<1> DEFINE D == DOMAIN m
           F == {s \in SUBSET D : \A x \in s : Sums(m)[s] = m[x] + Sums(m)[s \ {x}]}
<1>1. IsFiniteSet(D) /\ m \in [D -> Nat]
  BY DEF IsMap
<1>2. ASSUME NEW T \in SUBSET D, \A x \in T : T \ {x} \in F
      PROVE  T \in F
  <2> SUFFICES ASSUME NEW x \in T PROVE Sums(m)[T] = m[x] + Sums(m)[T \ {x}]
    OBVIOUS
  <2>1. PICK c \in T : Sums(m)[T] = m[c] + Sums(m)[T \ {c}]
    BY SumsEquation
  <2>2. CASE c # x
    <3> DEFINE U == (T \ {c}) \ {x}
    <3>1. Sums(m)[T \ {c}] = m[x] + Sums(m)[U]
      <4>1. T \ {c} \in F /\ x \in T \ {c}
        BY <1>2, <2>2
      <4>2. QED
        BY <4>1
    <3>2. Sums(m)[T \ {x}] = m[c] + Sums(m)[U]
      <4>1. c \in T \ {x} /\ (T \ {x}) \ {c} = U
        BY <2>1, <2>2
      <4>2. T \ {x} \in F
        BY <1>2
      <4>3. QED
        BY <4>1, <4>2
    <3>3. m[x] \in Nat /\ m[c] \in Nat /\ Sums(m)[U] \in Nat
      BY <1>1, SumsType
    <3>4. QED
      BY <2>1, <3>1, <3>2, <3>3
  <2>3. QED
    BY <2>1, <2>2
<1> HIDE DEF F, D
<1>3. SUBSET D \subseteq F
  BY <1>1, <1>2, SubsetInduction
<1>4. QED
  BY <1>3 DEF F, D

\* Maps that agree on some addresses have the same sum there.
LEMMA SumsAgree ==
    ASSUME NEW m, NEW n, IsMap(m), IsMap(n), NEW S \in SUBSET DOMAIN m,
           S \subseteq DOMAIN n, \A a \in S : m[a] = n[a]
    PROVE  Sums(m)[S] = Sums(n)[S]
<1> DEFINE F == {s \in SUBSET S : Sums(m)[s] = Sums(n)[s]}
<1>1. IsFiniteSet(S)
  BY FS_Subset DEF IsMap
<1>2. ASSUME NEW T \in SUBSET S, \A x \in T : T \ {x} \in F
      PROVE  T \in F
  <2>1. CASE T = {}
    BY <2>1, SumsEquation
  <2>2. CASE T # {}
    <3>1. PICK x \in T : Sums(m)[T] = m[x] + Sums(m)[T \ {x}]
      BY <2>2, SumsEquation
    <3>2. Sums(n)[T] = n[x] + Sums(n)[T \ {x}]
      BY SumsRemove
    <3>3. QED
      BY <1>2, <3>1, <3>2
  <2>3. QED
    BY <2>1, <2>2
<1> HIDE DEF F
<1>3. SUBSET S \subseteq F
  BY <1>1, <1>2, SubsetInduction
<1>4. QED
  BY <1>3 DEF F


LEMMA SupplyType == ASSUME NEW m, IsMap(m) PROVE Supply(m) \in Nat
  BY SupplyIsSums, SumsType

LEMMA WithoutMap ==
    ASSUME NEW m, IsMap(m), NEW a
    PROVE  /\ IsMap(Without(m, a))
           /\ DOMAIN Without(m, a) = DOMAIN m \ {a}
           /\ \A k \in DOMAIN m \ {a} : Without(m, a)[k] = m[k]
<1>1. IsFiniteSet(DOMAIN m \ {a})
  BY FS_RemoveElement DEF IsMap
<1>2. QED
  BY <1>1 DEF IsMap, Without, Restrict

\* An address adds to the supply what it has.
LEMMA SupplySplit ==
    ASSUME NEW m, IsMap(m), NEW a
    PROVE  /\ Supply(m) = Value(m, a) + Supply(Without(m, a))
           /\ Value(m, a) \in Nat /\ Supply(Without(m, a)) \in Nat
<1> DEFINE W == Without(m, a)
<1>1. IsMap(W) /\ DOMAIN W = DOMAIN m \ {a} /\ \A k \in DOMAIN m \ {a} : W[k] = m[k]
  BY WithoutMap
<1>2. Supply(W) = Sums(m)[DOMAIN m \ {a}]
  <2>1. Sums(W)[DOMAIN W] = Sums(m)[DOMAIN m \ {a}]
    <3> HIDE DEF W
    <3>1. DOMAIN W \in SUBSET DOMAIN W /\ DOMAIN W \subseteq DOMAIN m
      BY <1>1
    <3>2. QED
      BY <1>1, <3>1, SumsAgree
  <2>2. QED
    BY <2>1, SupplyIsSums
<1>3. Value(m, a) \in Nat
  BY DEF Value, IsMap
<1>4. Supply(W) \in Nat
  BY <1>1, SupplyType
<1>5. CASE a \in DOMAIN m
  <2>1. Sums(m)[DOMAIN m] = m[a] + Sums(m)[DOMAIN m \ {a}]
    BY <1>5, SumsRemove
  <2>2. QED
    BY <1>2, <1>3, <1>4, <1>5, <2>1, SupplyIsSums DEF Value
<1>6. CASE a \notin DOMAIN m
  <2>1. DOMAIN m \ {a} = DOMAIN m
    BY <1>6
  <2>2. Supply(m) = Supply(W)
    BY <1>2, <2>1, SupplyIsSums
  <2>3. QED
    BY <1>3, <1>4, <1>6, <2>2 DEF Value
<1>7. QED
  BY <1>5, <1>6

LEMMA PutMap ==
    ASSUME NEW m, IsMap(m), NEW k, NEW v \in Nat
    PROVE  /\ IsMap(Put(m, k, v))
           /\ DOMAIN Put(m, k, v) = DOMAIN m \cup {k}
           /\ \A a : Value(Put(m, k, v), a) = IF a = k THEN v ELSE Value(m, a)
           /\ Without(Put(m, k, v), k) = Without(m, k)
<1>1. IsFiniteSet(DOMAIN m \cup {k}) /\ m \in [DOMAIN m -> Nat]
  BY FS_AddElement DEF IsMap
<1>2. DOMAIN Put(m, k, v) = DOMAIN m \cup {k}
  BY DEF Put
<1>3. IsMap(Put(m, k, v))
  BY <1>1 DEF IsMap, Put
<1>4. \A a : Value(Put(m, k, v), a) = IF a = k THEN v ELSE Value(m, a)
  BY <1>1 DEF Value, Put
<1>5. Without(Put(m, k, v), k) = Without(m, k)
  <2>1. (DOMAIN m \cup {k}) \ {k} = DOMAIN m \ {k}
    OBVIOUS
  <2>2. \A a \in DOMAIN m \ {k} : Put(m, k, v)[a] = m[a]
    BY DEF Put
  <2>3. QED
    BY <1>2, <2>1, <2>2 DEF Without, Restrict
<1>6. QED
  BY <1>2, <1>3, <1>4, <1>5

\* c is the map m with n more for a.
Credited(c, m, a, n) ==
    /\ Supply(c) = Supply(m) + n
    /\ \A k : Value(c, k) = IF k = a THEN Value(m, a) + n ELSE Value(m, k)

\* balances[a] += n creates no more than n, and exactly n while the sum of all
\* balances is below 2^64.
LEMMA SupplyCredit ==
    ASSUME NEW m, IsMap(m), NEW a, NEW n \in Nat
    PROVE  /\ IsMap(Credit(m, a, n))
           /\ DOMAIN Credit(m, a, n) = DOMAIN m \cup {a}
           /\ Supply(Credit(m, a, n)) <= Supply(m) + n
           /\ Supply(m) + n < Wrap => Credited(Credit(m, a, n), m, a, n)
<1> DEFINE v == (Value(m, a) + n) % Wrap
           W == Without(m, a)
<1>1. Supply(m) = Value(m, a) + Supply(W) /\ Value(m, a) \in Nat /\ Supply(W) \in Nat
  BY SupplySplit
<1>2. v \in Nat /\ v <= Value(m, a) + n /\ (Value(m, a) + n < Wrap => v = Value(m, a) + n)
  BY <1>1, LedgerAssumption
<1>3. Credit(m, a, n) = Put(m, a, v)
  BY DEF Credit, Value
<1> HIDE DEF v
<1>4. IsMap(Put(m, a, v)) /\ Without(Put(m, a, v), a) = W /\ Value(Put(m, a, v), a) = v
      /\ DOMAIN Put(m, a, v) = DOMAIN m \cup {a}
  BY <1>2, PutMap
<1>5. Supply(Put(m, a, v)) = v + Supply(W)
  BY <1>4, SupplySplit
<1>6. \A k : Value(Put(m, a, v), k) = IF k = a THEN v ELSE Value(m, k)
  <2>1. v \in Nat
    BY <1>2
  <2>2. QED
    BY <2>1 DEF Value, Put
<1>7. Supply(m) + n < Wrap => v = Value(m, a) + n
  BY <1>1, <1>2, LedgerAssumption
<1>8. Supply(Put(m, a, v)) <= Supply(m) + n
  BY <1>1, <1>2, <1>5
<1>9. Supply(m) + n < Wrap => Supply(Put(m, a, v)) = Supply(m) + n
  BY <1>1, <1>5, <1>7
<1>10. QED
  BY <1>3, <1>4, <1>6, <1>7, <1>8, <1>9 DEF Credited


\* Erasing one entry and crediting another commute.
LEMMA WithoutCredit ==
    ASSUME NEW m, IsMap(m), NEW a, NEW n \in Nat, NEW s
    PROVE  Without(Credit(m, a, n), s) =
              IF a = s THEN Without(m, s) ELSE Credit(Without(m, s), a, n)
<1> DEFINE v == (Value(m, a) + n) % Wrap
<1>1. v \in Nat
  BY SupplySplit, LedgerAssumption
<1>2. Credit(m, a, n) = Put(m, a, v)
  BY DEF Credit, Value
<1>3. CASE a = s
  <2> HIDE DEF v
  <2>1. Without(Put(m, a, v), a) = Without(m, a)
    BY <1>1, PutMap
  <2>2. QED
    BY <1>2, <1>3, <2>1
<1>4. CASE a # s
  <2> DEFINE W == Without(m, s)
  <2>1. DOMAIN W = DOMAIN m \ {s} /\ \A k \in DOMAIN m \ {s} : W[k] = m[k]
    BY WithoutMap
  <2>2. Credit(W, a, n) = Put(W, a, v)
    <3>1. Value(W, a) = Value(m, a)
      BY <1>4, <2>1 DEF Value
    <3> HIDE DEF W
    <3>2. QED
      BY <3>1 DEF Credit, Value
  <2> HIDE DEF W, v
  <2>3. Without(Put(m, a, v), s) = Put(W, a, v)
    <3>1. (DOMAIN m \cup {a}) \ {s} = DOMAIN W \cup {a}
      BY <1>4, <2>1
    <3>2. \A k \in DOMAIN W \cup {a} : Put(m, a, v)[k] = Put(W, a, v)[k]
      BY <2>1 DEF Put
    <3>3. DOMAIN Put(m, a, v) = DOMAIN m \cup {a}
      BY DEF Put
    <3>4. Without(Put(m, a, v), s) = [k \in DOMAIN W \cup {a} |-> Put(m, a, v)[k]]
      BY <3>1, <3>3 DEF Without, Restrict
    <3>5. Put(W, a, v) = [k \in DOMAIN W \cup {a} |-> Put(W, a, v)[k]]
      BY DEF Put
    <3>6. QED
      BY <3>2, <3>4, <3>5
  <2>4. QED
    BY <1>2, <1>4, <2>2, <2>3 DEF W
<1>5. QED
  BY <1>3, <1>4

\* A transaction moves money and creates none: what a source pays back to
\* itself is lost, all else arrives, and nobody but the source loses any.
LEMMA UpdateMovesMoney ==
    ASSUME NEW bal, IsMap(bal), NEW tx, tx.amount \in Nat, BalanceAvailable(tx, bal)
    PROVE  LET R == UpdateBalances(tx, bal)
           IN  /\ IsMap(R)
               /\ DOMAIN R = (DOMAIN bal \cup {tx.dest, tx.change}) \ {tx.source}
               /\ Supply(R) <= Supply(bal)
               /\ Supply(bal) < Wrap =>
                     /\ tx.source \notin {tx.dest, tx.change} => Supply(R) = Supply(bal)
                     /\ \A a : a # tx.source => Value(R, a) >= Value(bal, a)
<1> DEFINE s == tx.source
           n1 == tx.amount
           n2 == bal[tx.source] - tx.amount
           m1 == Credit(bal, tx.dest, n1)
           m2 == Credit(m1, tx.change, n2)
           W == Without(bal, s)
           R == UpdateBalances(tx, bal)
<1>1. n1 \in Nat /\ n2 \in Nat /\ n1 + n2 = bal[s] /\ Value(bal, s) = bal[s] /\ s \in DOMAIN bal
  BY DEF BalanceAvailable, IsMap, Value
<1>2. R = Without(m2, s)
  BY DEF UpdateBalances, Without
<1>3. IsMap(m1) /\ DOMAIN m1 = DOMAIN bal \cup {tx.dest}
  BY <1>1, SupplyCredit
<1>4. IsMap(m2) /\ DOMAIN m2 = DOMAIN bal \cup {tx.dest, tx.change}
  <2> HIDE DEF m1, n2
  <2>1. IsMap(Credit(m1, tx.change, n2))
        /\ DOMAIN Credit(m1, tx.change, n2) = DOMAIN m1 \cup {tx.change}
    BY <1>1, <1>3, SupplyCredit
  <2>2. QED
    BY <1>3, <2>1
<1>5. IsMap(R) /\ DOMAIN R = (DOMAIN bal \cup {tx.dest, tx.change}) \ {s}
  <2> HIDE DEF m2, R, s
  <2>1. QED
    BY <1>2, <1>4, WithoutMap
<1>6. /\ IsMap(W) /\ Supply(W) \in Nat /\ Supply(bal) = Supply(W) + n1 + n2
      /\ \A a : a # s => Value(W, a) = Value(bal, a)
  <2>1. IsMap(W) /\ \A a : a # s => Value(W, a) = Value(bal, a)
    <3>1. IsMap(W) /\ DOMAIN W = DOMAIN bal \ {s} /\ \A k \in DOMAIN bal \ {s} : W[k] = bal[k]
      BY WithoutMap
    <3> HIDE DEF W, s
    <3>2. QED
      BY <3>1 DEF Value
  <2>2. Supply(bal) = Value(bal, s) + Supply(W) /\ Supply(W) \in Nat
    BY SupplySplit
  <2>3. QED
    BY <1>1, <2>1, <2>2
<1> DEFINE A1 == IF tx.dest = s THEN W ELSE Credit(W, tx.dest, n1)
<1>7. R = IF tx.change = s THEN A1 ELSE Credit(A1, tx.change, n2)
  <2> HIDE DEF m1, m2, n1, n2, s, W
  <2>1. Without(m1, s) = A1
    <3>1. Without(Credit(bal, tx.dest, n1), s) =
             IF tx.dest = s THEN Without(bal, s) ELSE Credit(Without(bal, s), tx.dest, n1)
      BY <1>1, WithoutCredit
    <3>2. QED
      BY <3>1 DEF m1, W
  <2> HIDE DEF A1
  <2>2. Without(Credit(m1, tx.change, n2), s) =
           IF tx.change = s THEN Without(m1, s) ELSE Credit(Without(m1, s), tx.change, n2)
    BY <1>1, <1>3, WithoutCredit
  <2>3. QED
    BY <1>2, <2>1, <2>2 DEF m2
<1>8. /\ IsMap(A1) /\ Supply(A1) \in Nat /\ Supply(A1) <= Supply(W) + n1
      /\ Supply(bal) < Wrap =>
            /\ tx.dest # s => Supply(A1) = Supply(W) + n1
            /\ \A a : a # s => Value(A1, a) >= Value(bal, a)
  <2> HIDE DEF W, n1, n2, s
  <2>0. \A a : Value(bal, a) \in Nat
    BY SupplySplit
  <2>1. CASE tx.dest = s
    <3>1. A1 = W
      BY <2>1
    <3> HIDE DEF A1
    <3>2. \A a : a # s => Value(A1, a) >= Value(bal, a)
      BY <1>6, <2>0, <3>1
    <3>3. QED
      BY <1>1, <1>6, <2>1, <3>1, <3>2
  <2>2. CASE tx.dest # s
    <3> DEFINE C == Credit(W, tx.dest, n1)
    <3>1. A1 = C
      BY <2>2
    <3>2. /\ IsMap(C) /\ Supply(C) <= Supply(W) + n1
          /\ Supply(W) + n1 < Wrap => Credited(C, W, tx.dest, n1)
      BY <1>1, <1>6, SupplyCredit
    <3> HIDE DEF C, A1
    <3>3. Supply(C) \in Nat
      BY <3>2, SupplyType
    <3>4. Supply(bal) < Wrap => Supply(W) + n1 < Wrap
      BY <1>1, <1>6, LedgerAssumption
    <3>5. ASSUME Supply(bal) < Wrap, NEW a, a # s PROVE Value(C, a) >= Value(bal, a)
      BY <1>1, <1>6, <2>0, <3>2, <3>4, <3>5 DEF Credited
    <3>6. QED
      BY <3>1, <3>2, <3>3, <3>4, <3>5 DEF Credited
  <2>3. QED
    BY <2>1, <2>2
<1>9. /\ Supply(R) <= Supply(bal)
      /\ Supply(bal) < Wrap =>
            /\ s \notin {tx.dest, tx.change} => Supply(R) = Supply(bal)
            /\ \A a : a # s => Value(R, a) >= Value(bal, a)
  <2> HIDE DEF W, n1, n2, s, A1, R
  <2>0. \A a : Value(bal, a) \in Nat /\ Value(A1, a) \in Nat
    BY <1>8, SupplySplit
  <2>1. CASE tx.change = s
    BY <1>1, <1>6, <1>7, <1>8, <2>1
  <2>2. CASE tx.change # s
    <3> DEFINE C == Credit(A1, tx.change, n2)
    <3>1. R = C
      BY <1>7, <2>2
    <3>2. /\ IsMap(C) /\ Supply(C) <= Supply(A1) + n2
          /\ Supply(A1) + n2 < Wrap => Credited(C, A1, tx.change, n2)
      BY <1>1, <1>8, SupplyCredit
    <3> HIDE DEF C
    <3>3. Supply(C) \in Nat
      BY <3>2, SupplyType
    <3>4. Supply(C) <= Supply(bal)
      BY <1>1, <1>6, <1>8, <3>2, <3>3
    <3>5. Supply(bal) < Wrap => Supply(A1) + n2 < Wrap
      BY <1>1, <1>6, <1>8, LedgerAssumption
    <3>6. ASSUME Supply(bal) < Wrap, NEW a, a # s PROVE Value(C, a) >= Value(bal, a)
      <4>1. Value(A1, a) >= Value(bal, a)
        BY <1>8, <3>6
      <4>2. Value(C, a) = IF a = tx.change THEN Value(A1, a) + n2 ELSE Value(A1, a)
        BY <3>2, <3>5, <3>6 DEF Credited
      <4>3. QED
        BY <1>1, <2>0, <4>1, <4>2
    <3>7. ASSUME Supply(bal) < Wrap, s \notin {tx.dest, tx.change}
          PROVE  Supply(C) = Supply(bal)
      BY <1>1, <1>6, <1>8, <3>2, <3>5, <3>7 DEF Credited
    <3>8. QED
      BY <3>1, <3>4, <3>6, <3>7
  <2>3. QED
    BY <2>1, <2>2
<1>10. QED
  BY <1>5, <1>9


-----------------------------------------------------------------------------
(* The loop over the transactions of a block.                               *)

\* A set of indices has a greatest one.
LEMMA MaxExists ==
    ASSUME NEW n \in Nat
    PROVE  \A s \in SUBSET (1 .. n) : s # {} => Max(s) \in s /\ \A i \in s : i <= Max(s)
<1> DEFINE S == {k \in 0 .. n : \A s \in SUBSET (1 .. k) :
                                   s # {} => \E x \in s : \A y \in s : x >= y}
<1>1. 0 \in S
  <2>1. 1 .. 0 = {}
    OBVIOUS
  <2>2. \A s \in SUBSET (1 .. 0) : s # {} => \E x \in s : \A y \in s : x >= y
    BY <2>1
  <2>3. 0 \in 0 .. n
    OBVIOUS
  <2>4. QED
    BY <2>2, <2>3
<1>2. ASSUME NEW k \in 0 .. n - 1, k \in S PROVE k + 1 \in S
  <2> SUFFICES ASSUME NEW s \in SUBSET (1 .. k + 1), s # {}
               PROVE  \E x \in s : \A y \in s : x >= y
    OBVIOUS
  <2>1. CASE k + 1 \in s
    BY <2>1
  <2>2. CASE k + 1 \notin s
    <3>1. s \in SUBSET (1 .. k)
      BY <2>2
    <3>2. QED
      BY <1>2, <3>1
  <2>3. QED
    BY <2>1, <2>2
<1> HIDE DEF S
<1>3. n \in S
  BY <1>1, <1>2, PrefixInduction
<1>4. ASSUME NEW s \in SUBSET (1 .. n), s # {}
      PROVE  Max(s) \in s /\ \A i \in s : i <= Max(s)
  <2>1. \E x \in s : \A y \in s : x >= y
    BY <1>3, <1>4 DEF S
  <2>2. Max(s) \in s /\ \A y \in s : Max(s) >= y
    BY <2>1 DEF Max
  <2>3. QED
    BY <2>2
<1>5. QED
  BY <1>4

\* The first i indices are index i and the first i - 1.
LEMMA LastIndex ==
    ASSUME NEW i \in Nat \ {0}
    PROVE  /\ 1 .. i # {} /\ Max(1 .. i) = i
           /\ (1 .. i) \ {i} = 1 .. i - 1
<1>1. i \in 1 .. i /\ 1 .. i \in SUBSET (1 .. i)
  OBVIOUS
<1>2. Max(1 .. i) \in 1 .. i /\ i <= Max(1 .. i)
  BY <1>1, MaxExists
<1>3. QED
  BY <1>2

IsIndexFold(g, n, b, st) ==
    \A s \in SUBSET (1 .. n) :
        g[s] = IF s = {} THEN b ELSE st[<<Max(s), g[s \ {Max(s)}]>>]

\* A fold from left to right has a value on every set of indices.
LEMMA IndexFoldExists ==
    ASSUME NEW n \in Nat, NEW V, NEW b \in V, NEW st \in [(1 .. n) \X V -> V]
    PROVE  \E g \in [SUBSET (1 .. n) -> V] : IsIndexFold(g, n, b, st)
<1> DEFINE D == 1 .. n
           ch == [s \in SUBSET D |-> Max(s)]
<1>1. IsFiniteSet(D)
  BY FS_Interval
<1>2. Chooses(ch, D)
  BY MaxExists DEF Chooses
<1>3. st \in [D \X V -> V]
  OBVIOUS
<1> HIDE DEF ch, D
<1>4. PICK g \in [SUBSET D -> V] : IsFold(g, D, b, st, ch)
  BY <1>1, <1>2, <1>3, FoldExists
<1>5. ASSUME NEW s \in SUBSET D
      PROVE  g[s] = IF s = {} THEN b ELSE st[<<Max(s), g[s \ {Max(s)}]>>]
  <2>1. ch[s] = Max(s)
    BY DEF ch
  <2>2. QED
    BY <1>4, <2>1 DEF IsFold
<1>6. QED
  BY <1>4, <1>5 DEF D, IsIndexFold

\* The fold of a set of indices is made from that of the set without its
\* greatest index.
Folds(h, n, V, st) ==
    \A s \in SUBSET (1 .. n) :
        (s # {} /\ h[s \ {Max(s)}] \in V) => h[s] = st[<<Max(s), h[s \ {Max(s)}]>>]

LEMMA FoldArguments ==
    ASSUME NEW n \in Nat, NEW V, NEW g \in [SUBSET (1 .. n) -> V],
           NEW s \in SUBSET (1 .. n), s # {}
    PROVE  /\ Max(s) \in 1 .. n
           /\ s \ {Max(s)} \in SUBSET (1 .. n)
           /\ g[s \ {Max(s)}] \in V
           /\ <<Max(s), g[s \ {Max(s)}]>> \in (1 .. n) \X V
<1>1. Max(s) \in 1 .. n
  BY MaxExists
<1>2. QED
  BY <1>1

IsLoop(f, n, b, st, end) ==
    f[0] = b /\ (\A i \in 1 .. n : f[i] = st[<<i, f[i - 1]>>]) /\ f[n] = end

\* Its values on the first i indices are the states of a loop.
LEMMA IndexFoldSteps ==
    ASSUME NEW n \in Nat, NEW V, NEW b \in V, NEW st \in [(1 .. n) \X V -> V],
           NEW h, h[{}] = b, Folds(h, n, V, st)
    PROVE  \E f \in [0 .. n -> V] : IsLoop(f, n, b, st, h[1 .. n])
<1> DEFINE f == [i \in 0 .. n |-> h[1 .. i]]
           S == {i \in 0 .. n : h[1 .. i] \in V}
<1>1. 0 \in S /\ f[0] = b
  <2>1. 1 .. 0 = {} /\ 0 \in 0 .. n
    OBVIOUS
  <2>2. QED
    BY <2>1
<1>2. ASSUME NEW i \in 1 .. n, h[1 .. i - 1] \in V
      PROVE  h[1 .. i] = st[<<i, h[1 .. i - 1]>>]
  <2>1. 1 .. i \in SUBSET (1 .. n) /\ i \in Nat \ {0}
    OBVIOUS
  <2>2. 1 .. i # {} /\ Max(1 .. i) = i /\ (1 .. i) \ {i} = 1 .. i - 1
    BY <2>1, LastIndex
  <2>3. QED
    BY <1>2, <2>1, <2>2 DEF Folds
<1>3. ASSUME NEW i \in 0 .. n - 1, i \in S PROVE i + 1 \in S
  <2>1. i + 1 \in 1 .. n /\ (i + 1) - 1 = i /\ h[1 .. i] \in V
    BY <1>3
  <2>2. h[1 .. i + 1] = st[<<i + 1, h[1 .. i]>>]
    BY <1>2, <2>1
  <2>3. st[<<i + 1, h[1 .. i]>>] \in V
    BY <2>1
  <2>4. QED
    BY <2>1, <2>2, <2>3
<1> HIDE DEF S
<1>4. 0 .. n \subseteq S
  BY <1>1, <1>3, PrefixInduction
<1>5. f \in [0 .. n -> V]
  BY <1>4 DEF S
<1>6. ASSUME NEW i \in 1 .. n PROVE f[i] = st[<<i, f[i - 1]>>]
  <2>1. i \in 0 .. n /\ i - 1 \in 0 .. n
    OBVIOUS
  <2>2. h[1 .. i - 1] \in V
    BY <1>4, <2>1 DEF S
  <2>3. QED
    BY <1>2, <2>1, <2>2
<1>7. h[1 .. n] = f[n]
  OBVIOUS
<1> HIDE DEF f
<1>8. QED
  BY <1>1, <1>5, <1>6, <1>7 DEF IsLoop

\* What a loop over transactions keeps: its verdict and balances of addresses
\* in A.
Maps(A) == {m \in UNION {[T -> Nat] : T \in SUBSET A} : IsFiniteSet(DOMAIN m)}

Accs(A) == [ok : BOOLEAN, balances : Maps(A)]

\* The transactions are read from the file: any integer may stand for the
\* amount, and only validate sees to it that it is positive.
Readable(txs, n, A) ==
    /\ DOMAIN txs = 1 .. n
    /\ \A i \in 1 .. n : txs[i].amount \in Int /\ {txs[i].dest, txs[i].change} \subseteq A

LEMMA MapsAreMaps ==
    ASSUME NEW A, NEW m
    PROVE  m \in Maps(A) <=> IsMap(m) /\ DOMAIN m \subseteq A
<1>1. ASSUME m \in Maps(A) PROVE IsMap(m) /\ DOMAIN m \subseteq A
  <2>1. PICK T \in SUBSET A : m \in [T -> Nat]
    BY <1>1 DEF Maps
  <2>2. DOMAIN m = T /\ IsFiniteSet(DOMAIN m)
    BY <1>1, <2>1 DEF Maps
  <2>3. QED
    BY <2>1, <2>2 DEF IsMap
<1>2. ASSUME IsMap(m), DOMAIN m \subseteq A PROVE m \in Maps(A)
  BY <1>2 DEF Maps, IsMap
<1>3. QED
  BY <1>1, <1>2

\* One turn of the loop of day4.
LEMMA ApplyTxnStep ==
    ASSUME NEW A, NEW acc \in Accs(A), NEW tx, tx.amount \in Int,
           {tx.dest, tx.change} \subseteq A
    PROVE  /\ ApplyTxn(acc, tx) \in Accs(A)
           /\ ApplyTxn(acc, tx).ok <=>
                 acc.ok /\ tx.amount > 0 /\ tx.signed /\ BalanceAvailable(tx, acc.balances)
           /\ ApplyTxn(acc, tx).balances = IF ApplyTxn(acc, tx).ok
                                           THEN UpdateBalances(tx, acc.balances)
                                           ELSE acc.balances
<1> DEFINE may == acc.ok /\ tx.amount > 0 /\ tx.signed /\ BalanceAvailable(tx, acc.balances)
<1>1. acc.ok \in BOOLEAN /\ acc.balances \in Maps(A) /\ acc = [ok |-> acc.ok, balances |-> acc.balances]
  BY DEF Accs
<1>2. CASE may
  <2> DEFINE R == UpdateBalances(tx, acc.balances)
  <2>1. ApplyTxn(acc, tx) = [acc EXCEPT !.balances = R]
    BY <1>2 DEF ApplyTxn, TxnValidate
  <2>2. R \in Maps(A)
    <3>1. tx.amount \in Nat /\ IsMap(acc.balances) /\ DOMAIN acc.balances \subseteq A
      BY <1>1, <1>2, MapsAreMaps
    <3>2. /\ IsMap(R)
          /\ DOMAIN R = (DOMAIN acc.balances \cup {tx.dest, tx.change}) \ {tx.source}
      BY <1>2, <3>1, UpdateMovesMoney
    <3> HIDE DEF R
    <3>3. QED
      BY <3>1, <3>2, MapsAreMaps
  <2> HIDE DEF R
  <2>3. ApplyTxn(acc, tx) = [ok |-> TRUE, balances |-> R]
    BY <1>1, <1>2, <2>1
  <2>4. QED
    BY <1>2, <2>2, <2>3 DEF Accs, R
<1>3. CASE ~may
  <2>1. ApplyTxn(acc, tx) = [acc EXCEPT !.ok = FALSE]
    BY <1>3 DEF ApplyTxn, TxnValidate
  <2>2. ApplyTxn(acc, tx) = [ok |-> FALSE, balances |-> acc.balances]
    BY <1>1, <2>1
  <2>3. QED
    BY <1>1, <1>3, <2>2 DEF Accs
<1>4. QED
  BY <1>2, <1>3

\* The same of day1, which does not look at amount and signature here.
LEMMA ApplyTxnDay1Step ==
    ASSUME NEW A, NEW acc \in Accs(A), NEW tx, tx.amount \in Nat,
           {tx.dest, tx.change} \subseteq A
    PROVE  /\ ApplyTxnDay1(acc, tx) \in Accs(A)
           /\ ApplyTxnDay1(acc, tx).ok <=> acc.ok /\ BalanceAvailable(tx, acc.balances)
           /\ ApplyTxnDay1(acc, tx).balances = IF ApplyTxnDay1(acc, tx).ok
                                               THEN UpdateBalances(tx, acc.balances)
                                               ELSE acc.balances
<1> DEFINE may == acc.ok /\ BalanceAvailable(tx, acc.balances)
<1>1. acc.ok \in BOOLEAN /\ acc.balances \in Maps(A) /\ acc = [ok |-> acc.ok, balances |-> acc.balances]
  BY DEF Accs
<1>2. CASE may
  <2> DEFINE R == UpdateBalances(tx, acc.balances)
  <2>1. ApplyTxnDay1(acc, tx) = [acc EXCEPT !.balances = R]
    BY <1>2 DEF ApplyTxnDay1
  <2>2. R \in Maps(A)
    <3>1. IsMap(acc.balances) /\ DOMAIN acc.balances \subseteq A
      BY <1>1, MapsAreMaps
    <3>2. /\ IsMap(R)
          /\ DOMAIN R = (DOMAIN acc.balances \cup {tx.dest, tx.change}) \ {tx.source}
      BY <1>2, <3>1, UpdateMovesMoney
    <3> HIDE DEF R
    <3>3. QED
      BY <3>1, <3>2, MapsAreMaps
  <2> HIDE DEF R
  <2>3. ApplyTxnDay1(acc, tx) = [ok |-> TRUE, balances |-> R]
    BY <1>1, <1>2, <2>1
  <2>4. QED
    BY <1>2, <2>2, <2>3 DEF Accs, R
<1>3. CASE ~may
  <2>1. ApplyTxnDay1(acc, tx) = [acc EXCEPT !.ok = FALSE]
    BY <1>3 DEF ApplyTxnDay1
  <2>2. ApplyTxnDay1(acc, tx) = [ok |-> FALSE, balances |-> acc.balances]
    BY <1>1, <2>1
  <2>3. QED
    BY <1>1, <1>3, <2>2 DEF Accs
<1>4. QED
  BY <1>2, <1>3


\* g are the states of the loop of day4, or of day1, on the transactions.
IsRun(g, n, txs, b, end) ==
    /\ g[0] = b
    /\ \A i \in 1 .. n : g[i] = ApplyTxn(g[i - 1], txs[i])
    /\ g[n] = end

IsRunDay1(g, n, txs, b, end) ==
    /\ g[0] = b
    /\ \A i \in 1 .. n : g[i] = ApplyTxnDay1(g[i - 1], txs[i])
    /\ g[n] = end

\* The balances and verdicts that the loop of validate goes through.
LEMMA FoldApplyTxn ==
    ASSUME NEW n \in Nat, NEW txs, DOMAIN txs = 1 .. n, NEW V, NEW b \in V,
           \A acc \in V : \A i \in 1 .. n : ApplyTxn(acc, txs[i]) \in V
    PROVE  \E g \in [0 .. n -> V] : IsRun(g, n, txs, b, FoldLeft(ApplyTxn, b, txs))
<1> DEFINE st == [p \in (1 .. n) \X V |-> ApplyTxn(p[2], txs[p[1]])]
           Body(g) == [s \in SUBSET (1 .. n) |->
                         IF s = {} THEN b ELSE ApplyTxn(g[s \ {Max(s)}], txs[Max(s)])]
           h == CHOOSE g : g = [s \in SUBSET DOMAIN txs |->
                         IF s = {} THEN b ELSE ApplyTxn(g[s \ {Max(s)}], txs[Max(s)])]
<1>1. ASSUME NEW acc \in V, NEW i \in 1 .. n PROVE ApplyTxn(acc, txs[i]) \in V
  OBVIOUS
<1>2. st \in [(1 .. n) \X V -> V]
  BY <1>1
<1>3. PICK g \in [SUBSET (1 .. n) -> V] : IsIndexFold(g, n, b, st)
  <2> HIDE DEF st, Body, h
  <2>1. QED
    BY <1>2, IndexFoldExists
<1>4. g = Body(g)
  <2>1. ASSUME NEW s \in SUBSET (1 .. n), s # {}
        PROVE  g[s] = ApplyTxn(g[s \ {Max(s)}], txs[Max(s)])
    BY <1>3, <2>1, FoldArguments DEF IsIndexFold
  <2>2. g[{}] = b
    BY <1>3 DEF IsIndexFold
  <2>3. QED
    BY <2>1, <2>2
<1>5. h = Body(h)
  <2>1. h = CHOOSE f0 : f0 = Body(f0)
    OBVIOUS
  <2> HIDE DEF Body, h
  <2>2. QED
    BY <1>4, <2>1
<1>6. FoldLeft(ApplyTxn, b, txs) = h[1 .. n]
  <2>1. FoldLeft(ApplyTxn, b, txs) = h[DOMAIN txs]
    BY Zenon DEF FoldLeft, MapThenFoldSet
  <2> HIDE DEF h
  <2>2. QED
    BY <2>1
<1> HIDE DEF h
<1>7. h[{}] = b /\ Folds(h, n, V, st)
  <2>1. ASSUME NEW s \in SUBSET (1 .. n), s # {}, h[s \ {Max(s)}] \in V
        PROVE  h[s] = st[<<Max(s), h[s \ {Max(s)}]>>]
    <3>1. Max(s) \in 1 .. n
      BY <2>1, MaxExists
    <3>2. QED
      BY <1>5, <2>1, <3>1
  <2>2. QED
    BY <1>5, <2>1 DEF Folds
<1>8. PICK f0 \in [0 .. n -> V] : IsLoop(f0, n, b, st, h[1 .. n])
  <2> HIDE DEF st, Body
  <2>1. QED
    BY <1>2, <1>7, IndexFoldSteps
<1>9. ASSUME NEW i \in 1 .. n PROVE f0[i] = ApplyTxn(f0[i - 1], txs[i])
  <2>1. <<i, f0[i - 1]>> \in (1 .. n) \X V
    OBVIOUS
  <2>2. QED
    BY <1>8, <2>1 DEF IsLoop
<1>10. QED
  BY <1>6, <1>8, <1>9 DEF IsLoop, IsRun

\* Those of day1, whose second loop does not see the signatures.
LEMMA FoldApplyTxnDay1 ==
    ASSUME NEW n \in Nat, NEW txs, DOMAIN txs = 1 .. n, NEW V, NEW b \in V,
           \A acc \in V : \A i \in 1 .. n : ApplyTxnDay1(acc, txs[i]) \in V
    PROVE  \E g \in [0 .. n -> V] : IsRunDay1(g, n, txs, b, FoldLeft(ApplyTxnDay1, b, txs))
<1> DEFINE st == [p \in (1 .. n) \X V |-> ApplyTxnDay1(p[2], txs[p[1]])]
           Body(g) == [s \in SUBSET (1 .. n) |->
                         IF s = {} THEN b ELSE ApplyTxnDay1(g[s \ {Max(s)}], txs[Max(s)])]
           h == CHOOSE g : g = [s \in SUBSET DOMAIN txs |->
                         IF s = {} THEN b ELSE ApplyTxnDay1(g[s \ {Max(s)}], txs[Max(s)])]
<1>1. ASSUME NEW acc \in V, NEW i \in 1 .. n PROVE ApplyTxnDay1(acc, txs[i]) \in V
  OBVIOUS
<1>2. st \in [(1 .. n) \X V -> V]
  BY <1>1
<1>3. PICK g \in [SUBSET (1 .. n) -> V] : IsIndexFold(g, n, b, st)
  <2> HIDE DEF st, Body, h
  <2>1. QED
    BY <1>2, IndexFoldExists
<1>4. g = Body(g)
  <2>1. ASSUME NEW s \in SUBSET (1 .. n), s # {}
        PROVE  g[s] = ApplyTxnDay1(g[s \ {Max(s)}], txs[Max(s)])
    BY <1>3, <2>1, FoldArguments DEF IsIndexFold
  <2>2. g[{}] = b
    BY <1>3 DEF IsIndexFold
  <2>3. QED
    BY <2>1, <2>2
<1>5. h = Body(h)
  <2>1. h = CHOOSE f0 : f0 = Body(f0)
    OBVIOUS
  <2> HIDE DEF Body, h
  <2>2. QED
    BY <1>4, <2>1
<1>6. FoldLeft(ApplyTxnDay1, b, txs) = h[1 .. n]
  <2>1. FoldLeft(ApplyTxnDay1, b, txs) = h[DOMAIN txs]
    BY Zenon DEF FoldLeft, MapThenFoldSet
  <2> HIDE DEF h
  <2>2. QED
    BY <2>1
<1> HIDE DEF h
<1>7. h[{}] = b /\ Folds(h, n, V, st)
  <2>1. ASSUME NEW s \in SUBSET (1 .. n), s # {}, h[s \ {Max(s)}] \in V
        PROVE  h[s] = st[<<Max(s), h[s \ {Max(s)}]>>]
    <3>1. Max(s) \in 1 .. n
      BY <2>1, MaxExists
    <3>2. QED
      BY <1>5, <2>1, <3>1
  <2>2. QED
    BY <1>5, <2>1 DEF Folds
<1>8. PICK f0 \in [0 .. n -> V] : IsLoop(f0, n, b, st, h[1 .. n])
  <2> HIDE DEF st, Body
  <2>1. QED
    BY <1>2, <1>7, IndexFoldSteps
<1>9. ASSUME NEW i \in 1 .. n PROVE f0[i] = ApplyTxnDay1(f0[i - 1], txs[i])
  <2>1. <<i, f0[i - 1]>> \in (1 .. n) \X V
    OBVIOUS
  <2>2. QED
    BY <1>8, <2>1 DEF IsLoop
<1>10. QED
  BY <1>6, <1>8, <1>9 DEF IsLoop, IsRunDay1

-----------------------------------------------------------------------------
(* What the loops keep.                                                     *)

Payers(txs, n) == {txs[i].source : i \in 1 .. n}

SelfPaying(tx) == tx.source \in {tx.dest, tx.change}

\* No prefix of the transactions creates money, and only payers lose any.
MoneyKept(acc, b, txs, n) ==
    /\ Supply(acc.balances) <= Supply(b.balances)
    /\ Supply(b.balances) < Wrap =>
          /\ (\A i \in 1 .. n : ~SelfPaying(txs[i])) =>
                Supply(acc.balances) = Supply(b.balances)
          /\ \A a : a \notin Payers(txs, n) => Value(acc.balances, a) >= Value(b.balances, a)
    /\ DOMAIN b.balances \ Payers(txs, n) \subseteq DOMAIN acc.balances

LEMMA RunKeepsMoney ==
    ASSUME NEW A, NEW n \in Nat, NEW txs, Readable(txs, n, A), NEW b \in Accs(A),
           NEW end, NEW g \in [0 .. n -> Accs(A)], IsRun(g, n, txs, b, end)
    PROVE  MoneyKept(end, b, txs, n)
<1> DEFINE S == {i \in 0 .. n : MoneyKept(g[i], b, txs, n)}
<1>1. \A acc \in Accs(A) : IsMap(acc.balances) /\ DOMAIN acc.balances \subseteq A
  BY MapsAreMaps DEF Accs
<1>2. Supply(b.balances) \in Nat /\ \A a : Value(b.balances, a) \in Nat
  BY <1>1, SupplySplit, SupplyType
<1>3. 0 \in S
  BY <1>2 DEF MoneyKept, IsRun
<1>4. ASSUME NEW i \in 0 .. n - 1, i \in S PROVE i + 1 \in S
  <2> DEFINE old == g[i].balances
             new == g[i + 1].balances
             tx == txs[i + 1]
  <2>1. i \in 0 .. n /\ i + 1 \in 0 .. n /\ i + 1 \in 1 .. n /\ (i + 1) - 1 = i
    OBVIOUS
  <2>2. IsMap(old) /\ MoneyKept(g[i], b, txs, n)
    BY <1>1, <1>4, <2>1
  <2>3. /\ g[i + 1].ok => tx.amount > 0 /\ BalanceAvailable(tx, old)
        /\ new = IF g[i + 1].ok THEN UpdateBalances(tx, old) ELSE old
    <3>1. g[i + 1] = ApplyTxn(g[i], tx)
      BY <2>1 DEF IsRun
    <3>2. tx.amount \in Int /\ {tx.dest, tx.change} \subseteq A /\ g[i] \in Accs(A)
      BY <2>1 DEF Readable
    <3> HIDE DEF tx
    <3>3. QED
      BY <3>1, <3>2, ApplyTxnStep
  <2>4. CASE ~g[i + 1].ok
    <3>1. MoneyKept(g[i + 1], b, txs, n)
      BY <2>2, <2>3, <2>4 DEF MoneyKept
    <3>2. QED
      BY <2>1, <3>1
  <2>5. CASE g[i + 1].ok
    <3>1. tx.amount \in Nat /\ tx.source \in Payers(txs, n)
      BY <2>1, <2>3, <2>5 DEF Readable, Payers
    <3>2. /\ IsMap(new)
          /\ DOMAIN new = (DOMAIN old \cup {tx.dest, tx.change}) \ {tx.source}
          /\ Supply(new) <= Supply(old)
          /\ Supply(old) < Wrap =>
                /\ ~SelfPaying(tx) => Supply(new) = Supply(old)
                /\ \A a : a # tx.source => Value(new, a) >= Value(old, a)
      <4> HIDE DEF old, tx, new
      <4>1. LET R == UpdateBalances(tx, old)
            IN  /\ IsMap(R)
                /\ DOMAIN R = (DOMAIN old \cup {tx.dest, tx.change}) \ {tx.source}
                /\ Supply(R) <= Supply(old)
                /\ Supply(old) < Wrap =>
                      /\ tx.source \notin {tx.dest, tx.change} => Supply(R) = Supply(old)
                      /\ \A a : a # tx.source => Value(R, a) >= Value(old, a)
        BY <2>2, <2>3, <2>5, <3>1, UpdateMovesMoney
      <4>2. QED
        BY <2>3, <2>5, <4>1 DEF SelfPaying
    <3>3. /\ Supply(new) \in Nat /\ Supply(old) \in Nat
          /\ \A a : Value(new, a) \in Nat /\ Value(old, a) \in Nat
      BY <2>2, <3>2, SupplySplit, SupplyType
    <3>4. Supply(old) <= Supply(b.balances)
      BY <2>2 DEF MoneyKept
    <3>5. Supply(new) <= Supply(b.balances)
      BY <1>2, <3>2, <3>3, <3>4
    <3>6. ASSUME Supply(b.balances) < Wrap PROVE Supply(old) < Wrap
      BY <1>2, <3>3, <3>4, <3>6, LedgerAssumption
    <3>7. ASSUME Supply(b.balances) < Wrap, \A j \in 1 .. n : ~SelfPaying(txs[j])
          PROVE  Supply(new) = Supply(b.balances)
      <4>1. Supply(old) = Supply(b.balances) /\ ~SelfPaying(tx)
        BY <2>1, <2>2, <3>7 DEF MoneyKept
      <4>2. QED
        BY <3>2, <3>6, <3>7, <4>1
    <3>8. ASSUME Supply(b.balances) < Wrap, NEW a, a \notin Payers(txs, n)
          PROVE  Value(new, a) >= Value(b.balances, a)
      <4>1. Value(old, a) >= Value(b.balances, a)
        BY <2>2, <3>8 DEF MoneyKept
      <4>2. Value(new, a) >= Value(old, a)
        BY <3>1, <3>2, <3>6, <3>8
      <4>3. QED
        BY <1>2, <3>3, <4>1, <4>2
    <3>9. DOMAIN b.balances \ Payers(txs, n) \subseteq DOMAIN new
      BY <2>2, <3>1, <3>2 DEF MoneyKept
    <3>10. MoneyKept(g[i + 1], b, txs, n)
      BY <3>5, <3>7, <3>8, <3>9 DEF MoneyKept
    <3>11. QED
      BY <2>1, <3>10
  <2>6. QED
    BY <2>4, <2>5
<1> HIDE DEF S
<1>5. 0 .. n \subseteq S
  BY <1>3, <1>4, PrefixInduction
<1>6. n \in 0 .. n
  OBVIOUS
<1>7. QED
  BY <1>5, <1>6 DEF S, IsRun


\* The two versions go through the same balances as long as day4 refuses
\* nothing, and day4 refuses what is not signed.
LEMMA RunsAgree ==
    ASSUME NEW A, NEW n \in Nat, NEW txs, Readable(txs, n, A), NEW b \in Accs(A), b.ok,
           \A i \in 1 .. n : txs[i].amount > 0,
           NEW e, NEW g \in [0 .. n -> Accs(A)], IsRun(g, n, txs, b, e),
           NEW f, NEW h \in [0 .. n -> Accs(A)], IsRunDay1(h, n, txs, b, f)
    PROVE  /\ e.ok <=> f.ok /\ \A i \in 1 .. n : txs[i].signed
           /\ e.ok => e.balances = f.balances
<1> DEFINE Same(i) ==
              /\ g[i].ok <=> h[i].ok /\ \A j \in 1 .. i : txs[j].signed
              /\ g[i].ok => g[i].balances = h[i].balances
           S == {i \in 0 .. n : Same(i)}
<1>1. 0 \in S
  <2>1. 1 .. 0 = {} /\ 0 \in 0 .. n
    OBVIOUS
  <2>2. Same(0)
    BY <2>1 DEF IsRun, IsRunDay1
  <2>3. QED
    BY <2>1, <2>2
<1>2. ASSUME NEW i \in 0 .. n - 1, i \in S PROVE i + 1 \in S
  <2> DEFINE tx == txs[i + 1]
  <2>1. i \in 0 .. n /\ i + 1 \in 0 .. n /\ i + 1 \in 1 .. n /\ (i + 1) - 1 = i
    OBVIOUS
  <2>2. Same(i)
    BY <1>2
  <2>3. g[i] \in Accs(A) /\ h[i] \in Accs(A)
    BY <2>1
  <2>4. tx.amount \in Nat /\ tx.amount > 0 /\ {tx.dest, tx.change} \subseteq A
    BY <2>1 DEF Readable
  <2>5. g[i + 1] = ApplyTxn(g[i], tx) /\ h[i + 1] = ApplyTxnDay1(h[i], tx)
    BY <2>1 DEF IsRun, IsRunDay1
  <2>6. /\ g[i + 1].ok <=> g[i].ok /\ tx.signed /\ BalanceAvailable(tx, g[i].balances)
        /\ g[i + 1].ok => g[i + 1].balances = UpdateBalances(tx, g[i].balances)
    <3> HIDE DEF tx
    <3>1. QED
      BY <2>3, <2>4, <2>5, ApplyTxnStep
  <2>7. /\ h[i + 1].ok <=> h[i].ok /\ BalanceAvailable(tx, h[i].balances)
        /\ h[i + 1].ok => h[i + 1].balances = UpdateBalances(tx, h[i].balances)
    <3> HIDE DEF tx
    <3>1. QED
      BY <2>3, <2>4, <2>5, ApplyTxnDay1Step
  <2>8. (\A j \in 1 .. i + 1 : txs[j].signed) <=> tx.signed /\ \A j \in 1 .. i : txs[j].signed
    BY <2>1
  <2>9. Same(i + 1)
    <3> HIDE DEF tx
    <3>1. g[i + 1].ok <=> h[i + 1].ok /\ \A j \in 1 .. i + 1 : txs[j].signed
      BY <2>2, <2>6, <2>7, <2>8
    <3>2. ASSUME g[i + 1].ok PROVE g[i + 1].balances = h[i + 1].balances
      <4>1. g[i].ok /\ h[i + 1].ok
        BY <2>6, <3>1, <3>2
      <4>2. QED
        BY <2>2, <2>6, <2>7, <3>2, <4>1
    <3>3. QED
      BY <3>1, <3>2
  <2> HIDE DEF Same
  <2>10. QED
    BY <2>1, <2>9
<1> HIDE DEF S
<1>3. 0 .. n \subseteq S
  BY <1>1, <1>2, PrefixInduction
<1>4. n \in 0 .. n
  OBVIOUS
<1>5. QED
  BY <1>3, <1>4 DEF S, IsRun, IsRunDay1

-----------------------------------------------------------------------------
(* Sequences.                                                               *)

LEMMA ConcatSeq ==
    ASSUME NEW S, NEW f \in Seq(S), NEW g \in Seq(S)
    PROVE  /\ f \o g \in Seq(S)
           /\ Len(f \o g) = Len(f) + Len(g)
           /\ \A i \in 1 .. Len(f) : (f \o g)[i] = f[i]
           /\ \A i \in 1 .. Len(g) : (f \o g)[Len(f) + i] = g[i]
  OBVIOUS

\* Concatenating all elements of a sequence of sequences, one after another.
LEMMA FlattenSteps ==
    ASSUME NEW S, NEW n \in Nat, NEW seqs \in [1 .. n -> Seq(S)]
    PROVE  \E h \in [0 .. n -> Seq(S)] :
              /\ h[0] = <<>>
              /\ \A i \in 1 .. n : h[i] = h[i - 1] \o seqs[i]
              /\ FlattenSeq(seqs) = h[n]
<1> DEFINE V == Seq(S)
           st == [p \in (1 .. n) \X V |-> p[2] \o seqs[p[1]]]
           Body(g) == [i \in 1 .. n |-> IF i = 1 THEN seqs[i] ELSE g[i - 1] \o seqs[i]]
           h == CHOOSE g : g = [i \in 1 .. Len(seqs) |->
                                  IF i = 1 THEN seqs[i] ELSE g[i - 1] \o seqs[i]]
<1>0. Len(seqs) = n /\ seqs \in Seq(Seq(S))
  OBVIOUS
<1>1. ASSUME NEW v \in V, NEW i \in 1 .. n PROVE v \o seqs[i] \in V
  BY ConcatSeq
<1>2. st \in [(1 .. n) \X V -> V]
  BY <1>1
<1>3. <<>> \in V
  OBVIOUS
<1>4. PICK g \in [SUBSET (1 .. n) -> V] : IsIndexFold(g, n, <<>>, st)
  <2> HIDE DEF st, V, Body, h
  <2>1. QED
    BY <1>2, <1>3, IndexFoldExists
<1> DEFINE f == [i \in 1 .. n |-> g[1 .. i]]
<1>5. ASSUME NEW i \in 1 .. n
      PROVE  f[i] = g[1 .. i - 1] \o seqs[i]
  <2>1. 1 .. i \in SUBSET (1 .. n) /\ 1 .. i - 1 \in SUBSET (1 .. n) /\ i \in Nat \ {0}
    OBVIOUS
  <2>2. 1 .. i # {} /\ Max(1 .. i) = i /\ (1 .. i) \ {i} = 1 .. i - 1
    BY <2>1, LastIndex
  <2>3. g[1 .. i] = st[<<i, g[1 .. i - 1]>>]
    BY <1>4, <2>1, <2>2 DEF IsIndexFold
  <2>4. <<i, g[1 .. i - 1]>> \in (1 .. n) \X V
    BY <2>1
  <2>5. QED
    BY <2>3, <2>4
<1>6. f = Body(f)
  <2>1. ASSUME NEW i \in 1 .. n
        PROVE  f[i] = IF i = 1 THEN seqs[i] ELSE f[i - 1] \o seqs[i]
    <3>1. CASE i = 1
      <4>1. 1 .. i - 1 = {}
        BY <3>1
      <4>2. g[{}] = <<>>
        BY <1>4 DEF IsIndexFold
      <4>3. f[i] = <<>> \o seqs[i]
        BY <1>5, <4>1, <4>2
      <4>4. <<>> \o seqs[i] = seqs[i]
        OBVIOUS
      <4>5. QED
        BY <3>1, <4>3, <4>4
    <3>2. CASE i # 1
      <4>1. i - 1 \in 1 .. n
        BY <3>2
      <4>2. QED
        BY <1>5, <3>2, <4>1
    <3>3. QED
      BY <3>1, <3>2
  <2>2. QED
    BY <2>1
<1>7. h = Body(h)
  <2> HIDE DEF f
  <2>1. h = CHOOSE k : k = Body(k)
    BY <1>0
  <2> HIDE DEF Body, h
  <2>2. QED
    BY <1>6, <2>1
<1>8. FlattenSeq(seqs) = IF n = 0 THEN <<>> ELSE h[n]
  <2>1. n = 0 => seqs = <<>>
    OBVIOUS
  <2>2. FlattenSeq(seqs) = IF Len(seqs) = 0 THEN seqs ELSE h[Len(seqs)]
    BY Zenon DEF FlattenSeq
  <2> HIDE DEF h
  <2>3. QED
    BY <1>0, <2>1, <2>2
<1> HIDE DEF h, f
<1> DEFINE k == [i \in 0 .. n |-> IF i = 0 THEN <<>> ELSE h[i]]
<1>9. ASSUME NEW i \in 1 .. n PROVE k[i] = k[i - 1] \o seqs[i]
  <2>1. h[i] = IF i = 1 THEN seqs[i] ELSE h[i - 1] \o seqs[i]
    BY <1>7
  <2>2. CASE i = 1
    <3>1. <<>> \o seqs[i] = seqs[i]
      OBVIOUS
    <3>2. k[i] = seqs[i] /\ k[i - 1] = <<>>
      BY <2>1, <2>2
    <3>3. QED
      BY <3>1, <3>2
  <2>3. CASE i # 1
    BY <2>1, <2>3
  <2>4. QED
    BY <2>2, <2>3
<1>10. k[0] = <<>> /\ FlattenSeq(seqs) = k[n]
  BY <1>8
<1> HIDE DEF k, V, st, Body
<1> DEFINE T == {i \in 0 .. n : k[i] \in V}
<1>11. 0 \in T
  <2>1. 0 \in 0 .. n
    OBVIOUS
  <2>2. QED
    BY <1>3, <1>10, <2>1
<1>12. ASSUME NEW i \in 0 .. n - 1, i \in T PROVE i + 1 \in T
  <2>1. i + 1 \in 1 .. n /\ (i + 1) - 1 = i
    OBVIOUS
  <2>2. k[i] \o seqs[i + 1] \in V
    BY <1>1, <1>12, <2>1
  <2>3. k[i + 1] = k[i] \o seqs[i + 1] /\ i + 1 \in 0 .. n
    <3>1. k[i + 1] = k[(i + 1) - 1] \o seqs[i + 1]
      BY <1>9, <2>1
    <3>2. QED
      BY <2>1, <3>1
  <2>4. QED
    BY <2>2, <2>3
<1> HIDE DEF T
<1>13. 0 .. n \subseteq T
  BY <1>11, <1>12, PrefixInduction
<1>14. k \in [0 .. n -> Seq(S)]
  BY <1>13 DEF T, k, V
<1>15. QED
  BY <1>9, <1>10, <1>14

-----------------------------------------------------------------------------
(* Blocks.                                                                  *)

IsBlock(blk) == \E n \in Nat : /\ DOMAIN blk.txs = 1 .. n
                               /\ \A i \in 1 .. n : blk.txs[i].amount \in Int

\* The loops of both versions start from the balances of the predecessor.
LEMMA ValidateRun ==
    ASSUME NEW blk, IsBlock(blk), NEW bal, IsMap(bal)
    PROVE  \E A : \E n \in Nat :
              /\ Readable(blk.txs, n, A)
              /\ [ok |-> TRUE, balances |-> bal] \in Accs(A)
              /\ \E g \in [0 .. n -> Accs(A)] :
                    IsRun(g, n, blk.txs, [ok |-> TRUE, balances |-> bal],
                          FoldLeft(ApplyTxn, [ok |-> TRUE, balances |-> bal], blk.txs))
<1>1. PICK n \in Nat : DOMAIN blk.txs = 1 .. n /\ \A i \in 1 .. n : blk.txs[i].amount \in Int
  BY DEF IsBlock
<1> DEFINE txs == blk.txs
           b == [ok |-> TRUE, balances |-> bal]
           A == DOMAIN bal \cup {txs[i].dest : i \in 1 .. n} \cup {txs[i].change : i \in 1 .. n}
<1>2. Readable(txs, n, A)
  BY <1>1 DEF Readable
<1>3. b \in Accs(A)
  <2>1. bal \in Maps(A)
    BY MapsAreMaps
  <2>2. QED
    BY <2>1 DEF Accs
<1> HIDE DEF A, txs, b
<1>4. \E g \in [0 .. n -> Accs(A)] : IsRun(g, n, txs, b, FoldLeft(ApplyTxn, b, txs))
  <2>1. \A acc \in Accs(A) : \A i \in 1 .. n : ApplyTxn(acc, txs[i]) \in Accs(A)
    BY <1>2, ApplyTxnStep DEF Readable
  <2>2. DOMAIN txs = 1 .. n
    BY <1>2 DEF Readable
  <2>3. QED
    BY <1>3, <2>1, <2>2, FoldApplyTxn
<1>5. QED
  BY <1>2, <1>3, <1>4 DEF txs, b


LEMMA Day1Run ==
    ASSUME NEW txs, NEW A, NEW n \in Nat, Readable(txs, n, A), NEW b \in Accs(A),
           \A i \in DOMAIN txs : txs[i].amount > 0
    PROVE  \E h \in [0 .. n -> Accs(A)] :
              IsRunDay1(h, n, txs, b, FoldLeft(ApplyTxnDay1, b, txs))
<1>1. DOMAIN txs = 1 .. n /\ \A i \in 1 .. n : txs[i].amount \in Nat
  BY DEF Readable
<1>2. \A acc \in Accs(A) : \A i \in 1 .. n : ApplyTxnDay1(acc, txs[i]) \in Accs(A)
  BY <1>1, ApplyTxnDay1Step DEF Readable
<1>3. QED
  BY <1>1, <1>2, FoldApplyTxnDay1

\* What the loop leaves in a block: balances whose sum is at most that of the
\* predecessor.
LEMMA ValidateLoop ==
    ASSUME NEW blk, IsBlock(blk), NEW bal, IsMap(bal)
    PROVE  LET b   == [ok |-> TRUE, balances |-> bal]
               end == FoldLeft(ApplyTxn, b, blk.txs)
           IN  \E n \in Nat : /\ DOMAIN blk.txs = 1 .. n
                              /\ end.ok \in BOOLEAN
                              /\ IsMap(end.balances)
                              /\ MoneyKept(end, b, blk.txs, n)
<1> DEFINE b == [ok |-> TRUE, balances |-> bal]
           end == FoldLeft(ApplyTxn, b, blk.txs)
<1> HIDE DEF end
<1>1. PICK A : \E n \in Nat :
                  /\ Readable(blk.txs, n, A)
                  /\ b \in Accs(A)
                  /\ \E g \in [0 .. n -> Accs(A)] : IsRun(g, n, blk.txs, b, end)
  BY ValidateRun DEF end
<1>2. PICK n \in Nat :
              /\ Readable(blk.txs, n, A)
              /\ b \in Accs(A)
              /\ \E g \in [0 .. n -> Accs(A)] : IsRun(g, n, blk.txs, b, end)
  BY <1>1
<1>3. PICK g \in [0 .. n -> Accs(A)] : IsRun(g, n, blk.txs, b, end)
  BY <1>2
<1> HIDE DEF b
<1>4. MoneyKept(end, b, blk.txs, n)
  BY <1>2, <1>3, RunKeepsMoney
<1>5. end \in Accs(A)
  <2>1. n \in 0 .. n
    OBVIOUS
  <2>2. QED
    BY <1>3, <2>1 DEF IsRun
<1>6. end.ok \in BOOLEAN /\ IsMap(end.balances)
  BY <1>5, MapsAreMaps DEF Accs
<1>7. DOMAIN blk.txs = 1 .. n
  BY <1>2 DEF Readable
<1>8. QED
  BY <1>4, <1>6, <1>7 DEF b, end

\* A valid block creates no money but its reward: neither a payment to one's
\* own address nor a wrapped sum makes any, and if nobody pays itself and the
\* money of the chain is below 2^64 none is lost (transaction.cpp:126-140,
\* blockchain.cpp:94-116).
THEOREM BlockCreatesReward ==
    ASSUME NEW blk, IsBlock(blk), NEW bal, IsMap(bal), Validate(blk, bal).ok
    PROVE  LET new == Validate(blk, bal).balances
           IN  /\ IsMap(new)
               /\ Supply(new) <= Supply(bal) + BLOCK_REWARD
               /\ (/\ Supply(bal) + BLOCK_REWARD < Wrap
                   /\ \A i \in DOMAIN blk.txs : ~SelfPaying(blk.txs[i])) =>
                     Supply(new) = Supply(bal) + BLOCK_REWARD
<1> DEFINE b == [ok |-> TRUE, balances |-> bal]
           end == FoldLeft(ApplyTxn, b, blk.txs)
           new == Credit(end.balances, blk.reward, BLOCK_REWARD)
<1> HIDE DEF end
<1>1. PICK n \in Nat : /\ DOMAIN blk.txs = 1 .. n
                       /\ end.ok \in BOOLEAN
                       /\ IsMap(end.balances)
                       /\ MoneyKept(end, b, blk.txs, n)
  BY ValidateLoop DEF end
<1>2. Validate(blk, bal).balances = new
  <2>1. CASE end.ok
    BY <2>1 DEF Validate, end
  <2>2. CASE ~end.ok
    <3>1. Validate(blk, bal) = end
      BY <2>2 DEF Validate, end
    <3>2. QED
      BY <2>2, <3>1
  <2>3. QED
    BY <2>1, <2>2
<1>3. BLOCK_REWARD \in Nat /\ Wrap \in Nat
  BY LedgerAssumption
<1>4. /\ IsMap(new) /\ Supply(new) <= Supply(end.balances) + BLOCK_REWARD
      /\ Supply(end.balances) + BLOCK_REWARD < Wrap =>
            Supply(new) = Supply(end.balances) + BLOCK_REWARD
  BY <1>1, <1>3, SupplyCredit DEF Credited
<1>5. Supply(end.balances) \in Nat /\ Supply(bal) \in Nat /\ Supply(new) \in Nat
  BY <1>1, <1>4, SupplyType
<1>6. Supply(end.balances) <= Supply(bal)
  BY <1>1 DEF MoneyKept
<1>7. Supply(new) <= Supply(bal) + BLOCK_REWARD
  BY <1>3, <1>4, <1>5, <1>6
<1>8. ASSUME Supply(bal) + BLOCK_REWARD < Wrap,
             \A i \in DOMAIN blk.txs : ~SelfPaying(blk.txs[i])
      PROVE  Supply(new) = Supply(bal) + BLOCK_REWARD
  <2>1. Supply(bal) < Wrap
    BY <1>3, <1>5, <1>8
  <2>2. Supply(end.balances) = Supply(bal)
    BY <1>1, <1>8, <2>1 DEF MoneyKept
  <2>3. QED
    BY <1>4, <1>8, <2>2
<1> HIDE DEF new
<1>9. QED
  BY <1>2, <1>4, <1>7, <1>8

\* Whatever the verdict, an address that is no source of the block keeps its
\* entry and what it has.  With a right hash, or a transaction that is refused,
\* the hash plays no part in the balances: a block refused for a transaction
\* creates nothing, and one refused for its hash alone keeps what an accepted
\* one has, the reward included (blockchain.cpp:66-92).
THEOREM OnlyPayersLose ==
    ASSUME NEW blk, IsBlock(blk), NEW bal, IsMap(bal), Supply(bal) + BLOCK_REWARD < Wrap,
           NEW true, true.txs = blk.txs, true.reward = blk.reward, true.hashed = TRUE
    PROVE  LET r == Validate(blk, bal)
               t == Validate(true, bal)
           IN  /\ \A a \in DOMAIN bal \ {blk.txs[i].source : i \in DOMAIN blk.txs} :
                     a \in DOMAIN r.balances /\ r.balances[a] >= bal[a]
               /\ ~t.ok => ~r.ok /\ Supply(r.balances) <= Supply(bal)
               /\ t.ok => /\ r.ok = blk.hashed
                          /\ r.balances = t.balances
                          /\ blk.reward \in DOMAIN r.balances
                          /\ r.balances[blk.reward] >= BLOCK_REWARD
                          /\ Supply(r.balances) <= Supply(bal) + BLOCK_REWARD
<1> DEFINE b == [ok |-> TRUE, balances |-> bal]
           end == FoldLeft(ApplyTxn, b, blk.txs)
           new == Credit(end.balances, blk.reward, BLOCK_REWARD)
           r == Validate(blk, bal)
           t == Validate(true, bal)
<1> HIDE DEF end
<1>1. PICK n \in Nat : /\ DOMAIN blk.txs = 1 .. n
                       /\ end.ok \in BOOLEAN
                       /\ IsMap(end.balances)
                       /\ MoneyKept(end, b, blk.txs, n)
  BY ValidateLoop DEF end
<1>2. BLOCK_REWARD \in Nat /\ Wrap \in Nat
  BY LedgerAssumption
<1>3. Supply(end.balances) \in Nat /\ Supply(bal) \in Nat
  BY <1>1, SupplyType
<1>4. Supply(end.balances) <= Supply(bal) /\ Supply(bal) < Wrap
  <2>1. Supply(end.balances) <= Supply(bal)
    BY <1>1 DEF MoneyKept
  <2>2. QED
    BY <1>2, <1>3, <2>1
<1>5. /\ \A a : a \notin Payers(blk.txs, n) => Value(end.balances, a) >= Value(bal, a)
      /\ DOMAIN bal \ Payers(blk.txs, n) \subseteq DOMAIN end.balances
  BY <1>1, <1>4 DEF MoneyKept
<1>6. \A a : Value(end.balances, a) \in Nat /\ Value(bal, a) \in Nat
  BY <1>1, SupplySplit
<1>7. CASE end.ok
  <2>1. /\ r.balances = new /\ r.ok = blk.hashed
        /\ t.balances = new /\ t.ok = TRUE
    BY <1>7, Zenon DEF Validate, end
  <2>2. Supply(end.balances) + BLOCK_REWARD < Wrap
    BY <1>2, <1>3, <1>4
  <2>3. /\ DOMAIN new = DOMAIN end.balances \cup {blk.reward}
        /\ Credited(new, end.balances, blk.reward, BLOCK_REWARD)
    BY <1>1, <1>2, <2>2, SupplyCredit
  <2> HIDE DEF new, r, t
  <2>4. \A a : Value(new, a) >= Value(end.balances, a)
    BY <1>2, <1>6, <2>3 DEF Credited
  <2>5. ASSUME NEW a \in DOMAIN bal \ Payers(blk.txs, n)
        PROVE  a \in DOMAIN new /\ new[a] >= bal[a]
    <3>1. a \in DOMAIN new
      BY <1>5, <2>3, <2>5
    <3>2. Value(new, a) >= Value(bal, a)
      <4>1. Value(new, a) = Value(end.balances, a) \/ Value(new, a) = Value(end.balances, a) + BLOCK_REWARD
        BY <2>3 DEF Credited
      <4>2. QED
        BY <1>2, <1>5, <1>6, <2>5, <4>1
    <3>3. QED
      BY <3>1, <3>2 DEF Value
  <2>6. blk.reward \in DOMAIN new /\ new[blk.reward] >= BLOCK_REWARD
    <3>1. Value(new, blk.reward) = Value(end.balances, blk.reward) + BLOCK_REWARD
      BY <2>3 DEF Credited
    <3>2. Value(new, blk.reward) >= BLOCK_REWARD
      BY <1>2, <1>6, <3>1
    <3>3. QED
      BY <2>3, <3>2 DEF Value
  <2>7. Supply(new) <= Supply(bal) + BLOCK_REWARD
    BY <1>2, <1>3, <1>4, <2>3 DEF Credited
  <2>8. QED
    BY <1>1, <2>1, <2>5, <2>6, <2>7 DEF Payers, r, t
<1>8. CASE ~end.ok
  <2>1. r = end /\ t = end
    BY <1>8 DEF Validate, end
  <2> HIDE DEF r, t
  <2>2. ASSUME NEW a \in DOMAIN bal \ Payers(blk.txs, n)
        PROVE  a \in DOMAIN end.balances /\ end.balances[a] >= bal[a]
    BY <1>5, <2>2 DEF Value
  <2>3. QED
    BY <1>1, <1>4, <1>8, <2>1, <2>2 DEF Payers, r, t
<1>9. QED
  BY <1>1, <1>7, <1>8

\* The two loops of day1 accept the blocks that the one loop of day4 accepts,
\* with the same balances, if no amount is zero (day1/blockchain.cpp:107-127).
THEOREM Day1Agrees ==
    ASSUME NEW blk, IsBlock(blk), NEW bal, IsMap(bal),
           \A i \in DOMAIN blk.txs : blk.txs[i].amount > 0
    PROVE  /\ ValidateDay1(blk, bal).ok <=> Validate(blk, bal).ok
           /\ Validate(blk, bal).ok =>
                 ValidateDay1(blk, bal).balances = Validate(blk, bal).balances
<1> DEFINE b == [ok |-> TRUE, balances |-> bal]
           e == FoldLeft(ApplyTxn, b, blk.txs)
           f == FoldLeft(ApplyTxnDay1, b, blk.txs)
<1> HIDE DEF e, f
<1>1. PICK A : \E n \in Nat :
                  /\ Readable(blk.txs, n, A)
                  /\ b \in Accs(A)
                  /\ \E g \in [0 .. n -> Accs(A)] : IsRun(g, n, blk.txs, b, e)
  BY ValidateRun DEF e
<1>2. PICK n \in Nat :
              /\ Readable(blk.txs, n, A)
              /\ b \in Accs(A)
              /\ \E g \in [0 .. n -> Accs(A)] : IsRun(g, n, blk.txs, b, e)
  BY <1>1
<1>3. PICK g \in [0 .. n -> Accs(A)] : IsRun(g, n, blk.txs, b, e)
  BY <1>2
<1>4. b.ok
  OBVIOUS
<1> HIDE DEF b
<1>5. PICK h \in [0 .. n -> Accs(A)] : IsRunDay1(h, n, blk.txs, b, f)
  BY <1>2, Day1Run DEF f
<1>6. DOMAIN blk.txs = 1 .. n /\ \A i \in 1 .. n : blk.txs[i].amount > 0
  BY <1>2 DEF Readable
<1>7. /\ e.ok <=> f.ok /\ \A i \in 1 .. n : blk.txs[i].signed
      /\ e.ok => e.balances = f.balances
  BY <1>2, <1>3, <1>4, <1>5, <1>6, RunsAgree
<1> DEFINE unsigned == \E i \in DOMAIN blk.txs : ~TxnValidateDay1(blk.txs[i])
<1>8. unsigned <=> ~(\A i \in 1 .. n : blk.txs[i].signed)
  BY <1>6 DEF TxnValidateDay1
<1> HIDE DEF unsigned
<1>9. Validate(blk, bal) = IF e.ok
                           THEN [ok |-> blk.hashed,
                                 balances |-> Credit(e.balances, blk.reward, BLOCK_REWARD)]
                           ELSE e
  BY DEF Validate, e, b
<1>10. ValidateDay1(blk, bal) =
          IF unsigned THEN [ok |-> FALSE, balances |-> bal]
          ELSE IF f.ok
          THEN [ok |-> blk.hashed,
                balances |-> Credit(f.balances, blk.reward, BLOCK_REWARD)]
          ELSE f
  BY DEF ValidateDay1, f, b, unsigned
<1>11. CASE e.ok
  <2>1. ~unsigned /\ f.ok /\ e.balances = f.balances
    BY <1>7, <1>8, <1>11
  <2>2. ValidateDay1(blk, bal) = Validate(blk, bal)
    BY <1>9, <1>10, <1>11, <2>1
  <2>3. QED
    BY <2>2
<1>12. CASE ~e.ok
  <2>1. Validate(blk, bal) = e
    BY <1>9, <1>12
  <2>2. unsigned \/ ~f.ok
    BY <1>7, <1>8, <1>12
  <2>3. ~ValidateDay1(blk, bal).ok
    <3>1. CASE unsigned
      BY <1>10, <3>1
    <3>2. CASE ~unsigned
      <4>1. ValidateDay1(blk, bal) = f /\ ~f.ok
        BY <1>10, <2>2, <3>2
      <4>2. QED
        BY <4>1
    <3>3. QED
      BY <3>1, <3>2
  <2>4. QED
    BY <1>12, <2>1, <2>3
<1>13. QED
  BY <1>11, <1>12

-----------------------------------------------------------------------------
(* Maps that hold the same money.                                           *)

\* Entries of nothing do not count.
SameMoney(m1, m2) == \A a : Value(m1, a) = Value(m2, a)

\* operator== of two containers of balances compares the money in them.
LEMMA EqualMaps ==
    ASSUME NEW m1, IsMap(m1), NEW m2, IsMap(m2)
    PROVE  BalanceMapsEqual(m1, m2) <=> SameMoney(m1, m2)
<1>1. ASSUME BalanceMapsEqual(m1, m2), NEW a PROVE Value(m1, a) = Value(m2, a)
  BY <1>1 DEF BalanceMapsEqual, IncludedIn, Value
<1>2. ASSUME SameMoney(m1, m2), NEW a \in DOMAIN m1
      PROVE  IF m1[a] = 0 THEN a \in DOMAIN m2 => m2[a] = 0
             ELSE a \in DOMAIN m2 /\ m2[a] = m1[a]
  <2>1. Value(m1, a) = Value(m2, a)
    BY <1>2 DEF SameMoney
  <2>2. QED
    BY <1>2, <2>1 DEF Value
<1>3. ASSUME SameMoney(m1, m2), NEW a \in DOMAIN m2
      PROVE  IF m2[a] = 0 THEN a \in DOMAIN m1 => m1[a] = 0
             ELSE a \in DOMAIN m1 /\ m1[a] = m2[a]
  <2>1. Value(m1, a) = Value(m2, a)
    BY <1>3 DEF SameMoney
  <2>2. QED
    BY <1>3, <2>1 DEF Value
<1>4. QED
  BY <1>1, <1>2, <1>3 DEF BalanceMapsEqual, IncludedIn, SameMoney

\* What credit does to an entry.
LEMMA CreditValue ==
    ASSUME NEW m, IsMap(m), NEW a, NEW n \in Nat
    PROVE  /\ IsMap(Credit(m, a, n))
           /\ \A k : Value(Credit(m, a, n), k) =
                        IF k = a THEN (Value(m, a) + n) % Wrap ELSE Value(m, k)
<1> DEFINE v == (Value(m, a) + n) % Wrap
<1>1. Value(m, a) \in Nat
  BY DEF Value, IsMap
<1>2. v \in Nat
  BY <1>1, LedgerAssumption
<1>3. Credit(m, a, n) = Put(m, a, v)
  BY DEF Credit, Value
<1> HIDE DEF v
<1>4. IsMap(Put(m, a, v))
  BY <1>2, PutMap
<1>5. \A k : Value(Put(m, a, v), k) = IF k = a THEN v ELSE Value(m, k)
  BY <1>2 DEF Put, Value
<1>6. QED
  BY <1>3, <1>4, <1>5 DEF v

\* Credit keeps the same money the same.
LEMMA CreditSame ==
    ASSUME NEW m1, IsMap(m1), NEW m2, IsMap(m2), SameMoney(m1, m2),
           NEW a, NEW n \in Nat
    PROVE  SameMoney(Credit(m1, a, n), Credit(m2, a, n))
BY CreditValue DEF SameMoney

\* A payment does the same to the same money.
LEMMA UpdateSame ==
    ASSUME NEW m1, IsMap(m1), NEW m2, IsMap(m2), SameMoney(m1, m2),
           NEW tx, tx.amount \in Nat \ {0}
    PROVE  /\ BalanceAvailable(tx, m1) <=> BalanceAvailable(tx, m2)
           /\ BalanceAvailable(tx, m1) =>
                 SameMoney(UpdateBalances(tx, m1), UpdateBalances(tx, m2))
<1>1. Value(m1, tx.source) = Value(m2, tx.source)
  BY DEF SameMoney
<1>2. ASSUME NEW m, IsMap(m)
      PROVE  BalanceAvailable(tx, m) <=> Value(m, tx.source) >= tx.amount
  BY <1>2 DEF BalanceAvailable, Value, IsMap
<1>3. BalanceAvailable(tx, m1) <=> BalanceAvailable(tx, m2)
  BY <1>1, <1>2
<1>4. ASSUME BalanceAvailable(tx, m1)
      PROVE  SameMoney(UpdateBalances(tx, m1), UpdateBalances(tx, m2))
  <2> DEFINE n == Value(m1, tx.source) - tx.amount
             Paid(m) == Credit(Credit(m, tx.dest, tx.amount), tx.change, n)
  <2>1. n \in Nat
    BY <1>2, <1>4 DEF Value, IsMap
  <2>2. n = m1[tx.source] - tx.amount /\ n = m2[tx.source] - tx.amount
    BY <1>1, <1>3, <1>4 DEF BalanceAvailable, Value
  <2>3. /\ UpdateBalances(tx, m1) = Without(Paid(m1), tx.source)
        /\ UpdateBalances(tx, m2) = Without(Paid(m2), tx.source)
    BY <2>2 DEF UpdateBalances, Without
  <2> HIDE DEF n
  <2>4. SameMoney(Credit(m1, tx.dest, tx.amount), Credit(m2, tx.dest, tx.amount))
        /\ IsMap(Credit(m1, tx.dest, tx.amount))
        /\ IsMap(Credit(m2, tx.dest, tx.amount))
    BY CreditSame, CreditValue
  <2>5. SameMoney(Paid(m1), Paid(m2))
    BY <2>1, <2>4, CreditSame
  <2>6. ASSUME NEW m, NEW a
        PROVE  Value(Without(m, tx.source), a) =
                  IF a = tx.source THEN 0 ELSE Value(m, a)
    BY DEF Without, Restrict, Value
  <2> HIDE DEF Paid
  <2>7. QED
    BY <2>3, <2>5, <2>6 DEF SameMoney
<1>5. QED
  BY <1>3, <1>4

\* The loops of validate on the same money give the same verdict, and leave the
\* same money if it is good.
LEMMA RunsSame ==
    ASSUME NEW n \in Nat, NEW txs,
           NEW A, Readable(txs, n, A), NEW b \in Accs(A),
           NEW D, Readable(txs, n, D), NEW c \in Accs(D),
           b.ok, c.ok, SameMoney(b.balances, c.balances),
           NEW e, NEW g \in [0 .. n -> Accs(A)], IsRun(g, n, txs, b, e),
           NEW f, NEW h \in [0 .. n -> Accs(D)], IsRun(h, n, txs, c, f)
    PROVE  /\ e.ok <=> f.ok
           /\ e.ok => SameMoney(e.balances, f.balances)
<1> DEFINE Same(i) == /\ g[i].ok <=> h[i].ok
                      /\ g[i].ok => SameMoney(g[i].balances, h[i].balances)
           S == {i \in 0 .. n : Same(i)}
<1>1. 0 \in S
  <2>1. Same(0) /\ 0 \in 0 .. n
    BY DEF IsRun
  <2>2. QED
    BY <2>1
<1>2. ASSUME NEW i \in 0 .. n - 1, i \in S PROVE i + 1 \in S
  <2> DEFINE tx == txs[i + 1]
  <2>1. i \in 0 .. n /\ i + 1 \in 0 .. n /\ i + 1 \in 1 .. n /\ (i + 1) - 1 = i
    OBVIOUS
  <2>2. Same(i)
    BY <1>2
  <2>3. g[i] \in Accs(A) /\ h[i] \in Accs(D)
    BY <2>1
  <2>4. tx.amount \in Int /\ {tx.dest, tx.change} \subseteq A /\ {tx.dest, tx.change} \subseteq D
    BY <2>1 DEF Readable
  <2>5. g[i + 1] = ApplyTxn(g[i], tx) /\ h[i + 1] = ApplyTxn(h[i], tx)
    BY <2>1 DEF IsRun
  <2> HIDE DEF tx
  <2>6. /\ g[i + 1].ok <=> g[i].ok /\ tx.amount > 0 /\ tx.signed
                             /\ BalanceAvailable(tx, g[i].balances)
        /\ g[i + 1].ok => g[i + 1].balances = UpdateBalances(tx, g[i].balances)
    BY <2>3, <2>4, <2>5, ApplyTxnStep
  <2>7. /\ h[i + 1].ok <=> h[i].ok /\ tx.amount > 0 /\ tx.signed
                             /\ BalanceAvailable(tx, h[i].balances)
        /\ h[i + 1].ok => h[i + 1].balances = UpdateBalances(tx, h[i].balances)
    BY <2>3, <2>4, <2>5, ApplyTxnStep
  <2>8. IsMap(g[i].balances) /\ IsMap(h[i].balances)
    BY <2>3, MapsAreMaps DEF Accs
  <2>9. Same(i + 1)
    <3>1. CASE g[i].ok /\ tx.amount > 0
      <4>1. tx.amount \in Nat \ {0}
        BY <2>4, <3>1
      <4>2. SameMoney(g[i].balances, h[i].balances) /\ h[i].ok
        BY <2>2, <3>1
      <4>3. /\ BalanceAvailable(tx, g[i].balances) <=> BalanceAvailable(tx, h[i].balances)
            /\ BalanceAvailable(tx, g[i].balances) =>
                  SameMoney(UpdateBalances(tx, g[i].balances),
                            UpdateBalances(tx, h[i].balances))
        BY <2>8, <4>1, <4>2, UpdateSame
      <4>4. g[i + 1].ok <=> h[i + 1].ok
        BY <2>6, <2>7, <3>1, <4>2, <4>3
      <4>5. ASSUME g[i + 1].ok
            PROVE  SameMoney(g[i + 1].balances, h[i + 1].balances)
        BY <2>6, <2>7, <4>3, <4>4, <4>5
      <4>6. QED
        BY <4>4, <4>5
    <3>2. CASE ~(g[i].ok /\ tx.amount > 0)
      <4>1. ~g[i + 1].ok /\ ~h[i + 1].ok
        BY <2>2, <2>6, <2>7, <3>2
      <4>2. QED
        BY <4>1
    <3>3. QED
      BY <3>1, <3>2
  <2> HIDE DEF Same
  <2>10. QED
    BY <2>1, <2>9
<1> HIDE DEF S
<1>3. 0 .. n \subseteq S
  BY <1>1, <1>2, PrefixInduction
<1>4. n \in 0 .. n
  OBVIOUS
<1>5. QED
  BY <1>3, <1>4 DEF S, IsRun

\* validate after predecessors with the same money: the same verdict, and for
\* a valid block the same money again.
LEMMA ValidateSame ==
    ASSUME NEW blk, IsBlock(blk), NEW m1, IsMap(m1), NEW m2, IsMap(m2),
           SameMoney(m1, m2)
    PROVE  /\ Validate(blk, m1).ok <=> Validate(blk, m2).ok
           /\ Validate(blk, m1).ok =>
                 SameMoney(Validate(blk, m1).balances, Validate(blk, m2).balances)
           /\ Validate(blk, m1).ok => IsMap(Validate(blk, m1).balances)
<1> DEFINE b == [ok |-> TRUE, balances |-> m1]
           c == [ok |-> TRUE, balances |-> m2]
           e == FoldLeft(ApplyTxn, b, blk.txs)
           f == FoldLeft(ApplyTxn, c, blk.txs)
<1> HIDE DEF e, f
<1>1. PICK A : \E n \in Nat :
                  /\ Readable(blk.txs, n, A)
                  /\ b \in Accs(A)
                  /\ \E g \in [0 .. n -> Accs(A)] : IsRun(g, n, blk.txs, b, e)
  BY ValidateRun DEF e
<1>2. PICK n \in Nat :
              /\ Readable(blk.txs, n, A)
              /\ b \in Accs(A)
              /\ \E g \in [0 .. n -> Accs(A)] : IsRun(g, n, blk.txs, b, e)
  BY <1>1
<1>3. PICK g \in [0 .. n -> Accs(A)] : IsRun(g, n, blk.txs, b, e)
  BY <1>2
<1>4. PICK D : \E k \in Nat :
                  /\ Readable(blk.txs, k, D)
                  /\ c \in Accs(D)
                  /\ \E h \in [0 .. k -> Accs(D)] : IsRun(h, k, blk.txs, c, f)
  BY ValidateRun DEF f
<1>5. PICK k \in Nat :
              /\ Readable(blk.txs, k, D)
              /\ c \in Accs(D)
              /\ \E h \in [0 .. k -> Accs(D)] : IsRun(h, k, blk.txs, c, f)
  BY <1>4
<1>6. k = n
  <2>1. 1 .. k = 1 .. n
    BY <1>2, <1>5 DEF Readable
  <2>2. QED
    BY <2>1
<1>7. PICK h \in [0 .. n -> Accs(D)] : IsRun(h, n, blk.txs, c, f)
  BY <1>5, <1>6
<1>8. Readable(blk.txs, n, D)
  BY <1>5, <1>6
<1>9. b.ok /\ c.ok /\ SameMoney(b.balances, c.balances) /\ b \in Accs(A) /\ c \in Accs(D)
  BY <1>2, <1>5
<1> HIDE DEF b, c
<1>10. (e.ok <=> f.ok) /\ (e.ok => SameMoney(e.balances, f.balances))
  BY <1>2, <1>3, <1>7, <1>8, <1>9, RunsSame
<1>11. IsMap(e.balances) /\ IsMap(f.balances)
  <2>1. n \in 0 .. n
    OBVIOUS
  <2>2. e \in Accs(A) /\ f \in Accs(D)
    BY <1>3, <1>7, <2>1 DEF IsRun
  <2>3. QED
    BY <2>2, MapsAreMaps DEF Accs
<1>12. /\ Validate(blk, m1) = IF e.ok THEN [ok |-> blk.hashed,
                balances |-> Credit(e.balances, blk.reward, BLOCK_REWARD)] ELSE e
       /\ Validate(blk, m2) = IF f.ok THEN [ok |-> blk.hashed,
                balances |-> Credit(f.balances, blk.reward, BLOCK_REWARD)] ELSE f
  BY DEF Validate, b, c, e, f
<1>13. BLOCK_REWARD \in Nat
  BY LedgerAssumption
<1>14. CASE e.ok
  <2>1. SameMoney(Credit(e.balances, blk.reward, BLOCK_REWARD),
                  Credit(f.balances, blk.reward, BLOCK_REWARD))
        /\ IsMap(Credit(e.balances, blk.reward, BLOCK_REWARD))
    BY <1>10, <1>11, <1>13, <1>14, CreditSame, CreditValue
  <2>2. QED
    BY <1>10, <1>12, <1>14, <2>1
<1>15. CASE ~e.ok
  BY <1>10, <1>12, <1>15
<1>16. QED
  BY <1>14, <1>15

-----------------------------------------------------------------------------
(* The blocks of a file in a row.                                           *)

\* Where the blocks of the sequences are in their concatenation.
IsCut(off, n, seqs) ==
    /\ off \in [0 .. n -> Nat]
    /\ off[0] = 0
    /\ \A c \in 1 .. n : off[c] = off[c - 1] + Len(seqs[c])

\* s is the concatenation, cut there.
IsJoined(off, n, seqs, s) ==
    /\ IsCut(off, n, seqs)
    /\ Len(s) = off[n]
    /\ \A c \in 1 .. n : \A k \in 1 .. Len(seqs[c]) :
          off[c - 1] + k \in 1 .. off[n] /\ s[off[c - 1] + k] = seqs[c][k]

\* Every concatenation is cut so.
LEMMA FlattenCut ==
    ASSUME NEW S, NEW n \in Nat, NEW seqs \in [1 .. n -> Seq(S)]
    PROVE  /\ FlattenSeq(seqs) \in Seq(S)
           /\ \E off : IsJoined(off, n, seqs, FlattenSeq(seqs))
<1>1. PICK h \in [0 .. n -> Seq(S)] :
              /\ h[0] = <<>>
              /\ \A i \in 1 .. n : h[i] = h[i - 1] \o seqs[i]
              /\ FlattenSeq(seqs) = h[n]
  BY FlattenSteps
<1> DEFINE off == [i \in 0 .. n |-> Len(h[i])]
<1>2. \A i \in 1 .. n : i - 1 \in 0 .. n /\ i \in 0 .. n
  OBVIOUS
<1>3. \A i \in 0 .. n : off[i] = Len(h[i]) /\ off[i] \in Nat /\ h[i] \in Seq(S)
  OBVIOUS
<1>4. ASSUME NEW c \in 1 .. n
      PROVE  /\ off[c] = off[c - 1] + Len(seqs[c])
             /\ \A j \in 1 .. off[c - 1] : h[c][j] = h[c - 1][j]
             /\ \A k \in 1 .. Len(seqs[c]) : h[c][off[c - 1] + k] = seqs[c][k]
  <2>1. h[c - 1] \in Seq(S) /\ seqs[c] \in Seq(S) /\ h[c] = h[c - 1] \o seqs[c]
    BY <1>1, <1>2
  <2>2. off[c - 1] = Len(h[c - 1]) /\ off[c] = Len(h[c])
    BY <1>2, <1>3
  <2>3. PICK p \in Seq(S), q \in Seq(S) : p = h[c - 1] /\ q = seqs[c]
    BY <2>1
  <2>4. /\ Len(p \o q) = Len(p) + Len(q)
        /\ \A j \in 1 .. Len(p) : (p \o q)[j] = p[j]
        /\ \A k \in 1 .. Len(q) : (p \o q)[Len(p) + k] = q[k]
    BY <2>3, ConcatSeq
  <2>5. h[c] = p \o q /\ off[c - 1] = Len(p) /\ off[c] = Len(p \o q)
    BY <2>1, <2>2, <2>3
  <2> HIDE DEF off
  <2>6. QED
    BY <2>3, <2>4, <2>5
<1> HIDE DEF off
<1>5. IsCut(off, n, seqs)
  <2>1. off \in [0 .. n -> Nat]
    BY <1>3 DEF off
  <2>2. off[0] = 0
    BY <1>1, <1>3
  <2>3. QED
    BY <1>4, <2>1, <2>2 DEF IsCut
<1> DEFINE Kept(d, c) == \A k \in 1 .. Len(seqs[c]) :
                            /\ off[c - 1] + k \in 1 .. off[d]
                            /\ h[d][off[c - 1] + k] = seqs[c][k]
           T == {d \in 0 .. n : \A c \in 1 .. d : Kept(d, c)}
<1>6. 0 \in T
  OBVIOUS
<1>7. ASSUME NEW d \in 0 .. n - 1, d \in T PROVE d + 1 \in T
  <2>1. d + 1 \in 1 .. n /\ (d + 1) - 1 = d /\ d \in 0 .. n /\ d + 1 \in 0 .. n
    OBVIOUS
  <2>2. /\ off[d + 1] = off[d] + Len(seqs[d + 1])
        /\ \A j \in 1 .. off[d] : h[d + 1][j] = h[d][j]
        /\ \A k \in 1 .. Len(seqs[d + 1]) : h[d + 1][off[d] + k] = seqs[d + 1][k]
    BY <1>4, <2>1
  <2>3. off[d] \in Nat /\ off[d + 1] \in Nat /\ Len(seqs[d + 1]) \in Nat
    BY <1>3, <2>1
  <2>4. Kept(d + 1, d + 1)
    <3>1. PICK a \in Nat, b \in Nat, m \in Nat :
                  a = off[d] /\ b = off[d + 1] /\ m = Len(seqs[d + 1])
      BY <2>3
    <3>2. b = a + m
      BY <2>2, <3>1
    <3>3. \A k \in 1 .. m : a + k \in 1 .. b
      BY <3>2
    <3>4. QED
      BY <2>1, <2>2, <3>1, <3>3
  <2>5. ASSUME NEW c \in 1 .. d PROVE Kept(d + 1, c)
    <3>1. Kept(d, c)
      BY <1>7
    <3>2. \A j \in 1 .. off[d] : j \in 1 .. off[d + 1] /\ h[d + 1][j] = h[d][j]
      BY <2>2, <2>3
    <3>3. QED
      BY <3>1, <3>2
  <2>6. \A c \in 1 .. d + 1 : c \in 1 .. d \/ c = d + 1
    BY <2>1
  <2> HIDE DEF Kept
  <2>7. QED
    BY <2>1, <2>4, <2>5, <2>6
<1> HIDE DEF T
<1>8. 0 .. n \subseteq T
  BY <1>6, <1>7, PrefixInduction
<1>9. \A c \in 1 .. n : Kept(n, c)
  <2>1. n \in 0 .. n
    OBVIOUS
  <2>2. QED
    BY <1>8, <2>1 DEF T
<1>10. /\ FlattenSeq(seqs) = h[n] /\ h[n] \in Seq(S) /\ Len(h[n]) = off[n]
  <2>1. n \in 0 .. n
    OBVIOUS
  <2>2. QED
    BY <1>1, <1>3, <2>1
<1>11. IsJoined(off, n, seqs, FlattenSeq(seqs))
  BY <1>5, <1>9, <1>10 DEF IsJoined
<1>12. QED
  BY <1>10, <1>11

\* Nothing is left out if everything can be parsed.
KeptOf(s, bad) == [j \in DOMAIN s |-> IF s[j] = bad THEN <<>> ELSE <<s[j]>>]

\* Nothing is dropped if all is kept.
LEMMA AllKept ==
    ASSUME NEW S, NEW s \in Seq(S), NEW bad, \A j \in DOMAIN s : s[j] # bad
    PROVE  FlattenSeq(KeptOf(s, bad)) = s
<1> USE DEF KeptOf
<1> DEFINE n == Len(s)
           seqs == KeptOf(s, bad)
<1>1. n \in Nat /\ DOMAIN s = 1 .. n /\ \A j \in 1 .. n : s[j] \in S
  OBVIOUS
<1>2. \A j \in 1 .. n : seqs[j] = <<s[j]>>
  BY <1>1
<1>3. seqs \in [1 .. n -> Seq(S)]
  <2>1. \A j \in 1 .. n : <<s[j]>> \in Seq(S)
    BY <1>1
  <2>2. QED
    BY <1>1, <2>1
<1> HIDE DEF n, seqs
<1>4. PICK h \in [0 .. n -> Seq(S)] :
              /\ h[0] = <<>>
              /\ \A i \in 1 .. n : h[i] = h[i - 1] \o seqs[i]
              /\ FlattenSeq(seqs) = h[n]
  BY <1>1, <1>3, FlattenSteps
<1> DEFINE T == {i \in 0 .. n : Len(h[i]) = i /\ \A j \in 1 .. i : h[i][j] = s[j]}
<1>5. 0 \in T
  BY <1>1, <1>4
<1>6. ASSUME NEW i \in 0 .. n - 1, i \in T PROVE i + 1 \in T
  <2>1. i + 1 \in 1 .. n /\ (i + 1) - 1 = i /\ i \in 0 .. n /\ i + 1 \in 0 .. n /\ i \in Nat
    BY <1>1
  <2>2. h[i + 1] = h[i] \o <<s[i + 1]>> /\ h[i] \in Seq(S) /\ s[i + 1] \in S
    BY <1>1, <1>2, <1>4, <2>1
  <2>3. Len(h[i]) = i /\ \A j \in 1 .. i : h[i][j] = s[j]
    BY <1>6
  <2>4. <<s[i + 1]>> \in Seq(S) /\ Len(<<s[i + 1]>>) = 1 /\ <<s[i + 1]>>[1] = s[i + 1]
    BY <2>2
  <2>5. /\ Len(h[i + 1]) = i + 1
        /\ \A j \in 1 .. i : h[i + 1][j] = h[i][j]
        /\ h[i + 1][i + 1] = s[i + 1]
    <3>1. PICK one : one = <<s[i + 1]>>
      OBVIOUS
    <3>2. one \in Seq(S) /\ Len(one) = 1 /\ one[1] = s[i + 1] /\ 1 \in 1 .. 1
      BY <2>4, <3>1
    <3>3. PICK k : k = h[i]
      OBVIOUS
    <3>4. k \in Seq(S) /\ Len(k) = i
      BY <2>2, <2>3, <3>3
    <3>5. /\ Len(k \o one) = Len(k) + Len(one)
          /\ \A j \in 1 .. Len(k) : (k \o one)[j] = k[j]
          /\ \A j \in 1 .. Len(one) : (k \o one)[Len(k) + j] = one[j]
      BY <3>2, <3>4, ConcatSeq
    <3>6. (k \o one)[i + 1] = one[1]
      BY <3>2, <3>4, <3>5
    <3>7. QED
      BY <2>2, <3>1, <3>2, <3>3, <3>4, <3>5, <3>6
  <2>6. \A j \in 1 .. i + 1 : j \in 1 .. i \/ j = i + 1
    BY <2>1
  <2>7. QED
    BY <2>1, <2>3, <2>5, <2>6
<1> HIDE DEF T
<1>7. 0 .. n \subseteq T
  BY <1>1, <1>5, <1>6, PrefixInduction
<1>8. Len(h[n]) = n /\ (\A j \in 1 .. n : h[n][j] = s[j]) /\ h[n] \in Seq(S)
  <2>1. n \in 0 .. n
    BY <1>1
  <2>2. QED
    BY <1>4, <1>7, <2>1 DEF T
<1>9. h[n] = s
  BY <1>1, <1>8
<1>10. QED
  BY <1>4, <1>9 DEF seqs

=============================================================================
