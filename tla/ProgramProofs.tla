---------------------------- MODULE ProgramProofs ----------------------------
(***************************************************************************)
(* Proofs about FindMax for every array, every number of elements and      *)
(* every number of threads, more threads than elements included; and about *)
(* Programs for every number of threads and of transactions: no update     *)
(* that is made under the mutex is lost, none that is made without it is   *)
(* made up, and what the passes insert reports locks and calls in order.   *)
(***************************************************************************)
EXTENDS FindMax, Programs, LedgerProofs, SequenceTheorems


\* Where the share of thread t begins.
First(t) ==
    IF t = 0 THEN 0
    ELSE (num_elements % num_threads) + t * (num_elements \div num_threads)

\* v at place i of the len elements from start on is their first maximum.
IsFirstMax(start, len, v, i) ==
    /\ i \in 0 .. len - 1
    /\ v = a[start + i]
    /\ \A j \in 0 .. len - 1 :
          /\ a[start + j] <= v
          /\ j < i => a[start + j] < v

\* main hands out the shares one after the other.
SharesOK ==
    /\ mainPc = "create" => ctr < num_threads /\ th_pos = First(ctr)
    /\ mainPc = "join" => ctr < num_threads
    /\ mainPc # "aborted"
    /\ \A t \in Threads : pc[t] # "none" =>
          /\ t < num_threads
          /\ size[t] = Share(t)
          /\ start_index[t] = First(t)

\* A thread knows the first maximum of what it has seen; one without a share
\* has seen the place behind the array.
SearchedOK ==
    \A t \in Threads : pc[t] \in {"scan", "done"} =>
        /\ pos[t] >= 1
        /\ IF Share(t) = 0 THEN max_index[t] = 0
           ELSE /\ pos[t] <= Share(t)
                /\ IsFirstMax(First(t), pos[t], pmax[t], max_index[t])
        /\ pc[t] = "done" => pos[t] >= Share(t)

\* v at place i is the first maximum of the first m elements, or i is the place
\* behind the array, which only a thread without a share can have reported.
Found(m, v, i) ==
    \/ IsFirstMax(0, m, v, i)
    \/ i = num_elements /\ num_threads > num_elements

MergedOK ==
    /\ mainPc = "join" /\ ctr > 0 => Found(First(ctr), best, index)
    /\ mainPc = "print" => Found(num_elements, best, index)

SerialOK ==
    /\ mainPc = "serial" =>
          sctr \in 1 .. num_elements /\ IsFirstMax(0, sctr, best, sindex)
    /\ mainPc = "printed" => IsFirstMax(0, num_elements, best, ctr)
    /\ mainPc \in {"serial", "printed"} =>
          Found(num_elements, parallel.max, parallel.index)

\* The inductive invariant.
IInv == TypeOK /\ SharesOK /\ SearchedOK /\ MergedOK /\ SerialOK

-----------------------------------------------------------------------------
(* The operators.                                                           *)

LEMMA Division ==
    ASSUME NEW n \in Nat, NEW m \in Nat \ {0}
    PROVE  /\ n \div m \in Nat
           /\ n % m \in 0 .. m - 1
           /\ n = m * (n \div m) + (n % m)
<1>1. n \div m \in Nat
  OBVIOUS
<1>2. n % m \in 0 .. m - 1
  OBVIOUS
<1>3. n = m * (n \div m) + (n % m)
  OBVIOUS
<1>4. QED
  BY <1>1, <1>2, <1>3

\* num_elements is the length of the array.
LEMMA Elements ==
    TypeOK => /\ num_elements \in 1 .. MaxElements
              /\ a \in [0 .. num_elements - 1 -> Values]
              /\ DOMAIN a = 0 .. num_elements - 1
<1> SUFFICES ASSUME TypeOK
             PROVE  /\ num_elements \in 1 .. MaxElements
                    /\ a \in [0 .. num_elements - 1 -> Values]
                    /\ DOMAIN a = 0 .. num_elements - 1
  OBVIOUS
<1>1. PICK n \in 1 .. MaxElements : a \in [0 .. n - 1 -> Values]
  BY DEF TypeOK
<1>2. \E m \in 1 .. MaxElements : DOMAIN a = 0 .. m - 1
  BY <1>1
<1>3. num_elements \in 1 .. MaxElements /\ DOMAIN a = 0 .. num_elements - 1
  BY <1>2 DEF num_elements
<1>4. QED
  BY <1>1, <1>3

\* The shares follow each other, lie in the array and end with it; only with
\* more threads than elements is one of them empty.
LEMMA Shares ==
    ASSUME TypeOK
    PROVE  /\ First(0) = 0
           /\ \A t \in 0 .. num_threads - 1 :
                 /\ First(t) \in Nat
                 /\ Share(t) \in Nat
                 /\ First(t) + Share(t) <= num_elements
                 /\ t + 1 < num_threads => First(t + 1) = First(t) + Share(t)
                 /\ t + 1 = num_threads => First(t) + Share(t) = num_elements
                 /\ Share(t) = 0 =>
                       t # 0 /\ First(t) = num_elements /\ num_threads > num_elements
                 /\ Share(t) # 0 /\ t # 0 => num_threads <= num_elements
<1> DEFINE q == num_elements \div num_threads
           r == num_elements % num_threads
<1>1. /\ num_elements \in Nat \ {0} /\ num_threads \in Nat \ {0}
      /\ q \in Nat /\ r \in 0 .. num_threads - 1
      /\ num_elements = num_threads * q + r
  <2>1. num_elements \in Nat \ {0} /\ num_threads \in Nat \ {0}
    BY Elements, FindMaxAssumption DEF TypeOK
  <2>2. QED
    BY <2>1, Division
<1>2. First(0) = 0
  BY DEF First
<1>3. ASSUME NEW t \in 0 .. num_threads - 1
      PROVE  /\ First(t) \in Nat
             /\ Share(t) \in Nat
             /\ First(t) + Share(t) <= num_elements
             /\ t + 1 < num_threads => First(t + 1) = First(t) + Share(t)
             /\ t + 1 = num_threads => First(t) + Share(t) = num_elements
             /\ Share(t) = 0 =>
                   t # 0 /\ First(t) = num_elements /\ num_threads > num_elements
             /\ Share(t) # 0 /\ t # 0 => num_threads <= num_elements
  <2>1. /\ First(t) = IF t = 0 THEN 0 ELSE r + t * q
        /\ First(t + 1) = r + (t + 1) * q
        /\ Share(t) = q + (IF t = 0 THEN r ELSE 0)
    <3>1. First(t + 1) = r + (t + 1) * q
      BY <1>1 DEF First
    <3>2. QED
      BY <3>1 DEF First, Share
  <2> HIDE DEF q, r
  <2>2. (t + 1) * q = t * q + q /\ t * q \in Nat
    BY <1>1
  <2>3. (t + 1) * q <= num_threads * q
    BY <1>1
  <2>4. t + 1 = num_threads => (t + 1) * q = num_threads * q
    OBVIOUS
  <2>5. t = 0 => t * q = 0
    BY <1>1
  <2>6. CASE t = 0
    BY <1>1, <2>1, <2>2, <2>3, <2>4, <2>5, <2>6
  <2>7. CASE t # 0
    <3>1. q = 0 => t * q = 0 /\ num_threads * q = 0
      BY <1>1
    <3>2. Share(t) = q /\ First(t) = r + t * q
      BY <1>1, <2>1, <2>7
    <3>3. q # 0 => num_threads <= num_threads * q
      BY <1>1
    <3>4. QED
      BY <1>1, <2>1, <2>2, <2>3, <2>4, <2>7, <3>1, <3>2, <3>3
  <2>8. QED
    BY <2>6, <2>7
<1>4. QED
  BY <1>2, <1>3

\* One more element.
LEMMA NextMax ==
    ASSUME TypeOK,
           NEW start \in Nat, NEW len \in Nat \ {0}, NEW v, NEW i,
           start + len < num_elements,
           IsFirstMax(start, len, v, i)
    PROVE  IF a[start + len] > v
           THEN IsFirstMax(start, len + 1, a[start + len], len)
           ELSE IsFirstMax(start, len + 1, v, i)
<1>1. ASSUME NEW j \in 0 .. len PROVE a[start + j] \in Int
  <2>1. num_elements \in Nat
    BY Elements
  <2>2. start + j \in 0 .. num_elements - 1
    BY <2>1
  <2>3. QED
    BY <2>2, Elements, FindMaxAssumption
<1>2. \A j \in 0 .. (len + 1) - 1 : j \in 0 .. len - 1 \/ j = len
  OBVIOUS
<1>3. i \in 0 .. (len + 1) - 1 /\ len \in 0 .. (len + 1) - 1
  BY DEF IsFirstMax
<1>4. CASE a[start + len] > v
  <2>1. v \in Int /\ a[start + len] \in Int
    BY <1>1 DEF IsFirstMax
  <2>2. \A j \in 0 .. len - 1 : a[start + j] < a[start + len]
    BY <1>1, <1>4, <2>1 DEF IsFirstMax
  <2>3. \A j \in 0 .. (len + 1) - 1 :
            /\ a[start + j] <= a[start + len]
            /\ j < len => a[start + j] < a[start + len]
    BY <1>1, <1>2, <2>1, <2>2
  <2>4. QED
    BY <1>3, <1>4, <2>3 DEF IsFirstMax
<1>5. CASE ~(a[start + len] > v)
  BY <1>1, <1>2, <1>3, <1>5 DEF IsFirstMax
<1>6. QED
  BY <1>4, <1>5

\* The first maximum of a share is merged with that of the elements before it.
LEMMA MergeMax ==
    ASSUME TypeOK,
           NEW m \in Nat, NEW len \in Nat \ {0}, m + len <= num_elements,
           NEW v, NEW i, IsFirstMax(0, m, v, i),
           NEW w, NEW k, IsFirstMax(m, len, w, k)
    PROVE  IF v < w THEN IsFirstMax(0, m + len, w, k + m)
                    ELSE IsFirstMax(0, m + len, v, i)
<1>1. \A j \in 0 .. num_elements - 1 : a[j] \in Int
  BY Elements, FindMaxAssumption
<1>2. /\ i \in 0 .. m - 1 /\ v = a[i]
      /\ \A j \in 0 .. m - 1 : a[j] <= v /\ (j < i => a[j] < v)
  BY DEF IsFirstMax
<1>3. /\ k \in 0 .. len - 1 /\ w = a[m + k]
      /\ \A j \in 0 .. len - 1 : a[m + j] <= w /\ (j < k => a[m + j] < w)
  BY DEF IsFirstMax
<1>4. v \in Int /\ w \in Int
  <2>1. num_elements \in Nat
    BY Elements
  <2>2. i \in 0 .. num_elements - 1 /\ m + k \in 0 .. num_elements - 1
    BY <1>2, <1>3, <2>1
  <2>3. QED
    BY <1>1, <1>2, <1>3, <2>2
<1>5. ASSUME NEW j \in 0 .. (m + len) - 1
      PROVE  /\ a[j] \in Int
             /\ j < m => a[j] <= v /\ (j < i => a[j] < v)
             /\ j >= m => a[j] <= w /\ (j < k + m => a[j] < w)
  <2>1. num_elements \in Nat
    BY Elements
  <2>2. a[j] \in Int
    BY <1>1, <2>1
  <2>3. j < m => a[j] <= v /\ (j < i => a[j] < v)
    BY <1>2
  <2>4. ASSUME j >= m PROVE a[j] <= w /\ (j < k + m => a[j] < w)
    <3>1. j - m \in 0 .. len - 1 /\ m + (j - m) = j
      BY <2>4
    <3>2. QED
      BY <1>3, <3>1
  <2>5. QED
    BY <2>2, <2>3, <2>4
<1>6. CASE v < w
  <2>1. k + m \in 0 .. (m + len) - 1 /\ w = a[0 + (k + m)]
    BY <1>3
  <2>2. \A j \in 0 .. (m + len) - 1 : a[0 + j] <= w /\ (j < k + m => a[0 + j] < w)
    BY <1>4, <1>5, <1>6
  <2>3. QED
    BY <1>6, <2>1, <2>2 DEF IsFirstMax
<1>7. CASE ~(v < w)
  <2>1. i \in 0 .. (m + len) - 1 /\ v = a[0 + i]
    BY <1>2
  <2>2. \A j \in 0 .. (m + len) - 1 : a[0 + j] <= v /\ (j < i => a[0 + j] < v)
    BY <1>2, <1>4, <1>5, <1>7
  <2>3. QED
    BY <1>7, <2>1, <2>2 DEF IsFirstMax
<1>8. QED
  BY <1>6, <1>7

\* There is one first maximum.
LEMMA OneMax ==
    ASSUME TypeOK, NEW v, NEW i, NEW w, NEW k,
           IsFirstMax(0, num_elements, v, i), IsFirstMax(0, num_elements, w, k)
    PROVE  v = w /\ i = k
<1>1. ASSUME NEW j \in 0 .. num_elements - 1 PROVE a[0 + j] \in Int
  <2>1. 0 + j = j
    OBVIOUS
  <2>2. QED
    BY <2>1, Elements, FindMaxAssumption
<1>2. num_elements \in Nat
  BY Elements
<1>3. v \in Int /\ w \in Int /\ v <= w /\ w <= v
  BY <1>1 DEF IsFirstMax
<1>4. ~(i < k) /\ ~(k < i)
  BY <1>3 DEF IsFirstMax
<1>5. QED
  BY <1>2, <1>3, <1>4 DEF IsFirstMax

-----------------------------------------------------------------------------
(* The invariant.                                                           *)

LEMMA InitInv == Init => IInv
<1> SUFFICES ASSUME Init PROVE IInv
  OBVIOUS
<1> USE FindMaxAssumption
<1>1. PICK n \in 1 .. MaxElements : a \in [0 .. n - 1 -> Values]
  BY DEF Init
<1>2. 0 \in DOMAIN a
  BY <1>1
<1>3. TypeOK
  BY <1>1, <1>2 DEF Init, TypeOK, Threads, Zeros
<1>4. SharesOK
  BY <1>3, Shares DEF Init, SharesOK, TypeOK
<1>5. SearchedOK /\ MergedOK /\ SerialOK
  BY DEF Init, SearchedOK, MergedOK, SerialOK
<1>6. QED
  BY <1>3, <1>4, <1>5 DEF IInv

\* The array and its division are fixed.
LEMMA Frozen == [Next]_vars => UNCHANGED <<a, num_threads>>
BY DEF Next, vars, Main, CreateThread, CreateFails, JoinThread, PrintParallel,
       ScanSerial, PrintSerial, FindMaxThread, Start, Scan, Return, Gone

\* What a thread reads and reports lies in the array, or is the place behind it.
LEMMA InArray ==
    ASSUME IInv, NEW t \in Threads, pc[t] # "none"
    PROVE  /\ t \in 0 .. num_threads - 1
           /\ size[t] \in Nat /\ start_index[t] \in Nat
           /\ start_index[t] + size[t] <= num_elements
           /\ pc[t] = "scan" /\ pos[t] < size[t] =>
                 /\ pos[t] \in Nat \ {0}
                 /\ start_index[t] + pos[t] \in 0 .. num_elements - 1
                 /\ a[start_index[t] + pos[t]] \in Values
           /\ pc[t] = "done" => max_index[t] + start_index[t] \in 0 .. num_elements
<1>1. TypeOK /\ SharesOK /\ SearchedOK
  BY DEF IInv
<1>2. t \in 0 .. num_threads - 1 /\ size[t] = Share(t) /\ start_index[t] = First(t)
  BY <1>1, FindMaxAssumption DEF SharesOK, Threads, TypeOK
<1>3. /\ num_elements \in Nat \ {0} /\ a \in [0 .. num_elements - 1 -> Values]
      /\ pos[t] \in Nat /\ max_index[t] \in Nat
  BY <1>1, Elements, FindMaxAssumption DEF TypeOK
<1>4. /\ First(t) \in Nat /\ Share(t) \in Nat
      /\ First(t) + Share(t) <= num_elements
  BY <1>1, <1>2, Shares
<1>5. ASSUME pc[t] = "scan", pos[t] < size[t]
      PROVE  /\ pos[t] \in Nat \ {0}
             /\ start_index[t] + pos[t] \in 0 .. num_elements - 1
             /\ a[start_index[t] + pos[t]] \in Values
  <2>1. pos[t] >= 1
    BY <1>1, <1>5 DEF SearchedOK
  <2>2. start_index[t] + pos[t] \in 0 .. num_elements - 1
    BY <1>2, <1>3, <1>4, <1>5
  <2>3. QED
    BY <1>3, <2>1, <2>2
<1>6. ASSUME pc[t] = "done" PROVE max_index[t] + start_index[t] \in 0 .. num_elements
  <2>1. CASE Share(t) = 0
    BY <1>1, <1>2, <1>3, <1>4, <1>6, <2>1 DEF SearchedOK
  <2>2. CASE Share(t) # 0
    <3>1. pos[t] <= Share(t) /\ max_index[t] \in 0 .. pos[t] - 1
      BY <1>1, <1>6, <2>2 DEF SearchedOK, IsFirstMax
    <3>2. QED
      BY <1>2, <1>3, <1>4, <3>1
  <2>3. QED
    BY <2>1, <2>2
<1>7. QED
  BY <1>2, <1>4, <1>5, <1>6

\* The types, action by action.
LEMMA TypeStep == IInv /\ [Next]_vars => TypeOK'
<1> SUFFICES ASSUME IInv, [Next]_vars PROVE TypeOK'
  OBVIOUS
<1>0. TypeOK /\ SharesOK
  BY DEF IInv
<1>a. num_elements \in 1 .. MaxElements /\ DOMAIN a = 0 .. num_elements - 1
      /\ a \in [0 .. num_elements - 1 -> Values]
  BY <1>0, Elements
<1>b. DOMAIN a' = DOMAIN a
  BY Frozen
<1> USE FindMaxAssumption
<1>1. CASE CreateThread
  <2>1. /\ ctr \in 0 .. num_threads - 1 /\ num_threads <= MAX_THREADS
        /\ th_pos = First(ctr)
    BY <1>0, <1>1 DEF CreateThread, SharesOK, TypeOK, Threads
  <2>2. /\ Share(ctr) \in Nat /\ th_pos \in Nat
        /\ th_pos + Share(ctr) <= num_elements
    BY <1>0, <2>1, Shares
  <2>3. Share(ctr) \in 0 .. MaxElements /\ th_pos + Share(ctr) \in 0 .. MaxElements
    BY <1>a, <2>2
  <2>4. ctr' \in Threads /\ th_pos' \in 0 .. MaxElements /\ mainPc' # "printed"
        /\ mainPc' \in {"create", "join", "aborted"}
    <3>1. num_threads \in Nat /\ num_threads \in 1 .. MAX_THREADS
      BY <1>0 DEF TypeOK
    <3>2. CASE ctr + 1 < num_threads
      BY <1>1, <2>1, <2>3, <3>1, <3>2 DEF CreateThread, Threads
    <3>3. CASE ~(ctr + 1 < num_threads)
      BY <1>1, <2>1, <2>3, <3>1, <3>3 DEF CreateThread, Threads
    <3>4. QED
      BY <3>2, <3>3
  <2>5. QED
    BY <1>0, <1>1, <2>3, <2>4 DEF CreateThread, TypeOK, serial
<1>2. CASE CreateFails
  BY <1>0, <1>2 DEF CreateFails, TypeOK, serial, param
<1>3. CASE JoinThread
  <2>1. ctr \in Threads /\ num_threads <= MAX_THREADS
    BY <1>0, <1>3 DEF JoinThread, TypeOK
  <2>2. best' \in Values \cup {0}
    BY <1>0, <1>3, <2>1 DEF JoinThread, Merge, TypeOK
  <2>3. index' \in 0 .. MaxElements
    <3>1. max_index[ctr] + start_index[ctr] \in 0 .. MaxElements
      BY <1>3, <1>a, <2>1, InArray DEF JoinThread
    <3>2. max_index[ctr] \in 0 .. MaxElements
      BY <1>0, <2>1 DEF TypeOK
    <3>3. QED
      BY <1>0, <1>3, <3>1, <3>2 DEF JoinThread, Merge, TypeOK
  <2>4. ctr' \in Threads /\ mainPc' \in {"join", "print"}
    <3>1. num_threads \in 1 .. MAX_THREADS
      BY <1>0 DEF TypeOK
    <3>2. CASE ctr + 1 < num_threads
      BY <1>3, <2>1, <3>1, <3>2 DEF JoinThread, Threads
    <3>3. CASE ~(ctr + 1 < num_threads)
      BY <1>3, <2>1, <3>1, <3>3 DEF JoinThread, Threads
    <3>4. QED
      BY <3>2, <3>3
  <2>5. QED
    BY <1>0, <1>3, <2>2, <2>3, <2>4 DEF JoinThread, TypeOK, serial, param
<1>4. CASE PrintParallel
  BY <1>0, <1>4, <1>a DEF PrintParallel, TypeOK, threads, param
<1>5. CASE ScanSerial
  <2>1. sctr \in 0 .. num_elements - 1
    BY <1>0, <1>5, <1>a DEF ScanSerial, TypeOK
  <2>2. sctr' \in 0 .. MaxElements /\ a[sctr] \in Values
    BY <1>5, <1>a, <2>1 DEF ScanSerial
  <2>3. best' \in Values \cup {0} /\ sindex' \in DOMAIN a
    BY <1>0, <1>5, <1>a, <2>1, <2>2 DEF ScanSerial, TypeOK
  <2>4. QED
    BY <1>0, <1>5, <2>2, <2>3 DEF ScanSerial, TypeOK, threads, param
<1>6. CASE PrintSerial
  BY <1>0, <1>6 DEF PrintSerial, TypeOK, threads, param, serial
<1>7. ASSUME NEW t \in Threads, Start(t) PROVE TypeOK'
  <2>1. \A v \in At(start_index[t]) : v \in Values
    <3>1. start_index[t] \in Nat
      BY <1>0, <1>7 DEF TypeOK
    <3>2. QED
      BY <1>a, <3>1 DEF At
  <2>2. pmax' \in [Threads -> Values \cup {0}]
    BY <1>0, <1>7, <2>1 DEF Start, TypeOK
  <2>3. QED
    BY <1>0, <1>7, <2>2 DEF Start, TypeOK, main, serial, param
<1>8. ASSUME NEW t \in Threads, Scan(t) PROVE TypeOK'
  <2>1. /\ start_index[t] + pos[t] \in 0 .. num_elements - 1
        /\ a[start_index[t] + pos[t]] \in Values
        /\ start_index[t] \in Nat /\ pos[t] \in Nat
    BY <1>8, InArray DEF Scan
  <2>2. pos[t] \in 0 .. MaxElements - 1 /\ pos[t] + 1 \in 0 .. MaxElements
    BY <1>a, <2>1
  <2>3. /\ pmax' \in [Threads -> Values \cup {0}]
        /\ max_index' \in [Threads -> 0 .. MaxElements - 1]
    BY <1>0, <1>8, <2>1, <2>2 DEF Scan, TypeOK
  <2>4. pos' \in [Threads -> 0 .. MaxElements]
    BY <1>0, <1>8, <2>2 DEF Scan, TypeOK
  <2>5. QED
    BY <1>0, <1>8, <2>3, <2>4 DEF Scan, TypeOK, main, serial, param
<1>9. ASSUME NEW t \in Threads, Return(t) PROVE TypeOK'
  BY <1>0, <1>9 DEF Return, TypeOK, main, serial, param
<1>10. CASE UNCHANGED vars
  BY <1>0, <1>10 DEF TypeOK, vars, main, serial, param
<1>11. QED
  BY <1>1, <1>2, <1>3, <1>4, <1>5, <1>6, <1>7, <1>8, <1>9, <1>10
  DEF Next, Main, FindMaxThread, Gone

\* The derived operators keep their values too.
LEMMA FrozenShares ==
    ASSUME [Next]_vars
    PROVE  /\ num_elements' = num_elements
           /\ \A t : Share(t)' = Share(t) /\ First(t)' = First(t)
<1>1. a' = a /\ num_threads' = num_threads
  BY Frozen
<1>2. num_elements' = num_elements
  BY <1>1 DEF num_elements
<1>3. ASSUME NEW t PROVE Share(t)' = Share(t) /\ First(t)' = First(t)
  BY <1>1, <1>2 DEF Share, First
<1>4. QED
  BY <1>2, <1>3

\* Each round of the loop adds its share, so the assert holds after the last.
LEMMA SharesStep == IInv /\ [Next]_vars => SharesOK'
<1> SUFFICES ASSUME IInv, [Next]_vars PROVE SharesOK'
  OBVIOUS
<1>0. TypeOK /\ SharesOK
  BY DEF IInv
<1> USE FindMaxAssumption, Frozen, FrozenShares
<1>1. CASE CreateThread
  <2>1. /\ ctr \in 0 .. num_threads - 1 /\ num_threads \in 1 .. MAX_THREADS
        /\ th_pos = First(ctr)
    BY <1>0, <1>1 DEF CreateThread, SharesOK, TypeOK, Threads
  <2>2. /\ ctr + 1 < num_threads => First(ctr + 1) = th_pos + Share(ctr)
        /\ ctr + 1 = num_threads => th_pos + Share(ctr) = num_elements
    BY <1>0, <2>1, Shares
  <2>3. /\ mainPc' = "create" => ctr' < num_threads /\ th_pos' = First(ctr')
        /\ mainPc' = "join" => ctr' < num_threads
        /\ mainPc' # "aborted"
    <3>1. CASE ctr + 1 < num_threads
      BY <1>1, <2>1, <2>2, <3>1 DEF CreateThread
    <3>2. CASE ~(ctr + 1 < num_threads)
      BY <1>1, <2>1, <2>2, <3>2 DEF CreateThread
    <3>3. QED
      BY <3>1, <3>2
  <2>4. ASSUME NEW t \in Threads, pc'[t] # "none"
        PROVE  t < num_threads /\ size'[t] = Share(t) /\ start_index'[t] = First(t)
    <3>1. CASE t = ctr
      BY <1>0, <1>1, <2>1, <3>1 DEF CreateThread, TypeOK
    <3>2. CASE t # ctr
      BY <1>0, <1>1, <2>4, <3>2 DEF CreateThread, TypeOK, SharesOK
    <3>3. QED
      BY <3>1, <3>2
  <2>5. /\ num_threads' = num_threads
        /\ First(ctr)' = First(ctr')
        /\ \A t : Share(t)' = Share(t) /\ First(t)' = First(t)
    BY DEF First
  <2>6. QED
    BY <2>3, <2>4, <2>5 DEF SharesOK
<1>2. CASE UNCHANGED <<ctr, mainPc, th_pos, param>> /\ pc' = pc
  BY <1>0, <1>2 DEF SharesOK, param, First, Share, num_elements
<1>3. CASE /\ mainPc' \notin {"create", "aborted"}
           /\ mainPc' = "join" => ctr' < num_threads
           /\ UNCHANGED <<param, pc>>
  BY <1>0, <1>3 DEF SharesOK, param
<1>4. ASSUME NEW t \in Threads, pc[t] # "none",
             \E to : pc' = [pc EXCEPT ![t] = to], UNCHANGED <<main, param>>
      PROVE  SharesOK'
  <2>1. /\ \A u \in Threads : pc'[u] # "none" => pc[u] # "none"
        /\ UNCHANGED <<ctr, mainPc, th_pos, size, start_index>>
    BY <1>0, <1>4 DEF TypeOK, main, param
  <2>2. num_elements' = num_elements
    BY Frozen DEF num_elements
  <2>3. First(ctr)' = First(ctr)
    BY <2>1, <2>2 DEF First
  <2>4. QED
    BY <1>0, <2>1, <2>3 DEF SharesOK
<1>5. CASE CreateFails \/ PrintParallel \/ PrintSerial
  BY <1>3, <1>5 DEF CreateFails, PrintParallel, PrintSerial, threads
<1>6. CASE JoinThread
  <2>1. mainPc' \notin {"create", "aborted"} /\ UNCHANGED <<param, pc>>
    BY <1>6 DEF JoinThread
  <2>2. mainPc' = "join" => ctr' < num_threads
    BY <1>6 DEF JoinThread
  <2>3. QED
    BY <1>3, <2>1, <2>2
<1>7. CASE ScanSerial
  BY <1>2, <1>7 DEF ScanSerial, threads
<1>8. ASSUME NEW t \in Threads, Start(t) \/ Return(t) PROVE SharesOK'
  BY <1>4, <1>8 DEF Start, Return
<1>9. ASSUME NEW t \in Threads, Scan(t) PROVE SharesOK'
  BY <1>2, <1>9 DEF Scan, main
<1>10. CASE UNCHANGED vars
  BY <1>2, <1>10 DEF vars, main
<1>11. QED
  BY <1>1, <1>5, <1>6, <1>7, <1>8, <1>9, <1>10 DEF Next, Main, FindMaxThread, Gone

\* A thread extends the first maximum of what it has seen by one element.
LEMMA SearchedStep == IInv /\ [Next]_vars => SearchedOK'
<1> DEFINE OK(t) ==
        pc[t] \in {"scan", "done"} =>
            /\ pos[t] >= 1
            /\ IF Share(t) = 0 THEN max_index[t] = 0
               ELSE /\ pos[t] <= Share(t)
                    /\ IsFirstMax(First(t), pos[t], pmax[t], max_index[t])
            /\ pc[t] = "done" => pos[t] >= Share(t)
<1> SUFFICES ASSUME IInv, [Next]_vars, NEW t \in Threads PROVE OK(t)'
  BY DEF SearchedOK
<1>0. TypeOK /\ SharesOK /\ OK(t)
  BY DEF IInv, SearchedOK
<1>a. /\ Share(t)' = Share(t) /\ First(t)' = First(t)
      /\ a' = a
  BY Frozen, FrozenShares
<1>1. CASE UNCHANGED <<pc, pos, pmax, max_index>>
  BY <1>0, <1>1, <1>a DEF IsFirstMax
<1>2. CASE CreateThread
  BY <1>0, <1>2, <1>a DEF CreateThread, IsFirstMax, TypeOK
<1>3. ASSUME NEW u \in Threads, u # t, FindMaxThread(u) PROVE OK(t)'
  <2>1. /\ pc'[t] = pc[t] /\ pos'[t] = pos[t] /\ pmax'[t] = pmax[t]
        /\ max_index'[t] = max_index[t]
    <3>1. CASE Start(u)
      BY <1>0, <1>3, <3>1 DEF Start, TypeOK
    <3>2. CASE Scan(u)
      BY <1>0, <1>3, <3>2 DEF Scan, TypeOK
    <3>3. CASE Return(u)
      BY <1>0, <1>3, <3>3 DEF Return, TypeOK
    <3>4. QED
      BY <1>3, <3>1, <3>2, <3>3 DEF FindMaxThread
  <2>2. QED
    BY <1>0, <1>a, <2>1 DEF IsFirstMax
<1>4. CASE Start(t)
  <2>1. /\ t \in 0 .. num_threads - 1 /\ start_index[t] = First(t)
        /\ start_index[t] \in Nat
    BY <1>0, <1>4, InArray DEF Start, SharesOK
  <2>2. /\ pc'[t] = "scan" /\ pos'[t] = 1 /\ max_index'[t] = 0
        /\ pmax'[t] \in At(start_index[t])
    BY <1>0, <1>4 DEF Start, TypeOK
  <2>3. CASE Share(t) = 0
    BY <1>a, <2>2, <2>3
  <2>4. CASE Share(t) # 0
    <3>1. /\ Share(t) \in Nat \ {0} /\ First(t) \in Nat
          /\ First(t) + Share(t) <= num_elements /\ num_elements \in Nat
      BY <1>0, <2>1, <2>4, Shares, Elements
    <3>2. pmax'[t] = a[First(t)]
      BY <2>1, <2>2, <3>1 DEF At
    <3>3. a[First(t)] \in Int
      <4>1. First(t) \in 0 .. num_elements - 1
        BY <3>1
      <4>2. QED
        BY <1>0, <4>1, Elements, FindMaxAssumption
    <3>4. IsFirstMax(First(t), 1, a[First(t)], 0)
      BY <3>1, <3>3 DEF IsFirstMax
    <3>5. QED
      BY <1>a, <2>2, <3>1, <3>2, <3>4 DEF IsFirstMax
  <2>5. QED
    BY <2>3, <2>4
<1>5. CASE Scan(t)
  <2>1. /\ t \in 0 .. num_threads - 1 /\ size[t] = Share(t) /\ start_index[t] = First(t)
        /\ pos[t] \in Nat \ {0} /\ pos[t] < Share(t) /\ Share(t) \in Nat
        /\ First(t) \in Nat /\ First(t) + Share(t) <= num_elements
        /\ num_elements \in Nat
    BY <1>0, <1>5, InArray, Shares, Elements DEF Scan, SharesOK
  <2>2. IsFirstMax(First(t), pos[t], pmax[t], max_index[t])
    BY <1>0, <1>5, <2>1 DEF Scan
  <2>3. First(t) + pos[t] < num_elements
    BY <2>1
  <2>4. IF a[First(t) + pos[t]] > pmax[t]
        THEN IsFirstMax(First(t), pos[t] + 1, a[First(t) + pos[t]], pos[t])
        ELSE IsFirstMax(First(t), pos[t] + 1, pmax[t], max_index[t])
    BY <1>0, <2>1, <2>2, <2>3, NextMax
  <2>5. /\ pc'[t] = "scan" /\ pos'[t] = pos[t] + 1
        /\ IF a[First(t) + pos[t]] > pmax[t]
           THEN pmax'[t] = a[First(t) + pos[t]] /\ max_index'[t] = pos[t]
           ELSE pmax'[t] = pmax[t] /\ max_index'[t] = max_index[t]
    BY <1>0, <1>5, <2>1 DEF Scan, TypeOK
  <2>6. IsFirstMax(First(t), pos'[t], pmax'[t], max_index'[t])
    BY <2>4, <2>5
  <2>7. QED
    BY <1>a, <2>1, <2>5, <2>6 DEF IsFirstMax
<1>6. CASE Return(t)
  BY <1>0, <1>6, <1>a DEF Return, TypeOK, SharesOK, IsFirstMax
<1>7. CASE ~ \E u \in Threads : FindMaxThread(u)
  BY <1>1, <1>2, <1>7
  DEF Next, Main, CreateFails, JoinThread, PrintParallel, ScanSerial, PrintSerial,
      threads, Gone, vars
<1>8. QED
  BY <1>3, <1>4, <1>5, <1>6, <1>7 DEF FindMaxThread

\* What main has merged is the first maximum of the shares it has joined.
LEMMA MergeShare ==
    ASSUME IInv, JoinThread
    PROVE  Found(First(ctr) + Share(ctr), best', index')
<1>0. TypeOK /\ SharesOK /\ SearchedOK /\ MergedOK
  BY DEF IInv
<1>1. /\ ctr \in Threads /\ ctr \in 0 .. num_threads - 1
      /\ start_index[ctr] = First(ctr) /\ pc[ctr] = "done" /\ Merge(ctr)
  <2>1. mainPc = "join" /\ pc[ctr] = "done" /\ Merge(ctr)
    BY DEF JoinThread
  <2>2. ctr \in Threads
    BY <1>0, <2>1 DEF TypeOK
  <2>3. start_index[ctr] = First(ctr) /\ ctr < num_threads
    BY <1>0, <2>1, <2>2 DEF SharesOK
  <2>4. ctr \in 0 .. num_threads - 1
    BY <1>0, <2>2, <2>3, FindMaxAssumption DEF TypeOK, Threads
  <2>5. QED
    BY <2>1, <2>2, <2>3, <2>4
<1>2. /\ First(ctr) \in Nat /\ Share(ctr) \in Nat /\ First(0) = 0
      /\ First(ctr) + Share(ctr) <= num_elements /\ num_elements \in Nat
      /\ num_threads \in Nat
  <2>1. num_threads \in Nat /\ num_elements \in Nat
    BY <1>0, Elements, FindMaxAssumption DEF TypeOK
  <2>2. QED
    BY <1>0, <1>1, <2>1, Shares
<1>3. ctr # 0 => Found(First(ctr), best, index)
  BY <1>0, <1>1 DEF JoinThread, MergedOK
<1>4. CASE Share(ctr) = 0
  <2>1. ctr # 0 /\ First(ctr) = num_elements /\ num_threads > num_elements
    BY <1>0, <1>1, <1>4, Shares
  <2>2. max_index[ctr] = 0
    BY <1>0, <1>1, <1>4 DEF SearchedOK
  <2>3. \/ index' = num_elements
        \/ best' = best /\ index' = index
    BY <1>1, <1>2, <2>1, <2>2 DEF Merge
  <2>4. First(ctr) + Share(ctr) = First(ctr)
    BY <1>2, <1>4
  <2>5. QED
    BY <1>3, <2>1, <2>3, <2>4 DEF Found
<1>5. CASE Share(ctr) # 0
  <2>1. IsFirstMax(First(ctr), Share(ctr), pmax[ctr], max_index[ctr])
    <3>1. pos[ctr] <= Share(ctr) /\ pos[ctr] >= Share(ctr) /\ pos[ctr] \in Nat
      BY <1>0, <1>1, <1>5 DEF SearchedOK, TypeOK
    <3>2. pos[ctr] = Share(ctr)
      BY <1>2, <3>1
    <3>3. QED
      BY <1>0, <1>1, <1>5, <3>2 DEF SearchedOK
  <2>2. CASE ctr = 0
    BY <1>1, <1>2, <2>1, <2>2 DEF Merge, Found
  <2>3. CASE ctr # 0
    <3>1. IsFirstMax(0, First(ctr), best, index)
      <4>1. num_threads <= num_elements
        BY <1>0, <1>1, <1>5, <2>3, Shares
      <4>2. QED
        BY <1>2, <1>3, <2>3, <4>1 DEF Found
    <3>2. Share(ctr) \in Nat \ {0}
      BY <1>2, <1>5
    <3>3. IF best < pmax[ctr]
          THEN IsFirstMax(0, First(ctr) + Share(ctr), pmax[ctr],
                          max_index[ctr] + First(ctr))
          ELSE IsFirstMax(0, First(ctr) + Share(ctr), best, index)
      BY <1>0, <1>2, <2>1, <3>1, <3>2, MergeMax
    <3>4. QED
      BY <1>1, <2>3, <3>3 DEF Merge, Found
  <2>4. QED
    BY <2>2, <2>3
<1>6. QED
  BY <1>4, <1>5

LEMMA MergedStep == IInv /\ [Next]_vars => MergedOK'
<1> SUFFICES ASSUME IInv, [Next]_vars PROVE MergedOK'
  OBVIOUS
<1>0. TypeOK /\ SharesOK /\ MergedOK
  BY DEF IInv
<1>a. a' = a /\ num_threads' = num_threads /\ num_elements' = num_elements
  BY Frozen, FrozenShares
<1>1. CASE JoinThread
  <2>1. Found(First(ctr) + Share(ctr), best', index')
    BY <1>1, MergeShare
  <2>2. ctr \in 0 .. num_threads - 1 /\ num_threads \in Nat
    BY <1>0, <1>1, FindMaxAssumption DEF JoinThread, TypeOK, SharesOK, Threads
  <2>3. CASE ctr + 1 < num_threads
    <3>1. First(ctr + 1) = First(ctr) + Share(ctr)
      BY <1>0, <2>2, <2>3, Shares
    <3>2. Found(First(ctr + 1), best', index')
      BY <2>1, <3>1
    <3>3. ctr' = ctr + 1 /\ mainPc' = "join"
      BY <1>1, <2>3 DEF JoinThread
    <3>4. QED
      BY <1>a, <3>2, <3>3 DEF MergedOK, Found, IsFirstMax, First
  <2>4. CASE ~(ctr + 1 < num_threads)
    <3>1. First(ctr) + Share(ctr) = num_elements
      BY <1>0, <2>2, <2>4, Shares
    <3>2. Found(num_elements, best', index')
      BY <2>1, <3>1
    <3>3. mainPc' = "print"
      BY <1>1, <2>4 DEF JoinThread
    <3>4. QED
      BY <1>a, <3>2, <3>3 DEF MergedOK, Found, IsFirstMax
  <2>5. QED
    BY <2>3, <2>4
<1>2. CASE CreateThread
  <2>1. mainPc' = "join" => ctr' = 0
    BY <1>2 DEF CreateThread
  <2>2. mainPc' # "print"
    BY <1>2 DEF CreateThread
  <2>3. QED
    BY <2>1, <2>2 DEF MergedOK
<1>3. CASE mainPc' \notin {"join", "print"}
  BY <1>3 DEF MergedOK
<1>4. CASE UNCHANGED main
  BY <1>0, <1>a, <1>4 DEF MergedOK, Found, IsFirstMax, First, main
<1>5. QED
  BY <1>1, <1>2, <1>3, <1>4
  DEF Next, Main, CreateFails, PrintParallel, ScanSerial, PrintSerial, FindMaxThread,
      Start, Scan, Return, Gone, vars

\* find_max_serial extends the first maximum of what it has seen.
LEMMA SerialStep == IInv /\ [Next]_vars => SerialOK'
<1> SUFFICES ASSUME IInv, [Next]_vars PROVE SerialOK'
  OBVIOUS
<1>0. TypeOK /\ MergedOK /\ SerialOK
  BY DEF IInv
<1>a. a' = a /\ num_threads' = num_threads /\ num_elements' = num_elements
  BY Frozen, FrozenShares
<1>b. num_elements \in Nat \ {0}
  BY <1>0, Elements
<1>1. CASE PrintParallel
  <2>1. a[0] \in Int
    <3>1. 0 \in 0 .. num_elements - 1
      BY <1>b
    <3>2. QED
      BY <1>0, <3>1, Elements, FindMaxAssumption
  <2>2. IsFirstMax(0, 1, a[0], 0)
    BY <2>1 DEF IsFirstMax
  <2>3. Found(num_elements, parallel'.max, parallel'.index)
    BY <1>0, <1>1 DEF PrintParallel, MergedOK
  <2>4. QED
    BY <1>1, <1>a, <1>b, <2>2, <2>3 DEF PrintParallel, SerialOK, Found, IsFirstMax
<1>2. CASE ScanSerial
  <2>1. /\ sctr \in Nat \ {0} /\ 0 + sctr < num_elements
        /\ IsFirstMax(0, sctr, best, sindex)
        /\ Found(num_elements, parallel.max, parallel.index)
    BY <1>0, <1>2, <1>b DEF ScanSerial, SerialOK
  <2>2. IF a[0 + sctr] > best
        THEN IsFirstMax(0, sctr + 1, a[0 + sctr], sctr)
        ELSE IsFirstMax(0, sctr + 1, best, sindex)
    BY <1>0, <2>1, NextMax
  <2>3. IsFirstMax(0, sctr', best', sindex')
    <3>1. 0 + sctr = sctr
      BY <2>1
    <3>2. QED
      BY <1>2, <2>2, <3>1 DEF ScanSerial
  <2>4. sctr' \in 1 .. num_elements
    BY <1>2, <1>b, <2>1 DEF ScanSerial
  <2>5. QED
    BY <1>2, <1>a, <2>1, <2>3, <2>4 DEF ScanSerial, SerialOK, Found, IsFirstMax
<1>3. CASE PrintSerial
  <2>1. sctr = num_elements
    BY <1>0, <1>3, <1>b DEF PrintSerial, SerialOK
  <2>2. IsFirstMax(0, num_elements, best, sindex)
    BY <1>0, <1>3, <2>1 DEF PrintSerial, SerialOK
  <2>3. Found(num_elements, parallel.max, parallel.index)
    BY <1>0, <1>3 DEF PrintSerial, SerialOK
  <2>4. QED
    BY <1>3, <1>a, <2>2, <2>3 DEF PrintSerial, SerialOK, Found, IsFirstMax, serial
<1>4. CASE mainPc' \notin {"serial", "printed"}
  BY <1>4 DEF SerialOK
<1>5. CASE UNCHANGED main
  BY <1>0, <1>a, <1>5 DEF SerialOK, Found, IsFirstMax, main, serial
<1>6. QED
  BY <1>1, <1>2, <1>3, <1>4, <1>5
  DEF Next, Main, CreateThread, CreateFails, JoinThread, FindMaxThread, Start, Scan,
      Return, Gone, vars

\* The invariant holds in every reachable state.
THEOREM Invariance == Spec => []IInv
<1>1. IInv /\ [Next]_vars => IInv'
  BY TypeStep, SharesStep, SearchedStep, MergedStep, SerialStep DEF IInv
<1>2. QED
  BY InitInv, <1>1, PTL DEF Spec

-----------------------------------------------------------------------------

\* What is printed under PARALLEL is what is printed under SERIAL, unless there
\* are more threads than elements; and the assert that the shares cover the
\* array holds (find_max_parallel.c:107-153).
THEOREM ParallelEqualsSerial == Spec => []ParallelIsSerial
<1>1. IInv => ParallelIsSerial
  <2> SUFFICES ASSUME IInv PROVE ParallelIsSerial
    OBVIOUS
  <2>1. TypeOK /\ mainPc # "aborted"
    BY DEF IInv, SharesOK
  <2>2. ASSUME mainPc = "printed"
        PROVE  \/ parallel = [max |-> best, index |-> ctr] /\ best = a[ctr]
               \/ parallel.index = num_elements /\ num_threads > num_elements
    <3>1. /\ IsFirstMax(0, num_elements, best, ctr)
          /\ Found(num_elements, parallel.max, parallel.index)
      BY <2>2 DEF IInv, SerialOK
    <3>2. CASE IsFirstMax(0, num_elements, parallel.max, parallel.index)
      <4>1. parallel.max = best /\ parallel.index = ctr
        BY <2>1, <3>1, <3>2, OneMax
      <4>2. parallel = [max |-> best, index |-> ctr]
        BY <2>1, <4>1 DEF TypeOK
      <4>3. best = a[ctr]
        BY <2>1, <2>2, <3>1, Elements DEF IsFirstMax, TypeOK
      <4>4. QED
        BY <4>2, <4>3
    <3>3. QED
      BY <3>1, <3>2 DEF Found
  <2>3. QED
    BY <2>1, <2>2 DEF ParallelIsSerial
<1>2. QED
  BY Invariance, <1>1, PTL

\* Every thread looks only at its share, and the shares lie in the array
\* (find_max_parallel.c:55-63, 108-115).
THEOREM ScansInsideArray ==
    Spec => [][\A t \in Threads : Scan(t) =>
                  start_index[t] + pos[t] \in DOMAIN a]_vars
<1>1. IInv /\ [Next]_vars =>
        [\A t \in Threads : Scan(t) => start_index[t] + pos[t] \in DOMAIN a]_vars
  <2> SUFFICES ASSUME IInv, NEW t \in Threads, Scan(t)
               PROVE  start_index[t] + pos[t] \in DOMAIN a
    OBVIOUS
  <2>1. start_index[t] + pos[t] \in 0 .. num_elements - 1
    BY InArray DEF Scan
  <2>2. QED
    BY <2>1, Elements DEF IInv
<1>2. QED
  BY <1>1, Invariance, PTL DEF Spec

-----------------------------------------------------------------------------
(* lock-example.c and prog11.c: the critical sections in the code of a thread. *)


\* The variables that lock-example and prog11 guard.
Guarded == {"ac_balance", "counter"}

\* The instructions of these programs.
Instructions ==
    {<<"load", cell>> : cell \in Cells}
      \cup {<<"store", cell, how>> : cell \in Cells, how \in {"deposit", "withdraw", "one"}}
      \cup {<<"call", f>> : f \in {"pthread_mutex_lock", "pthread_mutex_unlock", "printf",
                                   "sleep", "__lock_acq", "__lock_rel"}}
      \cup {<<"create", t>> : t \in Nat} \cup {<<"join", t>> : t \in Nat}
      \cup {<<"print", "ac_balance">>, <<"ret">>, <<"acquired">>, <<"released">>}

IsLock(x) == x[1] = "call" /\ x[2] = "pthread_mutex_lock"

IsUnlock(x) == x[1] = "call" /\ x[2] = "pthread_mutex_unlock"

\* What only the holder of the mutex executes.
Inside(x) ==
    \/ x[1] \in {"load", "store"} /\ x[2] \in Guarded
    \/ x[1] = "call" /\ x[2] \in {"pthread_mutex_unlock", "__lock_rel"}
    \/ x[1] = "released"

\* y may follow x: the critical section begins with lock and ends with unlock,
\* and a store follows the load of the same variable at once.
Link(x, y) ==
    /\ Inside(y) => IsLock(x) \/ (Inside(x) /\ ~IsUnlock(x))
    /\ y[1] = "store" => x[1] = "load" /\ x[2] = y[2]

Linked(c) == \A i \in 1 .. Len(c) - 1 : Link(c[i], c[i + 1])

\* Code that can follow any other.
Sound(c) ==
    /\ c \in Seq(Instructions)
    /\ Linked(c)
    /\ c # <<>> => ~Inside(c[1]) /\ c[1][1] # "store"

LEMMA CalledFunctions ==
    \A x \in Instructions :
        /\ x[1] = "call" => x[2] \in {"pthread_mutex_lock", "pthread_mutex_unlock",
                                      "printf", "sleep", "__lock_acq", "__lock_rel"}
        /\ x[1] \in {"load", "store"} => x[2] \in Cells
        /\ x[1] = "store" => x[3] \in {"deposit", "withdraw", "one"}
  BY DEF Instructions

LEMMA LinkedConcat ==
    ASSUME NEW v \in Seq(Instructions), NEW w \in Seq(Instructions), Linked(v), Linked(w),
           v # <<>> /\ w # <<>> => Link(v[Len(v)], w[1])
    PROVE  Linked(v \o w)
<1> DEFINE c == v \o w
<1>1. /\ Len(v) \in Nat /\ Len(w) \in Nat /\ Len(c) = Len(v) + Len(w)
      /\ \A i \in 1 .. Len(v) : c[i] = v[i]
      /\ \A i \in 1 .. Len(w) : c[Len(v) + i] = w[i]
  BY ConcatSeq
<1> HIDE DEF c
<1>2. ASSUME NEW i \in 1 .. Len(c) - 1 PROVE Link(c[i], c[i + 1])
  <2>1. CASE i < Len(v)
    <3>1. i \in 1 .. Len(v) - 1 /\ i \in 1 .. Len(v) /\ i + 1 \in 1 .. Len(v)
      BY <1>1, <2>1
    <3>2. QED
      BY <1>1, <3>1 DEF Linked
  <2>2. CASE i = Len(v)
    <3>1. i \in 1 .. Len(v) /\ 1 \in 1 .. Len(w)
      BY <1>1, <2>2
    <3>2. c[i] = v[Len(v)] /\ c[i + 1] = w[1]
      BY <1>1, <2>2, <3>1
    <3>3. v # <<>> /\ w # <<>>
      BY <3>1
    <3>4. QED
      BY <3>2, <3>3
  <2>3. CASE i > Len(v)
    <3> DEFINE j == i - Len(v)
    <3>1. /\ j \in 1 .. Len(w) - 1 /\ j \in 1 .. Len(w) /\ j + 1 \in 1 .. Len(w)
          /\ i = Len(v) + j /\ i + 1 = Len(v) + (j + 1)
      BY <1>1, <2>3
    <3> HIDE DEF j
    <3>2. c[i] = w[j] /\ c[i + 1] = w[j + 1]
      BY <1>1, <3>1
    <3>3. QED
      BY <3>1, <3>2 DEF Linked
  <2>4. QED
    BY <1>1, <2>1, <2>2, <2>3
<1>3. QED
  BY <1>2 DEF Linked, c

LEMMA SoundConcat ==
    ASSUME NEW v, NEW w, Sound(v), Sound(w)
    PROVE  Sound(v \o w)
<1>1. v \in Seq(Instructions) /\ w \in Seq(Instructions) /\ Linked(v) /\ Linked(w)
  BY DEF Sound
<1>2. w # <<>> => \A x : Link(x, w[1])
  BY DEF Sound, Link
<1>3. Linked(v \o w)
  BY <1>1, <1>2, LinkedConcat
<1>4. v \o w \in Seq(Instructions)
  BY <1>1
<1>5. ASSUME v \o w # <<>> PROVE ~Inside((v \o w)[1]) /\ (v \o w)[1][1] # "store"
  <2>1. CASE v = <<>>
    <3>1. v \o w = w
      BY <1>1, <2>1
    <3>2. QED
      BY <1>5, <3>1 DEF Sound
  <2>2. CASE v # <<>>
    <3>1. 1 \in 1 .. Len(v)
      BY <1>1, <2>2
    <3>2. (v \o w)[1] = v[1]
      BY <1>1, <3>1, ConcatSeq
    <3>3. QED
      BY <2>2, <3>2 DEF Sound
  <2>3. QED
    BY <2>1, <2>2
<1>6. QED
  BY <1>3, <1>4, <1>5 DEF Sound

LEMMA SoundNothing == Sound(<<>>)
  BY DEF Sound, Linked

\* A loop of sound rounds.
LEMMA SoundTimes ==
    ASSUME NEW n \in Nat, NEW s, Sound(s)
    PROVE  Sound(Times(n, s))
<1> DEFINE seqs == [i \in 1 .. n |-> s]
<1>1. seqs \in [1 .. n -> Seq(Instructions)]
  BY DEF Sound
<1>2. PICK h \in [0 .. n -> Seq(Instructions)] :
              /\ h[0] = <<>>
              /\ \A i \in 1 .. n : h[i] = h[i - 1] \o seqs[i]
              /\ FlattenSeq(seqs) = h[n]
  <2> HIDE DEF seqs
  <2>1. QED
    BY <1>1, FlattenSteps
<1> DEFINE S == {i \in 0 .. n : Sound(h[i])}
<1>3. 0 \in S
  BY <1>2, SoundNothing
<1>4. ASSUME NEW i \in 0 .. n - 1, i \in S PROVE i + 1 \in S
  <2>1. i + 1 \in 1 .. n /\ (i + 1) - 1 = i
    OBVIOUS
  <2>2. h[i + 1] = h[i] \o s
    BY <1>2, <2>1
  <2>3. Sound(h[i + 1])
    BY <1>4, <2>2, SoundConcat
  <2>4. QED
    BY <2>1, <2>3
<1> HIDE DEF S
<1>5. 0 .. n \subseteq S
  BY <1>3, <1>4, PrefixInduction
<1>6. Sound(h[n])
  BY <1>5 DEF S
<1>7. QED
  BY <1>2, <1>6 DEF Times

\* Code of which nothing needs the mutex, and nothing is a store.
LEMMA SoundPlain ==
    ASSUME NEW c \in Seq(Instructions),
           \A i \in 1 .. Len(c) : ~Inside(c[i]) /\ c[i][1] # "store"
    PROVE  Sound(c)
<1>1. Len(c) \in Nat /\ (c # <<>> => 1 \in 1 .. Len(c))
  OBVIOUS
<1>2. \A i \in 1 .. Len(c) - 1 : i + 1 \in 1 .. Len(c)
  BY <1>1
<1>3. Linked(c)
  BY <1>2 DEF Linked, Link
<1>4. QED
  BY <1>1, <1>3 DEF Sound

\* Instructions that need no mutex.
LEMMA PlainInstructions ==
    /\ \A t \in Nat : \A op \in {"create", "join"} :
          /\ <<op, t>> \in Instructions
          /\ ~Inside(<<op, t>>) /\ <<op, t>>[1] # "store"
    /\ \A f \in {"printf", "sleep", "__lock_acq"} :
          /\ <<"call", f>> \in Instructions
          /\ ~Inside(<<"call", f>>) /\ <<"call", f>>[1] # "store"
    /\ \A op \in {"ret", "acquired"} :
          <<op>> \in Instructions /\ ~Inside(<<op>>) /\ <<op>>[1] # "store"
    /\ LET x == <<"print", "ac_balance">>
       IN  x \in Instructions /\ ~Inside(x) /\ x[1] # "store"
<1>1. /\ \A t \in Nat : \A op \in {"create", "join"} : <<op, t>> \in Instructions
      /\ \A f \in {"printf", "sleep", "__lock_acq"} : <<"call", f>> \in Instructions
      /\ \A op \in {"ret", "acquired"} : <<op>> \in Instructions
      /\ <<"print", "ac_balance">> \in Instructions
  BY DEF Instructions
<1>2. QED
  BY <1>1 DEF Inside

\* Short sequences, concatenated.
LEMMA PairConcat ==
    ASSUME NEW S, NEW x \in S, NEW y \in S
    PROVE  <<x>> \o <<y>> = <<x, y>>
<1> DEFINE s == <<x>> \o <<y>>
           t == <<x, y>>
<1>1. s \in Seq(S) /\ Len(s) = 2 /\ s[1] = x /\ s[2] = y
  OBVIOUS
<1>2. t \in Seq(S) /\ Len(t) = 2 /\ t[1] = x /\ t[2] = y
  OBVIOUS
<1> HIDE DEF s, t
<1>3. \A i \in 1 .. Len(s) : s[i] = t[i]
  BY <1>1, <1>2
<1>4. s = t
  BY <1>1, <1>2, <1>3, SeqEqual
<1>5. QED
  BY <1>4 DEF s, t

LEMMA QuadConcat ==
    ASSUME NEW S, NEW w \in S, NEW x \in S, NEW y \in S, NEW z \in S
    PROVE  LET c == (<<w>> \o <<x, y>>) \o <<z>>
           IN  c \in Seq(S) /\ Len(c) = 4 /\ c[1] = w /\ c[2] = x /\ c[3] = y /\ c[4] = z
  OBVIOUS

\* An update of a guarded variable between lock and unlock.
LEMMA SoundLocked ==
    ASSUME NEW cell \in Guarded, NEW how \in {"deposit", "withdraw", "one"}
    PROVE  Sound(Locked(Update(cell, how)))
<1> DEFINE c == Locked(Update(cell, how))
<1>1. /\ <<"call", "pthread_mutex_lock">> \in Instructions
      /\ <<"load", cell>> \in Instructions
      /\ <<"store", cell, how>> \in Instructions
      /\ <<"call", "pthread_mutex_unlock">> \in Instructions
  BY DEF Instructions, Guarded, Cells
<1>2. c = (<< <<"call", "pthread_mutex_lock">> >> \o << <<"load", cell>>, <<"store", cell, how>> >>)
            \o << <<"call", "pthread_mutex_unlock">> >>
  BY DEF Locked, Update, Call
<1> HIDE DEF c
<1>3. /\ c \in Seq(Instructions) /\ Len(c) = 4
      /\ c[1] = <<"call", "pthread_mutex_lock">> /\ c[2] = <<"load", cell>>
      /\ c[3] = <<"store", cell, how>> /\ c[4] = <<"call", "pthread_mutex_unlock">>
  BY <1>1, <1>2, QuadConcat
<1>4. Link(c[1], c[2]) /\ Link(c[2], c[3]) /\ Link(c[3], c[4])
  BY <1>3 DEF Link, Inside, IsLock, IsUnlock
<1>5. Linked(c)
  <2>1. ASSUME NEW i \in 1 .. Len(c) - 1 PROVE Link(c[i], c[i + 1])
    <3>1. i = 1 \/ i = 2 \/ i = 3
      BY <1>3
    <3>2. QED
      BY <1>4, <3>1
  <2>2. QED
    BY <2>1 DEF Linked
<1>6. ~Inside(c[1]) /\ c[1][1] # "store"
  BY <1>3 DEF Inside
<1>7. QED
  BY <1>3, <1>5, <1>6 DEF Sound, c

\* The pass InstrumentLocks keeps code sound.
LEMMA SoundInstrumented ==
    ASSUME NEW c, Sound(c)
    PROVE  Sound(InstrumentLocks(c))
<1> DEFINE n == Len(c)
           new == [i \in DOMAIN c |->
                     When(c[i] = Call("pthread_mutex_lock"), <<Call("__lock_acq")>>)
                       \o When(c[i] = Call("pthread_mutex_unlock"), <<Call("__lock_rel")>>)]
           seqs == [i \in DOMAIN c |-> new[i] \o <<c[i]>>]
<1>1. /\ c \in Seq(Instructions) /\ n \in Nat /\ DOMAIN c = 1 .. n
      /\ \A i \in 1 .. n : c[i] \in Instructions
  BY DEF Sound
\* What stands before an instruction may follow what stood before it.
<1>2. ASSUME NEW i \in 1 .. n
      PROVE  /\ seqs[i] \in Seq(Instructions) /\ Len(seqs[i]) \in Nat /\ seqs[i] # <<>>
             /\ Linked(seqs[i])
             /\ seqs[i][Len(seqs[i])] = c[i]
             /\ \A x : Link(x, c[i]) => Link(x, seqs[i][1])
  <2> DEFINE lock == Call("pthread_mutex_lock")
             unlock == Call("pthread_mutex_unlock")
  <2>1. /\ <<"call", "__lock_acq">> \in Instructions
        /\ <<"call", "__lock_rel">> \in Instructions
    BY DEF Instructions
  <2>2. lock # unlock
    BY DEF Call
  <2>3. seqs[i] = new[i] \o <<c[i]>>
    BY <1>1
  <2>4. CASE c[i] = lock
    <3>1. new[i] = <<Call("__lock_acq")>>
      BY <1>1, <2>2, <2>4 DEF When
    <3>2. seqs[i] = << <<"call", "__lock_acq">>, c[i] >>
      <4>1. seqs[i] = << <<"call", "__lock_acq">> >> \o <<c[i]>>
        BY <2>3, <3>1, Zenon DEF Call
      <4>2. QED
        BY <1>1, <2>1, <4>1, PairConcat, Zenon
    <3>3. Link(<<"call", "__lock_acq">>, c[i]) /\ \A x : Link(x, <<"call", "__lock_acq">>)
      BY <2>4 DEF Link, Inside, Call
    <3> HIDE DEF seqs, new
    <3>4. QED
      BY <1>1, <2>1, <3>2, <3>3 DEF Linked
  <2>5. CASE c[i] = unlock
    <3>1. new[i] = <<Call("__lock_rel")>>
      <4>1. c[i] # lock
        BY <2>2, <2>5
      <4>2. new[i] = <<>> \o <<Call("__lock_rel")>>
        BY <1>1, <2>5, <4>1, Zenon DEF When
      <4>3. \A x : <<>> \o <<x>> = <<x>>
        OBVIOUS
      <4>4. QED
        BY <4>2, <4>3, Zenon
    <3>2. seqs[i] = << <<"call", "__lock_rel">>, c[i] >>
      <4>1. seqs[i] = << <<"call", "__lock_rel">> >> \o <<c[i]>>
        BY <2>3, <3>1, Zenon DEF Call
      <4>2. QED
        BY <1>1, <2>1, <4>1, PairConcat, Zenon
    <3>3. /\ Link(<<"call", "__lock_rel">>, c[i])
          /\ \A x : Link(x, c[i]) => Link(x, <<"call", "__lock_rel">>)
      BY <2>5 DEF Link, Inside, IsUnlock, Call
    <3> HIDE DEF seqs, new
    <3>4. QED
      BY <1>1, <2>1, <3>2, <3>3 DEF Linked
  <2>6. CASE c[i] # lock /\ c[i] # unlock
    <3>1. new[i] = <<>>
      BY <1>1, <2>6 DEF When
    <3>2. seqs[i] = << c[i] >>
      <4>1. \A x : <<>> \o <<x>> = <<x>>
        OBVIOUS
      <4>2. QED
        BY <2>3, <3>1, <4>1, Zenon
    <3> HIDE DEF seqs, new
    <3>3. QED
      BY <1>1, <3>2 DEF Linked
  <2>7. QED
    BY <2>4, <2>5, <2>6
<1>3. seqs \in [1 .. n -> Seq(Instructions)]
  <2>1. seqs = [i \in 1 .. n |-> seqs[i]]
    BY <1>1
  <2> HIDE DEF seqs
  <2>2. QED
    BY <1>2, <2>1
<1>4. PICK h \in [0 .. n -> Seq(Instructions)] :
              /\ h[0] = <<>>
              /\ \A i \in 1 .. n : h[i] = h[i - 1] \o seqs[i]
              /\ FlattenSeq(seqs) = h[n]
  <2> HIDE DEF seqs
  <2>1. QED
    BY <1>1, <1>3, FlattenSteps
<1>5. InstrumentLocks(c) = h[n]
  BY <1>4 DEF InstrumentLocks, Insert
<1> HIDE DEF seqs, n
<1> DEFINE Good(i) == /\ Sound(h[i])
                      /\ i >= 1 => h[i] # <<>> /\ h[i][Len(h[i])] = c[i]
           S == {i \in 0 .. n : Good(i)}
<1>6. 0 \in S
  BY <1>1, <1>4, SoundNothing
<1>7. ASSUME NEW i \in 0 .. n - 1, i \in S PROVE i + 1 \in S
  <2> DEFINE j == i + 1
             v == h[i]
             w == seqs[j]
  <2>1. j \in 1 .. n /\ j - 1 = i /\ i \in 0 .. n /\ i \in Nat
    BY <1>1
  <2>2. /\ v \in Seq(Instructions) /\ Linked(v) /\ Sound(v)
        /\ w \in Seq(Instructions) /\ Linked(w) /\ w # <<>> /\ Len(w) \in Nat
        /\ w[Len(w)] = c[j] /\ \A x : Link(x, c[j]) => Link(x, w[1])
    BY <1>2, <1>7, <2>1 DEF Sound
  <2>3. h[j] = v \o w
    BY <1>4, <2>1
  <2>4. v # <<>> => i >= 1 /\ v[Len(v)] = c[i]
    BY <1>4, <1>7, <2>1
  <2>5. v # <<>> => Link(v[Len(v)], w[1])
    <3>1. i >= 1 => Link(c[i], c[j])
      <4>1. i >= 1 => i \in 1 .. Len(c) - 1
        BY <1>1 DEF n
      <4>2. QED
        BY <4>1 DEF Sound, Linked
    <3>2. QED
      BY <2>2, <2>4, <3>1
  <2> HIDE DEF v, w, j
  <2>6. Linked(v \o w)
    BY <2>2, <2>5, LinkedConcat
  <2>7. /\ v \o w \in Seq(Instructions) /\ Len(v) \in Nat
        /\ Len(v \o w) = Len(v) + Len(w)
        /\ \A k \in 1 .. Len(v) : (v \o w)[k] = v[k]
        /\ \A k \in 1 .. Len(w) : (v \o w)[Len(v) + k] = w[k]
    BY <2>2, ConcatSeq
  <2>8. Len(w) >= 1
    BY <2>2
  <2>9. (v \o w)[Len(v \o w)] = c[j] /\ v \o w # <<>>
    BY <2>2, <2>7, <2>8
  <2>10. ~Inside((v \o w)[1]) /\ (v \o w)[1][1] # "store"
    <3>1. CASE v = <<>>
      <4>1. v \o w = w
        BY <2>2, <3>1
      <4>2. i = 0
        BY <1>7, <2>1, <3>1 DEF v
      <4>3. j = 1 /\ c # <<>>
        BY <1>1, <2>1, <4>2 DEF n, j
      <4>4. ~Inside(c[j]) /\ c[j][1] # "store"
        BY <4>3 DEF Sound
      <4>5. Link(<<"ret">>, c[j])
        BY <4>4 DEF Link
      <4>6. Link(<<"ret">>, w[1])
        BY <2>2, <4>5
      <4>7. QED
        BY <4>1, <4>6 DEF Link, Inside, IsLock
    <3>2. CASE v # <<>>
      <4>1. 1 \in 1 .. Len(v)
        BY <2>2, <3>2
      <4>2. QED
        BY <2>2, <2>7, <3>2, <4>1 DEF Sound
    <3>3. QED
      BY <3>1, <3>2
  <2>11. Good(j)
    BY <2>3, <2>6, <2>7, <2>9, <2>10 DEF Sound
  <2>12. QED
    BY <2>1, <2>11 DEF j
<1> HIDE DEF S
<1>8. 0 .. n \subseteq S
  BY <1>1, <1>6, <1>7, PrefixInduction
<1>9. QED
  BY <1>1, <1>5, <1>8 DEF S

\* The code of the threads of lock-example.
LEMMA SoundAccount ==
    ASSUME NEW p \in lock_example, NEW t \in ThreadIds
    PROVE  Sound(AccountCode(p)[t])
<1> USE ProgramsAssumption DEF ProgramsAssumption
<1> DEFINE ids == 1 .. p.num_threads
           creates == [k \in ids |-> <<"create", k>>]
           joins == [k \in ids |-> <<"join", k>>]
           print == << <<"print", "ac_balance">> >>
           ret == << <<"ret">> >>
<1>1. /\ p.locked = TRUE /\ p.num_threads \in Nat /\ p.num_threads >= 1
      /\ p.transactions \in Nat
  <2>1. p \in [file : {"lock-example.c"}, locked : {TRUE}, both : {TRUE},
               num_threads : 1 .. MaxThreads, transactions : 1 .. MaxTransactions]
    BY DEF lock_example, Account
  <2>2. /\ p.locked = TRUE /\ p.num_threads \in 1 .. MaxThreads
        /\ p.transactions \in 1 .. MaxTransactions
    BY <2>1
  <2>3. QED
    BY <2>2
<1>2. /\ num_transactions(p) \in Nat /\ residue(p) \in Nat
  <2>1. num_transactions(p) \in Nat
    BY <1>1 DEF num_transactions
  <2>2. num_transactions(p) % p.num_threads \in Nat
    BY <1>1, <2>1
  <2>3. QED
    BY <2>1, <2>2 DEF residue
<1>3. \A how \in {"deposit", "withdraw"} : Sound(Transaction(p, how))
  BY <1>1, SoundLocked DEF Transaction, Guarded
<1>4. Sound(creates) /\ Sound(joins)
  <2>1. ASSUME NEW op \in {"create", "join"}
        PROVE  Sound([k \in ids |-> <<op, k>>])
    <3> DEFINE c == [k \in ids |-> <<op, k>>]
    <3>1. \A k \in ids : /\ <<op, k>> \in Instructions
                             /\ ~Inside(<<op, k>>) /\ <<op, k>>[1] # "store"
      <4>1. ids \subseteq Nat
        BY <1>1
      <4>2. QED
        BY <4>1, PlainInstructions, Zenon
    <3>2. c \in Seq(Instructions) /\ Len(c) = p.num_threads
      BY <1>1, <3>1
    <3>3. \A k \in 1 .. Len(c) : ~Inside(c[k]) /\ c[k][1] # "store"
      BY <3>1, <3>2
    <3> HIDE DEF c
    <3>4. Sound(c)
      BY <3>2, <3>3, SoundPlain
    <3>5. QED
      BY <3>4 DEF c
  <2>2. QED
    BY <2>1
<1>5. Sound(print) /\ Sound(ret)
  <2>1. /\ print \in Seq(Instructions) /\ ret \in Seq(Instructions)
        /\ \A k \in 1 .. Len(print) : print[k] = <<"print", "ac_balance">>
        /\ \A k \in 1 .. Len(ret) : ret[k] = <<"ret">>
    BY PlainInstructions
  <2> HIDE DEF print, ret
  <2>2. /\ \A k \in 1 .. Len(print) : ~Inside(print[k]) /\ print[k][1] # "store"
        /\ \A k \in 1 .. Len(ret) : ~Inside(ret[k]) /\ ret[k][1] # "store"
    BY <2>1, PlainInstructions
  <2>3. QED
    BY <2>1, <2>2, SoundPlain
<1> HIDE DEF creates, joins, print, ret
<1>6. \A how \in {"deposit", "withdraw"} :
         /\ Sound(Times(residue(p), Transaction(p, how)))
         /\ Sound(Times(num_transactions(p), Transaction(p, how)))
  BY <1>2, <1>3, SoundTimes
<1>7. Sound(When(p.both, Times(residue(p), Transaction(p, "withdraw"))))
  BY <1>6, SoundNothing DEF When
<1>8. Sound(do_deposit(p)) /\ Sound(do_withdraw(p))
  BY <1>5, <1>6, SoundConcat DEF do_deposit, do_withdraw, ret
<1> DEFINE mainCode == creates \o Times(residue(p), Transaction(p, "deposit"))
                     \o When(p.both, Times(residue(p), Transaction(p, "withdraw")))
                     \o joins \o print
<1>9. Sound(mainCode)
  BY <1>4, <1>5, <1>6, <1>7, SoundConcat
<1>10. AccountCode(p)[t] = IF t = 0 THEN mainCode
                           ELSE IF t \notin ids THEN <<>>
                           ELSE IF p.both /\ t % 2 = 0 THEN do_withdraw(p) ELSE do_deposit(p)
  BY DEF AccountCode, creates, joins, print
<1> HIDE DEF mainCode
<1>11. QED
  BY <1>8, <1>9, <1>10, SoundNothing

\* The code of the threads of prog11, before and after the pass.
LEMMA SoundProg11 ==
    ASSUME NEW p \in prog11, NEW t \in ThreadIds
    PROVE  Sound(Prog11Code(p)[t])
<1> DEFINE before == <<Call("printf")>>
           after == <<Call("printf"), <<"ret">>>>
           mainCode == <<<<"create", 1>>, <<"create", 2>>, Call("sleep"), <<"ret">>>>
<1>1. Sound(before) /\ Sound(after) /\ Sound(mainCode)
  <2>1. /\ <<"create", 1>> \in Instructions /\ ~Inside(<<"create", 1>>)
        /\ <<"create", 2>> \in Instructions /\ ~Inside(<<"create", 2>>)
        /\ Call("printf") \in Instructions /\ ~Inside(Call("printf"))
        /\ Call("sleep") \in Instructions /\ ~Inside(Call("sleep"))
        /\ <<"ret">> \in Instructions /\ ~Inside(<<"ret">>)
    BY PlainInstructions DEF Call
  <2>2. /\ before \in Seq(Instructions) /\ Len(before) = 1
        /\ before[1] = Call("printf")
        /\ after \in Seq(Instructions) /\ Len(after) = 2
        /\ after[1] = Call("printf") /\ after[2] = <<"ret">>
        /\ mainCode \in Seq(Instructions) /\ Len(mainCode) = 4
        /\ mainCode[1] = <<"create", 1>> /\ mainCode[2] = <<"create", 2>>
        /\ mainCode[3] = Call("sleep") /\ mainCode[4] = <<"ret">>
    BY <2>1
  <2> HIDE DEF before, after, mainCode
  <2>3. /\ \A k \in 1 .. Len(before) : ~Inside(before[k]) /\ before[k][1] # "store"
        /\ \A k \in 1 .. Len(after) : ~Inside(after[k]) /\ after[k][1] # "store"
        /\ \A k \in 1 .. Len(mainCode) : ~Inside(mainCode[k]) /\ mainCode[k][1] # "store"
    <3>1. /\ \A k \in 1 .. Len(before) : k = 1
          /\ \A k \in 1 .. Len(after) : k = 1 \/ k = 2
          /\ \A k \in 1 .. Len(mainCode) : k = 1 \/ k = 2 \/ k = 3 \/ k = 4
      BY <2>2
    <3>2. QED
      <4>1. /\ Call("printf")[1] # "store" /\ Call("sleep")[1] # "store"
            /\ <<"create", 1>>[1] # "store" /\ <<"create", 2>>[1] # "store"
            /\ <<"ret">>[1] # "store"
        BY DEF Call
      <4>2. \A k \in 1 .. Len(before) : ~Inside(before[k]) /\ before[k][1] # "store"
        BY <2>1, <2>2, <3>1, <4>1
      <4>3. \A k \in 1 .. Len(after) : ~Inside(after[k]) /\ after[k][1] # "store"
        BY <2>1, <2>2, <3>1, <4>1
      <4>4. \A k \in 1 .. Len(mainCode) : ~Inside(mainCode[k]) /\ mainCode[k][1] # "store"
        BY <2>1, <2>2, <3>1, <4>1
      <4>5. QED
        BY <4>2, <4>3, <4>4
  <2>4. QED
    BY <2>2, <2>3, SoundPlain
<1>2. Sound(Locked(Update("counter", "one")))
  BY SoundLocked DEF Guarded
<1> HIDE DEF before, after, mainCode
<1>3. Sound(thrBody)
  BY <1>1, <1>2, SoundConcat DEF thrBody, before, after
<1>4. Sound(InstrumentLocks(thrBody))
  BY <1>3, SoundInstrumented
<1>5. QED
  BY <1>1, <1>3, <1>4, SoundNothing DEF Prog11Code, mainCode

\* The machine with one of these programs: its code; the mutex is held by whom
\* is inside; what a thread is about to store, it loaded from what is still
\* there.
CodeOK ==
    /\ code \in [ThreadIds -> Seq(Instructions)]
    /\ \A t \in ThreadIds : Linked(code[t])

MemoryOK ==
    mem \in [Cells -> Int] /\ booked \in [Cells -> Int] /\ reg \in [ThreadIds -> Int]

HolderInside(t) == code[t] # <<>> /\ Inside(Head(code[t])) => mutex = t

LoadedIsCurrent(t) ==
    code[t] # <<>> /\ Head(code[t])[1] = "store" /\ Head(code[t])[2] \in Guarded =>
        reg[t] = mem[Head(code[t])[2]]

MutexInv ==
    /\ CodeOK
    /\ MemoryOK
    /\ \A t \in ThreadIds : HolderInside(t) /\ LoadedIsCurrent(t)
    /\ \A cell \in Guarded : mem[cell] = booked[cell]

MachineInv == prog \in lock_example \cup prog11 => MutexInv


LEMMA MachineStart == MachineInit => MachineInv
<1> SUFFICES ASSUME MachineInit, prog \in lock_example \cup prog11 PROVE MutexInv
  BY DEF MachineInv
<1>1. \A p \in AccountPrograms : p.file # "prog11.c" /\ p.file \notin {"prog9.c", "prog10.c", "example.c"}
  BY DEF AccountPrograms, lock_example, thread_example, thread_example_2, Account
<1>2. /\ \A p \in prog11 : p.file = "prog11.c"
      /\ \A p \in instrfuncs : p.file \in {"prog9.c", "prog10.c", "example.c"}
  BY DEF prog11, instrfuncs
<1>3. lock_example \subseteq AccountPrograms
  BY DEF AccountPrograms
<1>4. \/ prog \in lock_example /\ code = AccountCode(prog)
      \/ prog \in prog11 /\ code = Prog11Code(prog)
  BY <1>1, <1>2, <1>3 DEF MachineInit
<1>5. \A t \in ThreadIds : Sound(code[t])
  BY <1>4, SoundAccount, SoundProg11
<1>6. code = [t \in ThreadIds |-> code[t]]
  <2>1. CASE code = AccountCode(prog)
    <3>1. DOMAIN AccountCode(prog) = ThreadIds /\ AccountCode(prog) = [t \in ThreadIds |-> AccountCode(prog)[t]]
      BY DEF AccountCode
    <3>2. QED
      BY <2>1, <3>1
  <2>2. CASE code = Prog11Code(prog)
    <3>1. Prog11Code(prog) = [t \in ThreadIds |-> Prog11Code(prog)[t]]
      BY DEF Prog11Code
    <3>2. QED
      BY <2>2, <3>1
  <2>3. QED
    BY <1>4, <2>1, <2>2
<1>7. CodeOK
  <2>1. \A t \in ThreadIds : code[t] \in Seq(Instructions) /\ Linked(code[t])
    BY <1>5 DEF Sound
  <2>2. QED
    BY <1>6, <2>1 DEF CodeOK
<1>8. MemoryOK /\ \A cell \in Guarded : mem[cell] = booked[cell]
  BY DEF MachineInit, MemoryOK
<1>9. ASSUME NEW t \in ThreadIds PROVE HolderInside(t) /\ LoadedIsCurrent(t)
  <2>1. code[t] # <<>> => Head(code[t]) = code[t][1]
    BY <1>5 DEF Sound
  <2>2. code[t] # <<>> => ~Inside(Head(code[t])) /\ Head(code[t])[1] # "store"
    BY <1>5, <2>1 DEF Sound
  <2>3. QED
    BY <2>2 DEF HolderInside, LoadedIsCurrent
<1>10. QED
  BY <1>7, <1>8, <1>9 DEF MutexInv

\* Executing an instruction leaves the rest of the code.
LEMMA RestOfCode ==
    ASSUME NEW c \in Seq(Instructions), Linked(c), c # <<>>
    PROVE  /\ Tail(c) \in Seq(Instructions) /\ Linked(Tail(c))
           /\ Head(c) \in Instructions
           /\ Tail(c) # <<>> => Link(Head(c), Head(Tail(c))) /\ Tail(c)[1] = Head(Tail(c))
<1> DEFINE d == Tail(c)
<1>1. /\ d \in Seq(Instructions) /\ Len(c) \in Nat /\ Len(d) = Len(c) - 1 /\ Len(c) >= 1
      /\ Head(c) = c[1] /\ Head(c) \in Instructions
      /\ \A i \in 1 .. Len(d) : d[i] = c[i + 1]
      /\ d # <<>> => Head(d) = d[1] /\ Len(d) >= 1
  OBVIOUS
<1> HIDE DEF d
<1>2. Linked(d)
  <2>1. ASSUME NEW i \in 1 .. Len(d) - 1 PROVE Link(d[i], d[i + 1])
    <3>1. i \in 1 .. Len(d) /\ i + 1 \in 1 .. Len(d) /\ i + 1 \in 1 .. Len(c) - 1
      BY <1>1
    <3>2. d[i] = c[i + 1] /\ d[i + 1] = c[(i + 1) + 1]
      BY <1>1, <3>1
    <3>3. QED
      BY <3>1, <3>2 DEF Linked
  <2>2. QED
    BY <2>1 DEF Linked
<1>3. d # <<>> => Link(Head(c), Head(d))
  <2>1. d # <<>> => 1 \in 1 .. Len(c) - 1 /\ 1 \in 1 .. Len(d)
    BY <1>1
  <2>2. d # <<>> => Head(c) = c[1] /\ Head(d) = c[1 + 1]
    BY <1>1, <2>1
  <2>3. QED
    BY <2>1, <2>2 DEF Linked
<1>4. QED
  BY <1>1, <1>2, <1>3 DEF d

\* An instruction that touches neither the memory nor the mutex.
LEMMA QuietStep ==
    ASSUME MutexInv, NEW t \in ThreadIds, NEW c,
           c \in Seq(Instructions), Linked(c),
           c # <<>> => Link(Head(code[t]), Head(c)),
           code[t] # <<>>, ~IsLock(Head(code[t])), Head(code[t])[1] # "load",
           code' = [code EXCEPT ![t] = c],
           UNCHANGED <<mem, reg, mutex, booked>>
    PROVE  MutexInv'
<1>1. /\ code' \in [ThreadIds -> Seq(Instructions)] /\ code'[t] = c
      /\ \A u \in ThreadIds : u # t => code'[u] = code[u]
  BY DEF MutexInv, CodeOK
<1>2. CodeOK'
  BY <1>1 DEF MutexInv, CodeOK
<1>3. MemoryOK' /\ \A cell \in Guarded : mem'[cell] = booked'[cell]
  BY DEF MutexInv, MemoryOK
<1>4. ASSUME NEW u \in ThreadIds PROVE HolderInside(u)' /\ LoadedIsCurrent(u)'
  <2>1. CASE u = t
    <3>1. HolderInside(t)
      BY DEF MutexInv
    <3>2. QED
      BY <1>1, <2>1, <3>1 DEF HolderInside, LoadedIsCurrent, Link
  <2>2. CASE u # t
    <3>1. HolderInside(u) /\ LoadedIsCurrent(u)
      BY DEF MutexInv
    <3>2. QED
      BY <1>1, <2>2, <3>1 DEF HolderInside, LoadedIsCurrent
  <2>3. QED
    BY <2>1, <2>2
<1>5. QED
  BY <1>2, <1>3, <1>4 DEF MutexInv

\* What all steps to the next instruction have in common.
LEMMA GoneOn ==
    ASSUME MutexInv, NEW t \in ThreadIds, code[t] # <<>>, Go(t)
    PROVE  /\ CodeOK'
           /\ \A u \in ThreadIds : u # t => code'[u] = code[u]
           /\ code' = [code EXCEPT ![t] = Tail(code[t])]
           /\ code'[t] = Tail(code[t])
           /\ Tail(code[t]) \in Seq(Instructions) /\ Linked(Tail(code[t]))
           /\ Head(code[t]) \in Instructions
           /\ Tail(code[t]) # <<>> => Link(Head(code[t]), Head(Tail(code[t])))
<1>1. code[t] \in Seq(Instructions) /\ Linked(code[t])
  BY DEF MutexInv, CodeOK
<1>2. /\ Tail(code[t]) \in Seq(Instructions) /\ Linked(Tail(code[t]))
      /\ Head(code[t]) \in Instructions
      /\ Tail(code[t]) # <<>> => Link(Head(code[t]), Head(Tail(code[t])))
  BY <1>1, RestOfCode
<1>3. /\ code' = [code EXCEPT ![t] = Tail(code[t])]
      /\ code'[t] = Tail(code[t])
      /\ code \in [ThreadIds -> Seq(Instructions)]
      /\ code' \in [ThreadIds -> Seq(Instructions)]
      /\ \A u \in ThreadIds : u # t => code'[u] = code[u]
  BY <1>2 DEF MutexInv, CodeOK, Go
<1>4. CodeOK'
  BY <1>2, <1>3 DEF MutexInv, CodeOK
<1>5. QED
  BY <1>2, <1>3, <1>4

LEMMA LoadKeeps ==
    ASSUME MutexInv, NEW t \in ThreadIds, Load(t)
    PROVE  MutexInv'
<1> DEFINE x == Head(code[t])
           c == Tail(code[t])
<1>1. code[t] # <<>> /\ x[1] = "load" /\ Go(t)
  BY DEF Load, Ready, Ended
<1>2. /\ CodeOK' /\ code'[t] = c /\ \A u \in ThreadIds : u # t => code'[u] = code[u]
      /\ x \in Instructions /\ (c # <<>> => Link(x, Head(c)))
  BY <1>1, GoneOn
<1>3. x[2] \in Cells /\ reg' = [reg EXCEPT ![t] = mem[x[2]]]
      /\ UNCHANGED <<mem, mutex, booked>>
  BY <1>1, <1>2, CalledFunctions DEF Load
<1> HIDE DEF x, c
<1>4. MemoryOK' /\ \A cell \in Guarded : mem'[cell] = booked'[cell]
  BY <1>3 DEF MutexInv, MemoryOK
<1>5. reg'[t] = mem[x[2]] /\ \A u \in ThreadIds : u # t => reg'[u] = reg[u]
  BY <1>3 DEF MutexInv, MemoryOK
<1>6. ASSUME NEW u \in ThreadIds PROVE HolderInside(u)' /\ LoadedIsCurrent(u)'
  <2>1. HolderInside(u) /\ LoadedIsCurrent(u)
    BY DEF MutexInv
  <2>2. CASE u = t
    <3>1. Inside(x) => mutex = t
      BY <1>1, <2>1, <2>2 DEF HolderInside, x
    <3>2. QED
      BY <1>1, <1>2, <1>3, <1>5, <2>2, <3>1 DEF HolderInside, LoadedIsCurrent, Link, IsLock
  <2>3. CASE u # t
    BY <1>2, <1>3, <1>5, <2>1, <2>3 DEF HolderInside, LoadedIsCurrent
  <2>4. QED
    BY <2>2, <2>3
<1>7. QED
  BY <1>2, <1>4, <1>6 DEF MutexInv

LEMMA StoreKeeps ==
    ASSUME MutexInv, NEW t \in ThreadIds, Store(t)
    PROVE  MutexInv'
<1> USE ProgramsAssumption DEF ProgramsAssumption
<1> DEFINE x == Head(code[t])
           c == Tail(code[t])
<1>1. code[t] # <<>> /\ x[1] = "store" /\ Go(t)
  BY DEF Store, Ready, Ended
<1>2. /\ CodeOK' /\ code'[t] = c /\ \A u \in ThreadIds : u # t => code'[u] = code[u]
      /\ x \in Instructions /\ (c # <<>> => Link(x, Head(c)))
  BY <1>1, GoneOn
<1>3. x[2] \in Cells /\ x[3] \in {"deposit", "withdraw", "one"}
  BY <1>1, <1>2, CalledFunctions
<1>4. PICK n \in Amounts(x[3]) : /\ mem' = [mem EXCEPT ![x[2]] = reg[t] + n]
                                 /\ booked' = [booked EXCEPT ![x[2]] = @ + n]
  BY DEF Store
<1>5. reg' = [reg EXCEPT ![t] = 0] /\ UNCHANGED mutex
  BY DEF Store
<1>6. n \in Int
  BY <1>3, <1>4 DEF Amounts
<1>7. Inside(x) => mutex = t /\ reg[t] = mem[x[2]]
  BY <1>1 DEF MutexInv, HolderInside, LoadedIsCurrent, Inside
<1> HIDE DEF x, c
<1>8. Inside(x) <=> x[2] \in Guarded
  BY <1>1 DEF Inside
<1>9. /\ mem' \in [Cells -> Int] /\ booked' \in [Cells -> Int] /\ reg' \in [ThreadIds -> Int]
      /\ mem'[x[2]] = reg[t] + n /\ booked'[x[2]] = booked[x[2]] + n
      /\ \A cell \in Cells : cell # x[2] => mem'[cell] = mem[cell] /\ booked'[cell] = booked[cell]
      /\ \A u \in ThreadIds : u # t => reg'[u] = reg[u]
  BY <1>3, <1>4, <1>5, <1>6 DEF MutexInv, MemoryOK
<1>10. \A cell \in Guarded : mem'[cell] = booked'[cell]
  BY <1>7, <1>8, <1>9 DEF MutexInv, Guarded, Cells
<1>11. ASSUME NEW u \in ThreadIds PROVE HolderInside(u)' /\ LoadedIsCurrent(u)'
  <2>1. HolderInside(u) /\ LoadedIsCurrent(u)
    BY DEF MutexInv
  <2>2. CASE u = t
    <3>1. code'[t] # <<>> => /\ Head(code'[t])[1] # "store"
                             /\ Inside(Head(code'[t])) => mutex' = t
      BY <1>1, <1>2, <1>5, <1>7 DEF Link, IsLock
    <3>2. QED
      BY <2>2, <3>1 DEF HolderInside, LoadedIsCurrent
  <2>3. CASE u # t
    <3>1. code'[u] = code[u] /\ mutex' = mutex /\ reg'[u] = reg[u]
      BY <1>2, <1>5, <1>9, <2>3
    <3>2. HolderInside(u)'
      BY <2>1, <3>1 DEF HolderInside
    <3>3. ASSUME code[u] # <<>>, Head(code[u])[1] = "store", Head(code[u])[2] \in Guarded
          PROVE  mem'[Head(code[u])[2]] = mem[Head(code[u])[2]]
      <4>1. mutex = u
        BY <2>1, <3>3 DEF HolderInside, Inside
      <4>2. x[2] \notin Guarded
        BY <1>7, <1>8, <2>3, <4>1
      <4>3. QED
        BY <1>9, <3>3, <4>2 DEF Guarded, Cells
    <3>4. QED
      BY <2>1, <3>1, <3>2, <3>3 DEF LoadedIsCurrent
  <2>4. QED
    BY <2>2, <2>3
<1>12. QED
  BY <1>2, <1>9, <1>10, <1>11 DEF MutexInv, MemoryOK

LEMMA MutexKeeps ==
    ASSUME MutexInv, NEW t \in ThreadIds, LockMutex(t) \/ UnlockMutex(t)
    PROVE  MutexInv'
<1> DEFINE x == Head(code[t])
           c == Tail(code[t])
<1>1. code[t] # <<>> /\ x[1] = "call" /\ Go(t) /\ UNCHANGED <<mem, reg, booked>>
  BY DEF LockMutex, UnlockMutex, Ready, Ended, Call
<1>2. /\ CodeOK' /\ code'[t] = c /\ \A u \in ThreadIds : u # t => code'[u] = code[u]
      /\ c # <<>> => Link(x, Head(c))
  BY <1>1, GoneOn
<1>3. \/ x = Call("pthread_mutex_lock") /\ mutex = Nobody /\ mutex' = t
      \/ x = Call("pthread_mutex_unlock") /\ mutex' = Nobody
  BY DEF LockMutex, UnlockMutex
<1>4. x = Call("pthread_mutex_unlock") => mutex = t
  BY <1>1 DEF MutexInv, HolderInside, Inside, Call
<1> HIDE DEF x, c
<1>5. MemoryOK' /\ \A cell \in Guarded : mem'[cell] = booked'[cell]
  BY <1>1 DEF MutexInv, MemoryOK
<1>6. ASSUME NEW u \in ThreadIds PROVE HolderInside(u)' /\ LoadedIsCurrent(u)'
  <2>1. HolderInside(u) /\ LoadedIsCurrent(u)
    BY DEF MutexInv
  <2>2. CASE u = t
    <3>1. code'[t] # <<>> => Head(code'[t])[1] # "store"
      BY <1>1, <1>2 DEF Link
    <3>2. CASE x = Call("pthread_mutex_lock") /\ mutex' = t
      BY <2>2, <3>1, <3>2 DEF HolderInside, LoadedIsCurrent
    <3>3. CASE x = Call("pthread_mutex_unlock")
      <4>1. code'[t] # <<>> => ~Inside(Head(code'[t]))
        BY <1>2, <3>3 DEF Link, IsLock, IsUnlock, Call
      <4>2. QED
        BY <2>2, <3>1, <4>1 DEF HolderInside, LoadedIsCurrent
    <3>4. QED
      BY <1>3, <3>2, <3>3
  <2>3. CASE u # t
    <3>1. u # Nobody
      BY DEF ThreadIds, Nobody
    <3>2. mutex # u
      BY <1>3, <1>4, <2>3, <3>1
    <3>3. QED
      BY <1>1, <1>2, <2>1, <2>3, <3>2 DEF HolderInside, LoadedIsCurrent
  <2>4. QED
    BY <2>2, <2>3
<1>7. QED
  BY <1>2, <1>5, <1>6 DEF MutexInv

\* The bodies of __lock_acq and __lock_rel, and of the library's functions.
LEMMA LockBodies ==
    /\ \A f \in {"printf", "sleep"} : Bodies(f) = {<<>>}
    /\ Bodies("__lock_acq") =
          {<< <<"acquired">> >> \o << <<"load", "numLockAcqs">>, <<"store", "numLockAcqs", "one">> >>}
    /\ Bodies("__lock_rel") = {<< <<"released">> >>}
  BY DEF Bodies, Update

LEMMA TripleConcat ==
    ASSUME NEW S, NEW x \in S, NEW y \in S, NEW z \in S
    PROVE  LET c == <<x>> \o <<y, z>>
           IN  c \in Seq(S) /\ Len(c) = 3 /\ c[1] = x /\ c[2] = y /\ c[3] = z
  OBVIOUS

LEMMA CallKeeps ==
    ASSUME MutexInv, NEW t \in ThreadIds, CallFunction(t)
    PROVE  MutexInv'
<1> DEFINE x == Head(code[t])
           rest == Tail(code[t])
<1>1. /\ code[t] # <<>> /\ x[1] = "call" /\ UNCHANGED <<mem, reg, mutex, booked>>
      /\ x[2] \notin {"pthread_mutex_lock", "pthread_mutex_unlock"}
  BY DEF CallFunction, Ready, Ended
<1>2. /\ rest \in Seq(Instructions) /\ Linked(rest) /\ x \in Instructions
      /\ rest # <<>> => Link(x, Head(rest)) /\ rest[1] = Head(rest)
  BY <1>1, RestOfCode DEF MutexInv, CodeOK
<1>3. PICK body \in Bodies(x[2]) : code' = [code EXCEPT ![t] = body \o rest]
  <2>1. \E body \in Bodies(x[2]) : code' = [code EXCEPT ![t] = body \o Tail(@)]
    BY DEF CallFunction
  <2>2. \A body : [code EXCEPT ![t] = body \o Tail(@)] = [code EXCEPT ![t] = body \o rest]
    BY DEF MutexInv, CodeOK
  <2>3. QED
    BY <2>1, <2>2
<1>4. x[2] \in {"printf", "sleep", "__lock_acq", "__lock_rel"}
  BY <1>1, <1>2, CalledFunctions
<1>5. ~IsLock(x) /\ x[1] # "load"
  BY <1>1 DEF IsLock
<1> HIDE DEF x, rest
<1> DEFINE c == body \o rest
<1>6. CASE x[2] \in {"printf", "sleep"}
  <2>1. body = <<>>
    BY <1>3, <1>6, LockBodies
  <2>2. c = rest
    BY <1>2, <2>1
  <2>3. code' = [code EXCEPT ![t] = rest]
    BY <1>3, <2>2
  <2>4. QED
    BY <1>1, <1>2, <1>5, <2>3, QuietStep DEF x
<1>7. CASE x[2] = "__lock_acq"
  <2>1. /\ <<"acquired">> \in Instructions /\ <<"load", "numLockAcqs">> \in Instructions
        /\ <<"store", "numLockAcqs", "one">> \in Instructions
    BY DEF Instructions, Cells
  <2>2. /\ body \in Seq(Instructions) /\ Len(body) = 3
        /\ body[1] = <<"acquired">> /\ body[2] = <<"load", "numLockAcqs">>
        /\ body[3] = <<"store", "numLockAcqs", "one">>
    <3>1. body = << <<"acquired">> >>
                   \o << <<"load", "numLockAcqs">>, <<"store", "numLockAcqs", "one">> >>
      BY <1>3, <1>7, LockBodies
    <3>2. QED
      BY <2>1, <3>1, TripleConcat
  <2>3. Link(body[1], body[2]) /\ Link(body[2], body[3])
    BY <2>2 DEF Link, Inside, Guarded
  <2>4. Linked(body)
    <3>1. \A i \in 1 .. Len(body) - 1 : i = 1 \/ i = 2
      BY <2>2
    <3>2. QED
      BY <2>3, <3>1 DEF Linked
  <2>5. \A y : Link(x, y) => Link(body[3], y)
    BY <1>1, <1>7 DEF Link, IsLock, Inside
  <2>6. Linked(c)
    BY <1>2, <2>2, <2>4, <2>5, LinkedConcat
  <2>7. c \in Seq(Instructions) /\ c # <<>> /\ Head(c) = <<"acquired">>
    <3>1. /\ c \in Seq(Instructions) /\ Len(c) = Len(body) + Len(rest) /\ Len(rest) \in Nat
          /\ \A i \in 1 .. Len(body) : c[i] = body[i]
      <4>1. body \in Seq(Instructions)
        BY <2>2
      <4>2. QED
        BY <1>2, <4>1, ConcatSeq
    <3> HIDE DEF c
    <3>2. QED
      BY <2>2, <3>1
  <2>8. Link(x, Head(c))
    BY <2>7 DEF Link, Inside
  <2>9. QED
    BY <1>1, <1>3, <1>5, <2>6, <2>7, <2>8, QuietStep DEF x
<1>8. CASE x[2] = "__lock_rel"
  <2>1. <<"released">> \in Instructions
    BY DEF Instructions
  <2>2. body \in Seq(Instructions) /\ Len(body) = 1 /\ body[1] = <<"released">>
    <3>1. body = << <<"released">> >>
      BY <1>3, <1>8, LockBodies
    <3>2. QED
      BY <2>1, <3>1
  <2>3. Linked(body)
    BY <2>2 DEF Linked
  <2>4. \A y : Link(x, y) => Link(body[1], y)
    BY <1>1, <2>2 DEF Link, Inside, IsUnlock
  <2>5. Linked(c)
    BY <1>2, <2>2, <2>3, <2>4, LinkedConcat
  <2>6. c \in Seq(Instructions) /\ c # <<>> /\ Head(c) = <<"released">>
    <3>1. /\ c \in Seq(Instructions) /\ Len(c) = Len(body) + Len(rest) /\ Len(rest) \in Nat
          /\ \A i \in 1 .. Len(body) : c[i] = body[i]
      BY <1>2, <2>2, ConcatSeq
    <3> HIDE DEF c
    <3>2. QED
      BY <2>2, <3>1
  <2>7. Link(x, Head(c))
    BY <1>1, <1>8, <2>6 DEF Link, Inside, IsUnlock
  <2>8. QED
    BY <1>1, <1>3, <1>5, <2>5, <2>6, <2>7, QuietStep DEF x
<1>9. QED
  BY <1>4, <1>6, <1>7, <1>8

\* The steps that only go on.
LEMMA OtherStepsKeep ==
    ASSUME MutexInv, NEW t \in ThreadIds,
           Create(t) \/ Join(t) \/ PrintLine(t) \/ PrintBalance(t) \/ Pass(t)
    PROVE  MutexInv'
<1>1. /\ code[t] # <<>> /\ Go(t) /\ UNCHANGED <<mem, reg, mutex, booked>>
      /\ Head(code[t])[1] \notin {"call", "load"}
  BY DEF Create, Join, PrintLine, PrintBalance, Pass, Ready, Ended
<1>2. QED
  BY <1>1, GoneOn, QuietStep DEF IsLock

LEMMA MachineStep == MachineInv /\ [MachineNext]_machineVars => MachineInv'
<1> SUFFICES ASSUME MachineInv, [MachineNext]_machineVars, prog' \in lock_example \cup prog11
             PROVE  MutexInv'
  BY DEF MachineInv
<1>1. prog' = prog
  BY DEF MachineNext, machineVars, Step, Load, Store, LockMutex, UnlockMutex, CallFunction,
         Create, Join, PrintLine, PrintBalance, Pass
<1>2. MutexInv
  BY <1>1 DEF MachineInv
<1>3. CASE UNCHANGED machineVars
  BY <1>2, <1>3 DEF machineVars, MutexInv, CodeOK, MemoryOK, HolderInside, LoadedIsCurrent
<1>4. ASSUME NEW t \in ThreadIds, Step(t) PROVE MutexInv'
  <2>1. CASE Load(t)
    BY <1>2, <2>1, LoadKeeps
  <2>2. CASE Store(t)
    BY <1>2, <2>2, StoreKeeps
  <2>3. CASE LockMutex(t) \/ UnlockMutex(t)
    BY <1>2, <2>3, MutexKeeps
  <2>4. CASE CallFunction(t)
    BY <1>2, <2>4, CallKeeps
  <2>5. CASE Create(t) \/ Join(t) \/ PrintLine(t) \/ PrintBalance(t) \/ Pass(t)
    BY <1>2, <2>5, OtherStepsKeep
  <2>6. QED
    BY <1>4, <2>1, <2>2, <2>3, <2>4, <2>5 DEF Step
<1>5. QED
  BY <1>3, <1>4 DEF MachineNext

\* However many threads and transactions there are, and however their
\* instructions interleave, no update made under the mutex is lost, in
\* lock-example.c and in prog11.c before and after the pass InstrumentLocks.
THEOREM NoUpdateIsLost == MachineSpec => []LockedIsExact
<1>1. MachineInv => LockedIsExact
  BY DEF MachineInv, MutexInv, LockedIsExact, Guarded
<1>2. QED
  BY <1>1, MachineStart, MachineStep, PTL DEF MachineSpec

-----------------------------------------------------------------------------
(* The balance that is printed: which of its stores a program has done.      *)

\* What the code of an account program consists of.
AccountInstructions(p) ==
    {<<"load", "ac_balance">>, <<"store", "ac_balance", "deposit">>,
     <<"store", "ac_balance", "withdraw">>, <<"call", "pthread_mutex_lock">>,
     <<"call", "pthread_mutex_unlock">>, <<"ret">>}
      \cup {<<"create", t>> : t \in 1 .. p.num_threads}
      \cup {<<"join", t>> : t \in 1 .. p.num_threads}

PrintLast == <<"print", "ac_balance">>

\* The instructions of a thread that are behind it.
Passed(t) == Len(AccountCode(prog)[t]) - Len(code[t])

\* Where code moves money this way.
StoresIn(c, how) == {k \in 1 .. Len(c) : c[k] = <<"store", "ac_balance", how>>}

Stores(p, how) ==
    UNION {{t} \X StoresIn(AccountCode(p)[t], how) : t \in ThreadIds}

\* Those that have been executed.
DoneStores(how) == {x \in Stores(prog, how) : x[2] <= Passed(x[1])}

Done(how) == Cardinality(DoneStores(how))

MostDeposited == CHOOSE d \in Deposits : \A e \in Deposits : d >= e
MostWithdrawn == CHOOSE d \in Withdrawals : \A e \in Withdrawals : d >= e

\* What the stores so far can have made of the balance.
Possible(v) ==
    /\ v \in Int
    /\ v <= MostDeposited * Done("deposit")
    /\ v >= -(MostWithdrawn * Done("withdraw"))

RestOK ==
    \A t \in ThreadIds :
        /\ Len(code[t]) <= Len(AccountCode(prog)[t])
        /\ \A k \in 1 .. Len(code[t]) : code[t][k] = AccountCode(prog)[t][Passed(t) + k]

\* main has created and joined the threads it has passed.
ThreadsOK ==
    \A k \in 1 .. Passed(0) :
        LET x == AccountCode(prog)[0][k]
        IN  /\ x[1] = "create" => x[2] \in started
            /\ x[1] = "join" => Ended(x[2])

PrintedOK ==
    IF Ended(0)
    THEN \E v \in Int : Possible(v) /\ log[0] = <<<<"remaining balance", v>>>>
    ELSE log[0] = <<>>

BalanceInv ==
    /\ code \in [ThreadIds -> Seq(AccountInstructions(prog) \cup {PrintLast})]
    /\ mem \in [Cells -> Int] /\ reg \in [ThreadIds -> Int]
    /\ DOMAIN log = ThreadIds
    /\ RestOK
    /\ Possible(mem["ac_balance"]) /\ \A t \in ThreadIds : Possible(reg[t])
    /\ ThreadsOK
    /\ PrintedOK

AccountInv == prog \in AccountPrograms => BalanceInv

-----------------------------------------------------------------------------
(* How often code moves money.                                              *)

Moves(c, how) == Cardinality(StoresIn(c, how))

LEMMA StoresFinite ==
    ASSUME NEW S, NEW c \in Seq(S), NEW how
    PROVE  IsFiniteSet(StoresIn(c, how)) /\ Moves(c, how) \in Nat
<1>1. Len(c) \in Nat /\ StoresIn(c, how) \in SUBSET (1 .. Len(c))
  BY DEF StoresIn
<1>2. IsFiniteSet(1 .. Len(c))
  BY <1>1, FS_Interval
<1>3. QED
  BY <1>1, <1>2, FS_Subset, FS_CardinalityType DEF Moves

LEMMA MovesConcat ==
    ASSUME NEW S, NEW v \in Seq(S), NEW w \in Seq(S), NEW how
    PROVE  Moves(v \o w, how) = Moves(v, how) + Moves(w, how)
<1> DEFINE c == v \o w
           V == StoresIn(v, how)
           W == StoresIn(w, how)
           M == {k \in 1 .. Len(c) : k > Len(v) /\ k \in StoresIn(c, how)}
           f == [k \in W |-> Len(v) + k]
<1>1. /\ Len(v) \in Nat /\ Len(w) \in Nat /\ Len(c) = Len(v) + Len(w)
      /\ \A i \in 1 .. Len(v) : c[i] = v[i]
      /\ \A i \in 1 .. Len(w) : c[Len(v) + i] = w[i]
  BY ConcatSeq
<1> HIDE DEF c
<1>2. /\ IsFiniteSet(V) /\ IsFiniteSet(W)
      /\ Cardinality(V) \in Nat /\ Cardinality(W) \in Nat
  BY StoresFinite DEF Moves
<1>3. V \subseteq 1 .. Len(v) /\ W \subseteq 1 .. Len(w)
  BY DEF StoresIn
<1>4. \A k \in W : Len(v) + k \in M
  <2> SUFFICES ASSUME NEW k \in W PROVE Len(v) + k \in M
    OBVIOUS
  <2>1. k \in 1 .. Len(w) /\ Len(v) + k \in 1 .. Len(c) /\ Len(v) + k > Len(v)
    BY <1>1, <1>3
  <2>2. c[Len(v) + k] = <<"store", "ac_balance", how>>
    BY <1>1, <2>1 DEF StoresIn
  <2>3. QED
    BY <2>1, <2>2 DEF StoresIn
<1>5. \A m \in M : m - Len(v) \in W
  <2> SUFFICES ASSUME NEW m \in M PROVE m - Len(v) \in W
    OBVIOUS
  <2>1. m - Len(v) \in 1 .. Len(w) /\ Len(v) + (m - Len(v)) = m
    BY <1>1
  <2>2. w[m - Len(v)] = <<"store", "ac_balance", how>>
    BY <1>1, <2>1 DEF StoresIn
  <2>3. QED
    BY <2>1, <2>2 DEF StoresIn
<1>6. f \in Bijection(W, M)
  <2>1. f \in [W -> M]
    BY <1>4
  <2>2. \A x, y \in W : f[x] = f[y] => x = y
    BY <1>1, <1>3
  <2>3. \A m \in M : \E k \in W : f[k] = m
    <3>1. \A m \in M : f[m - Len(v)] = m
      BY <1>1, <1>5
    <3>2. QED
      BY <1>5, <3>1
  <2> HIDE DEF f, M, W
  <2>4. QED
    BY <2>1, <2>2, <2>3 DEF Bijection, Injection, Surjection, IsInjective
<1>7. IsFiniteSet(M) /\ Cardinality(M) = Cardinality(W)
  <2> HIDE DEF f, M, W
  <2>1. ExistsBijection(W, M)
    BY <1>6 DEF ExistsBijection
  <2>2. QED
    BY <1>2, <2>1, FS_Bijection
<1>8. StoresIn(c, how) = V \cup M /\ V \cap M = {}
  <2>1. V \cap M = {}
    BY <1>1, <1>3
  <2>2. ASSUME NEW k \in StoresIn(c, how), k \notin M PROVE k \in V
    BY <1>1, <2>2 DEF StoresIn
  <2>3. ASSUME NEW k \in V PROVE k \in StoresIn(c, how)
    BY <1>1, <2>3 DEF StoresIn
  <2>4. QED
    BY <2>1, <2>2, <2>3
<1>9. Cardinality(V \cup M) = Cardinality(V) + Cardinality(M)
  <2> HIDE DEF V, M
  <2>1. Cardinality(V \cup M) = Cardinality(V) + Cardinality(M) - Cardinality(V \cap M)
    BY <1>2, <1>7, FS_Union
  <2>2. Cardinality(V \cap M) = 0
    BY <1>8, FS_EmptySet
  <2>3. QED
    BY <1>2, <1>7, <2>1, <2>2
<1>10. Cardinality(StoresIn(c, how)) = Cardinality(V) + Cardinality(W)
  <2> HIDE DEF V, W, M
  <2>1. QED
    BY <1>7, <1>8, <1>9
<1>11. QED
  BY <1>10 DEF Moves, c

LEMMA MovesNothing == \A how : Moves(<<>>, how) = 0
<1>1. \A how : StoresIn(<<>>, how) = {}
  BY DEF StoresIn
<1>2. QED
  BY <1>1, FS_EmptySet DEF Moves

\* A loop that moves money once in each round, or never.
LEMMA MovesTimes ==
    ASSUME NEW S, NEW n \in Nat, NEW s \in Seq(S), NEW how, NEW m \in {0, 1},
           Moves(s, how) = m
    PROVE  /\ Times(n, s) \in Seq(S)
           /\ Moves(Times(n, s), how) = IF m = 1 THEN n ELSE 0
<1> DEFINE seqs == [i \in 1 .. n |-> s]
<1>1. seqs \in [1 .. n -> Seq(S)]
  OBVIOUS
<1>2. PICK h \in [0 .. n -> Seq(S)] :
              /\ h[0] = <<>>
              /\ \A i \in 1 .. n : h[i] = h[i - 1] \o seqs[i]
              /\ FlattenSeq(seqs) = h[n]
  <2> HIDE DEF seqs
  <2>1. QED
    BY <1>1, FlattenSteps
<1> DEFINE I == {i \in 0 .. n : Moves(h[i], how) = IF m = 1 THEN i ELSE 0}
<1>3. 0 \in I
  BY <1>2, MovesNothing
<1>4. ASSUME NEW i \in 0 .. n - 1, i \in I PROVE i + 1 \in I
  <2>1. i + 1 \in 1 .. n /\ (i + 1) - 1 = i
    OBVIOUS
  <2>2. h[i + 1] = h[i] \o s /\ h[i] \in Seq(S)
    <3>1. h[i + 1] = h[(i + 1) - 1] \o seqs[i + 1] /\ h[i] \in Seq(S)
      <4>1. i \in 0 .. n
        OBVIOUS
      <4> HIDE DEF seqs
      <4>2. QED
        BY <1>2, <2>1, <4>1
    <3>2. seqs[i + 1] = s
      BY <2>1
    <3> HIDE DEF seqs
    <3>3. QED
      BY <2>1, <3>1, <3>2
  <2>3. Moves(h[i + 1], how) = Moves(h[i], how) + m
    BY <2>2, MovesConcat
  <2>4. Moves(h[i + 1], how) = IF m = 1 THEN i + 1 ELSE 0
    BY <1>4, <2>3
  <2>5. QED
    BY <2>1, <2>4
<1> HIDE DEF I
<1>5. 0 .. n \subseteq I
  BY <1>3, <1>4, PrefixInduction
<1>6. Moves(h[n], how) = IF m = 1 THEN n ELSE 0
  BY <1>5 DEF I
<1>7. QED
  BY <1>2, <1>6 DEF Times

\* Code without such a store.
LEMMA MovesNever ==
    ASSUME NEW S, NEW c \in Seq(S), NEW how,
           \A i \in 1 .. Len(c) : c[i] # <<"store", "ac_balance", how>>
    PROVE  Moves(c, how) = 0
<1>1. StoresIn(c, how) = {}
  BY DEF StoresIn
<1>2. QED
  BY <1>1, FS_EmptySet DEF Moves

-----------------------------------------------------------------------------
(* The code of the account programs.                                        *)

LEMMA AccountTypes ==
    ASSUME NEW p \in AccountPrograms
    PROVE  /\ p.num_threads \in 1 .. MaxThreads /\ p.num_threads \in Nat
           /\ p.both \in BOOLEAN /\ p.locked \in BOOLEAN
           /\ p.both => p.num_threads % 2 = 0
           /\ num_transactions(p) \in Nat /\ residue(p) \in Nat
<1> USE ProgramsAssumption DEF ProgramsAssumption
<1>1. \E f, l, b : p \in Account(f, l, b) /\ b \in BOOLEAN /\ l \in BOOLEAN
  BY DEF AccountPrograms, lock_example, thread_example, thread_example_2
<1>2. /\ p.num_threads \in 1 .. MaxThreads /\ p.transactions \in 1 .. MaxTransactions
      /\ p.both \in BOOLEAN /\ p.locked \in BOOLEAN
      /\ p.both => p.num_threads % 2 = 0
  BY <1>1 DEF Account
<1>3. p.num_threads \in Nat /\ p.num_threads >= 1 /\ p.transactions \in Nat
  BY <1>2
<1>4. num_transactions(p) \in Nat
  BY <1>3 DEF num_transactions
<1>5. num_transactions(p) % p.num_threads \in Nat
  BY <1>3, <1>4
<1>6. QED
  BY <1>2, <1>3, <1>4, <1>5 DEF residue

LEMMA TransactionCode ==
    ASSUME NEW p, p.locked \in BOOLEAN, NEW how \in {"deposit", "withdraw"}
    PROVE  /\ Transaction(p, how) \in Seq(AccountInstructions(p))
           /\ \A h \in {"deposit", "withdraw"} :
                 Moves(Transaction(p, how), h) = IF h = how THEN 1 ELSE 0
<1> DEFINE S == AccountInstructions(p)
           u == Update("ac_balance", how)
           lock == <<Call("pthread_mutex_lock")>>
           unlock == <<Call("pthread_mutex_unlock")>>
<1>1. /\ <<"load", "ac_balance">> \in S /\ <<"store", "ac_balance", how>> \in S
      /\ Call("pthread_mutex_lock") \in S /\ Call("pthread_mutex_unlock") \in S
  BY DEF AccountInstructions, Call
<1> HIDE DEF S
<1>2. /\ u \in Seq(S) /\ Len(u) = 2 /\ u[1] = <<"load", "ac_balance">>
      /\ u[2] = <<"store", "ac_balance", how>>
  BY <1>1 DEF Update
<1>3. /\ lock \in Seq(S) /\ Len(lock) = 1 /\ lock[1] = <<"call", "pthread_mutex_lock">>
      /\ unlock \in Seq(S) /\ Len(unlock) = 1 /\ unlock[1] = <<"call", "pthread_mutex_unlock">>
  BY <1>1 DEF Call
<1> HIDE DEF u, lock, unlock
<1>4. \A h : Moves(lock, h) = 0 /\ Moves(unlock, h) = 0
  <2>1. \A h : <<"call", "pthread_mutex_lock">> # <<"store", "ac_balance", h>>
            /\ <<"call", "pthread_mutex_unlock">> # <<"store", "ac_balance", h>>
    OBVIOUS
  <2>2. \A h : \A i \in 1 .. Len(lock) : lock[i] # <<"store", "ac_balance", h>>
    BY <1>3, <2>1
  <2>3. \A h : \A i \in 1 .. Len(unlock) : unlock[i] # <<"store", "ac_balance", h>>
    BY <1>3, <2>1
  <2>4. QED
    BY <1>3, <2>2, <2>3, MovesNever
<1>5. ASSUME NEW h \in {"deposit", "withdraw"}
      PROVE  Moves(u, h) = IF h = how THEN 1 ELSE 0
  <2>1. CASE h = how
    <3>1. StoresIn(u, h) = {2}
      BY <1>2, <2>1 DEF StoresIn
    <3>2. QED
      BY <2>1, <3>1, FS_Singleton DEF Moves
  <2>2. CASE h # how
    <3>1. \A i \in 1 .. Len(u) : u[i] # <<"store", "ac_balance", h>>
      BY <1>2, <2>2
    <3>2. QED
      BY <1>2, <2>2, <3>1, MovesNever
  <2>3. QED
    BY <2>1, <2>2
<1>6. CASE p.locked
  <2>1. Transaction(p, how) = (lock \o u) \o unlock
    BY <1>6 DEF Transaction, Locked, u, lock, unlock
  <2>2. lock \o u \in Seq(S) /\ (lock \o u) \o unlock \in Seq(S)
    BY <1>2, <1>3
  <2>3. \A h : /\ Moves(lock \o u, h) = Moves(lock, h) + Moves(u, h)
               /\ Moves((lock \o u) \o unlock, h) = Moves(lock \o u, h) + Moves(unlock, h)
    BY <1>2, <1>3, <2>2, MovesConcat
  <2>4. QED
    BY <1>4, <1>5, <2>1, <2>2, <2>3 DEF S
<1>7. CASE ~p.locked
  <2>1. Transaction(p, how) = u
    BY <1>7 DEF Transaction, u
  <2>2. QED
    BY <1>2, <1>5, <2>1 DEF S
<1>8. QED
  BY <1>6, <1>7

Occurs(x, c) == \E k \in 1 .. Len(c) : c[k] = x

LEMMA OccursConcat ==
    ASSUME NEW S, NEW v \in Seq(S), NEW w \in Seq(S), NEW x, Occurs(x, v) \/ Occurs(x, w)
    PROVE  Occurs(x, v \o w)
<1>1. /\ Len(v) \in Nat /\ Len(w) \in Nat /\ Len(v \o w) = Len(v) + Len(w)
      /\ \A i \in 1 .. Len(v) : (v \o w)[i] = v[i]
      /\ \A i \in 1 .. Len(w) : (v \o w)[Len(v) + i] = w[i]
  BY ConcatSeq
<1>2. CASE Occurs(x, v)
  <2>1. PICK k \in 1 .. Len(v) : v[k] = x
    BY <1>2 DEF Occurs
  <2>2. k \in 1 .. Len(v \o w) /\ (v \o w)[k] = x
    BY <1>1, <2>1
  <2>3. QED
    BY <2>2 DEF Occurs
<1>3. CASE Occurs(x, w)
  <2>1. PICK k \in 1 .. Len(w) : w[k] = x
    BY <1>3 DEF Occurs
  <2>2. Len(v) + k \in 1 .. Len(v \o w) /\ (v \o w)[Len(v) + k] = x
    BY <1>1, <2>1
  <2>3. QED
    BY <2>2 DEF Occurs
<1>4. QED
  BY <1>2, <1>3

\* How often main and the threads move money.
MainMoves(p, how) == IF how = "deposit" \/ p.both THEN residue(p) ELSE 0

Movers(p, how) ==
    {t \in 1 .. p.num_threads : (p.both /\ t % 2 = 0) <=> how = "withdraw"}

LEMMA ThreadCode ==
    ASSUME NEW p \in AccountPrograms, NEW how \in {"deposit", "withdraw"}
    PROVE  LET c == Times(num_transactions(p), Transaction(p, how)) \o <<<<"ret">>>>
           IN  /\ c \in Seq(AccountInstructions(p))
               /\ \A h \in {"deposit", "withdraw"} :
                     Moves(c, h) = IF h = how THEN num_transactions(p) ELSE 0
<1> DEFINE S == AccountInstructions(p)
           ret == <<<<"ret">>>>
           rounds == Times(num_transactions(p), Transaction(p, how))
<1>1. <<"ret">> \in S
  BY DEF AccountInstructions
<1>2. p.locked \in BOOLEAN /\ num_transactions(p) \in Nat
  BY AccountTypes
<1>3. /\ Transaction(p, how) \in Seq(S)
      /\ \A h \in {"deposit", "withdraw"} :
            Moves(Transaction(p, how), h) = IF h = how THEN 1 ELSE 0
  BY <1>2, TransactionCode
<1> HIDE DEF S
<1>4. ASSUME NEW h \in {"deposit", "withdraw"}
      PROVE  rounds \in Seq(S) /\ Moves(rounds, h) = IF h = how THEN num_transactions(p) ELSE 0
  <2> DEFINE m == IF h = how THEN 1 ELSE 0
  <2>1. m \in {0, 1} /\ (m = 1 <=> h = how) /\ Moves(Transaction(p, how), h) = m
    BY <1>3
  <2> HIDE DEF m
  <2>2. /\ Times(num_transactions(p), Transaction(p, how)) \in Seq(S)
        /\ Moves(Times(num_transactions(p), Transaction(p, how)), h) =
              IF m = 1 THEN num_transactions(p) ELSE 0
    BY <1>2, <1>3, <2>1, MovesTimes
  <2>3. QED
    BY <2>1, <2>2
<1>5. ret \in Seq(S) /\ \A h : Moves(ret, h) = 0
  <2>1. ret \in Seq(S) /\ Len(ret) = 1 /\ ret[1] = <<"ret">>
    BY <1>1
  <2>2. \A h : \A i \in 1 .. Len(ret) : ret[i] # <<"store", "ac_balance", h>>
    BY <2>1
  <2>3. QED
    BY <2>1, <2>2, MovesNever
<1> HIDE DEF rounds, ret
<1>6. rounds \o ret \in Seq(S) /\ \A h : Moves(rounds \o ret, h) = Moves(rounds, h) + Moves(ret, h)
  BY <1>4, <1>5, MovesConcat
<1>7. \A h \in {"deposit", "withdraw"} :
         Moves(rounds \o ret, h) = IF h = how THEN num_transactions(p) ELSE 0
  BY <1>2, <1>4, <1>5, <1>6
<1>8. QED
  BY <1>6, <1>7 DEF S, rounds, ret

LEMMA MainCode ==
    ASSUME NEW p \in AccountPrograms
    PROVE  LET c == AccountCode(p)[0]
           IN  /\ \E d \in Seq(AccountInstructions(p)) : c = d \o <<PrintLast>>
               /\ \A t \in 1 .. p.num_threads :
                     Occurs(<<"create", t>>, c) /\ Occurs(<<"join", t>>, c)
               /\ \A h \in {"deposit", "withdraw"} : Moves(c, h) = MainMoves(p, h)
<1> DEFINE S == AccountInstructions(p)
           S1 == S \cup {PrintLast}
           ids == 1 .. p.num_threads
           creates == [t \in ids |-> <<"create", t>>]
           joins == [t \in ids |-> <<"join", t>>]
           dep == Times(residue(p), Transaction(p, "deposit"))
           wit == Times(residue(p), Transaction(p, "withdraw"))
           w == When(p.both, wit)
           print == <<PrintLast>>
<1>1. /\ p.num_threads \in Nat /\ p.locked \in BOOLEAN /\ p.both \in BOOLEAN
      /\ residue(p) \in Nat
  BY AccountTypes
<1>2. AccountCode(p)[0] = (((creates \o dep) \o w) \o joins) \o print
  <2>1. 0 \in ThreadIds
    BY ProgramsAssumption DEF ProgramsAssumption, ThreadIds
  <2>2. QED
    BY <2>1 DEF AccountCode, PrintLast
<1>3. ASSUME NEW op \in {"create", "join"}
      PROVE  LET c == [t \in ids |-> <<op, t>>]
             IN  /\ c \in Seq(S)
                 /\ \A t \in ids : Occurs(<<op, t>>, c)
                 /\ \A h : Moves(c, h) = 0
  <2> DEFINE c == [t \in ids |-> <<op, t>>]
  <2>1. \A t \in ids : <<op, t>> \in S
    BY DEF AccountInstructions
  <2>2. c \in Seq(S) /\ Len(c) = p.num_threads /\ \A t \in ids : c[t] = <<op, t>>
    BY <1>1, <2>1
  <2> HIDE DEF c
  <2>3. \A t \in ids : Occurs(<<op, t>>, c)
    BY <2>2 DEF Occurs
  <2>4. \A h : \A t \in 1 .. Len(c) : c[t] # <<"store", "ac_balance", h>>
    BY <2>2
  <2>5. \A h : Moves(c, h) = 0
    BY <2>2, <2>4, MovesNever
  <2>6. QED
    BY <2>2, <2>3, <2>5 DEF c
<1>4. ASSUME NEW how \in {"deposit", "withdraw"}
      PROVE  LET c == Times(residue(p), Transaction(p, how))
             IN  /\ c \in Seq(S)
                 /\ \A h \in {"deposit", "withdraw"} :
                       Moves(c, h) = IF h = how THEN residue(p) ELSE 0
  <2>1. /\ Transaction(p, how) \in Seq(S)
        /\ \A h \in {"deposit", "withdraw"} :
              Moves(Transaction(p, how), h) = IF h = how THEN 1 ELSE 0
    BY <1>1, TransactionCode
  <2> HIDE DEF S
  <2>2. ASSUME NEW h \in {"deposit", "withdraw"}
        PROVE  /\ Times(residue(p), Transaction(p, how)) \in Seq(S)
               /\ Moves(Times(residue(p), Transaction(p, how)), h) =
                     IF h = how THEN residue(p) ELSE 0
    <3> DEFINE m == IF h = how THEN 1 ELSE 0
    <3>1. m \in {0, 1} /\ (m = 1 <=> h = how) /\ Moves(Transaction(p, how), h) = m
      BY <2>1
    <3> HIDE DEF m
    <3>2. /\ Times(residue(p), Transaction(p, how)) \in Seq(S)
          /\ Moves(Times(residue(p), Transaction(p, how)), h) =
                IF m = 1 THEN residue(p) ELSE 0
      BY <1>1, <2>1, <3>1, MovesTimes
    <3>3. QED
      BY <3>1, <3>2
  <2>3. QED
    BY <2>2
<1>5. /\ creates \in Seq(S) /\ joins \in Seq(S)
      /\ \A t \in ids : Occurs(<<"create", t>>, creates) /\ Occurs(<<"join", t>>, joins)
      /\ \A h : Moves(creates, h) = 0 /\ Moves(joins, h) = 0
  BY <1>3
<1>6. /\ dep \in Seq(S) /\ wit \in Seq(S)
      /\ Moves(dep, "deposit") = residue(p) /\ Moves(dep, "withdraw") = 0
      /\ Moves(wit, "withdraw") = residue(p) /\ Moves(wit, "deposit") = 0
  <2> HIDE DEF S
  <2>1. QED
    BY <1>4
<1> HIDE DEF S, creates, joins, dep, wit
<1>7. /\ w \in Seq(S) /\ Moves(w, "deposit") = 0
      /\ Moves(w, "withdraw") = IF p.both THEN residue(p) ELSE 0
  BY <1>1, <1>6, MovesNothing DEF When
<1>8. print \in Seq(S1) /\ \A h : Moves(print, h) = 0
  <2>1. print \in Seq(S1) /\ Len(print) = 1 /\ print[1] = <<"print", "ac_balance">>
    BY DEF PrintLast
  <2>2. \A h : \A i \in 1 .. Len(print) : print[i] # <<"store", "ac_balance", h>>
    BY <2>1
  <2>3. QED
    BY <2>1, <2>2, MovesNever
<1> HIDE DEF w, print
<1>9. /\ creates \o dep \in Seq(S)
      /\ \A h : Moves(creates \o dep, h) = Moves(creates, h) + Moves(dep, h)
      /\ \A t \in ids : Occurs(<<"create", t>>, creates \o dep)
  <2>1. creates \o dep \in Seq(S)
    BY <1>5, <1>6
  <2>2. \A h : Moves(creates \o dep, h) = Moves(creates, h) + Moves(dep, h)
    BY <1>5, <1>6, MovesConcat
  <2>3. \A t \in ids : Occurs(<<"create", t>>, creates \o dep)
    BY <1>5, <1>6, OccursConcat
  <2>4. QED
    BY <2>1, <2>2, <2>3
<1> DEFINE c1 == creates \o dep
           c2 == c1 \o w
           c3 == c2 \o joins
           c4 == c3 \o print
<1> HIDE DEF c1
<1>10. /\ c2 \in Seq(S)
       /\ \A h : Moves(c2, h) = Moves(c1, h) + Moves(w, h)
       /\ \A t \in ids : Occurs(<<"create", t>>, c2)
  <2>1. /\ c1 \in Seq(S) /\ w \in Seq(S)
        /\ \A t \in ids : Occurs(<<"create", t>>, c1)
    BY <1>7, <1>9 DEF c1
  <2>2. c2 \in Seq(S)
    BY <2>1
  <2>3. \A h : Moves(c2, h) = Moves(c1, h) + Moves(w, h)
    BY <2>1, MovesConcat
  <2>4. \A t \in ids : Occurs(<<"create", t>>, c2)
    BY <2>1, OccursConcat
  <2>5. QED
    BY <2>2, <2>3, <2>4
<1> HIDE DEF c2
<1>11. /\ c3 \in Seq(S)
       /\ \A h : Moves(c3, h) = Moves(c2, h) + Moves(joins, h)
       /\ \A t \in ids : Occurs(<<"create", t>>, c3) /\ Occurs(<<"join", t>>, c3)
  BY <1>5, <1>10, MovesConcat, OccursConcat
<1> HIDE DEF c3
<1>12. c3 \in Seq(S1)
  BY <1>11
<1> HIDE DEF S1
<1>13. /\ \A h : Moves(c4, h) = Moves(c3, h) + Moves(print, h)
       /\ \A t \in ids : Occurs(<<"create", t>>, c4) /\ Occurs(<<"join", t>>, c4)
  BY <1>8, <1>11, <1>12, MovesConcat, OccursConcat
<1> HIDE DEF c4
<1>14. Moves(c4, "deposit") = residue(p)
  BY <1>1, <1>5, <1>6, <1>7, <1>8, <1>9, <1>10, <1>11, <1>13 DEF c1
<1>15. Moves(c4, "withdraw") = IF p.both THEN residue(p) ELSE 0
  BY <1>1, <1>5, <1>6, <1>7, <1>8, <1>9, <1>10, <1>11, <1>13 DEF c1
<1>16. AccountCode(p)[0] = c4
  BY <1>2 DEF c1, c2, c3, c4
<1>17. \E d \in Seq(AccountInstructions(p)) : c4 = d \o <<PrintLast>>
  BY <1>11 DEF c4, print, S
<1>18. QED
  BY <1>13, <1>14, <1>15, <1>16, <1>17 DEF MainMoves

\* The code of all threads.
LEMMA CodeOfAccounts ==
    ASSUME NEW p \in AccountPrograms
    PROVE  /\ DOMAIN AccountCode(p) = ThreadIds
           /\ \A t \in ThreadIds : AccountCode(p)[t] \in Seq(AccountInstructions(p) \cup {PrintLast})
           /\ \A t \in ThreadIds \ {0} : AccountCode(p)[t] \in Seq(AccountInstructions(p))
           /\ \A h \in {"deposit", "withdraw"} :
                 /\ Movers(p, h) \subseteq ThreadIds \ {0}
                 /\ \A t \in Movers(p, h) :
                       AccountCode(p)[t] = Times(num_transactions(p), Transaction(p, h)) \o <<<<"ret">>>>
                 /\ \A t \in ThreadIds \ ({0} \cup Movers(p, h)) : StoresIn(AccountCode(p)[t], h) = {}
<1> DEFINE S == AccountInstructions(p)
           C(how) == Times(num_transactions(p), Transaction(p, how)) \o <<<<"ret">>>>
<1>1. /\ p.num_threads \in 1 .. MaxThreads /\ p.num_threads \in Nat
      /\ p.both \in BOOLEAN /\ num_transactions(p) \in Nat
  BY AccountTypes
<1>2. \A how \in {"deposit", "withdraw"} :
         /\ C(how) \in Seq(S)
         /\ \A h \in {"deposit", "withdraw"} : h # how => Moves(C(how), h) = 0
  BY ThreadCode
<1>3. do_deposit(p) = C("deposit") /\ do_withdraw(p) = C("withdraw")
  BY DEF do_deposit, do_withdraw
<1> HIDE DEF C, S
<1>4. \A t \in ThreadIds \ {0} :
         AccountCode(p)[t] = IF t \notin 1 .. p.num_threads THEN <<>>
                             ELSE IF p.both /\ t % 2 = 0 THEN C("withdraw") ELSE C("deposit")
  BY <1>3 DEF AccountCode
<1>5. \A t \in ThreadIds \ {0} : AccountCode(p)[t] \in Seq(S)
  <2>1. <<>> \in Seq(S) /\ C("withdraw") \in Seq(S) /\ C("deposit") \in Seq(S)
    BY <1>2
  <2>2. QED
    BY <1>4, <2>1
<1>6. AccountCode(p)[0] \in Seq(S \cup {PrintLast})
  <2>1. PICK d \in Seq(S) : AccountCode(p)[0] = d \o <<PrintLast>>
    BY MainCode DEF S
  <2>2. QED
    BY <2>1
<1>7. \A t \in ThreadIds : AccountCode(p)[t] \in Seq(S \cup {PrintLast})
  BY <1>5, <1>6
<1>8. ASSUME NEW h \in {"deposit", "withdraw"}
      PROVE  /\ Movers(p, h) \subseteq ThreadIds \ {0}
             /\ \A t \in Movers(p, h) : AccountCode(p)[t] = C(h)
             /\ \A t \in ThreadIds \ ({0} \cup Movers(p, h)) :
                   StoresIn(AccountCode(p)[t], h) = {}
  <2>1. Movers(p, h) \subseteq ThreadIds \ {0}
    BY <1>1, ProgramsAssumption DEF ProgramsAssumption, Movers, ThreadIds
  <2>2. \A t \in Movers(p, h) : AccountCode(p)[t] = C(h)
    BY <1>4, <2>1 DEF Movers
  <2>3. \A how \in {"deposit", "withdraw"} : h # how => StoresIn(C(how), h) = {}
    <3>1. \A how \in {"deposit", "withdraw"} : IsFiniteSet(StoresIn(C(how), h))
      BY <1>2, StoresFinite
    <3>2. QED
      BY <1>2, <3>1, FS_EmptySet DEF Moves
  <2>4. StoresIn(<<>>, h) = {}
    BY DEF StoresIn
  <2>5. ASSUME NEW t \in ThreadIds \ ({0} \cup Movers(p, h))
        PROVE  AccountCode(p)[t] = <<>> \/ \E how \in {"deposit", "withdraw"} :
                   h # how /\ AccountCode(p)[t] = C(how)
    BY <1>1, <1>4, <2>5 DEF Movers
  <2>6. QED
    BY <2>1, <2>2, <2>3, <2>4, <2>5
<1>9. DOMAIN AccountCode(p) = ThreadIds
  BY DEF AccountCode
<1>10. QED
  BY <1>5, <1>7, <1>8, <1>9 DEF S, C

Half(p) == IF p.both THEN p.num_threads \div 2 ELSE p.num_threads

\* Half of the threads move money one way, if some move it the other way.
LEMMA HalfOfThreads ==
    ASSUME NEW p \in AccountPrograms, NEW h \in {"deposit", "withdraw"}
    PROVE  /\ IsFiniteSet(Movers(p, h)) /\ Half(p) \in Nat
           /\ Cardinality(Movers(p, h)) = IF h = "deposit" \/ p.both THEN Half(p) ELSE 0
<1> DEFINE n == p.num_threads
           m == n \div 2
<1>1. n \in Nat /\ p.both \in BOOLEAN /\ (p.both => n % 2 = 0)
  BY AccountTypes
<1> HIDE DEF n
<1>2. Half(p) \in Nat
  BY <1>1 DEF Half, n
<1>3. CASE p.both
  <2> DEFINE d == IF h = "deposit" THEN 1 ELSE 0
             f == [k \in 1 .. m |-> 2 * k - d]
  <2>1. n = 2 * m /\ m \in Nat /\ d \in {0, 1} /\ (d = 1 <=> h = "deposit")
    BY <1>1, <1>3
  <2>2. Movers(p, h) = {t \in 1 .. n : t % 2 = d}
    BY <1>3 DEF Movers, n
  <2> HIDE DEF d, m
  <2>3. \A k \in 1 .. m : 2 * k - d \in 1 .. n /\ (2 * k - d) % 2 = d
    BY <2>1
  <2>4. \A t \in 1 .. n : t % 2 = d => (t + d) \div 2 \in 1 .. m /\ 2 * ((t + d) \div 2) - d = t
    BY <2>1
  <2>5. f \in Bijection(1 .. m, Movers(p, h))
    <3>1. f \in [1 .. m -> Movers(p, h)]
      BY <2>2, <2>3
    <3>2. \A x, y \in 1 .. m : f[x] = f[y] => x = y
      BY <2>1
    <3>3. \A t \in Movers(p, h) : \E k \in 1 .. m : f[k] = t
      BY <2>2, <2>4
    <3> HIDE DEF f
    <3>4. QED
      BY <3>1, <3>2, <3>3 DEF Bijection, Injection, Surjection, IsInjective
  <2>6. IsFiniteSet(1 .. m) /\ Cardinality(1 .. m) = m
    BY <2>1, FS_Interval
  <2>7. IsFiniteSet(Movers(p, h)) /\ Cardinality(Movers(p, h)) = m
    BY <2>5, <2>6, FS_Bijection DEF ExistsBijection
  <2>8. QED
    BY <1>2, <1>3, <2>7 DEF Half, m, n
<1>4. CASE ~p.both
  <2>1. Movers(p, h) = IF h = "deposit" THEN 1 .. n ELSE {}
    BY <1>4 DEF Movers, n
  <2>2. IsFiniteSet(1 .. n) /\ Cardinality(1 .. n) = n
    BY <1>1, FS_Interval
  <2>3. QED
    BY <1>2, <1>4, <2>1, <2>2, FS_EmptySet DEF Half, n
<1>5. QED
  BY <1>3, <1>4

\* How often a program moves money this way.
Total(p, h) ==
    IF h = "deposit" \/ p.both THEN Half(p) * num_transactions(p) + residue(p) ELSE 0

LEMMA StoresTotal ==
    ASSUME NEW p \in AccountPrograms, NEW h \in {"deposit", "withdraw"}
    PROVE  /\ IsFiniteSet(Stores(p, h))
           /\ Cardinality(Stores(p, h)) = Total(p, h)
           /\ Total(p, h) \in Nat
<1> DEFINE T == Movers(p, h)
           c == Times(num_transactions(p), Transaction(p, h)) \o <<<<"ret">>>>
           K == StoresIn(c, h)
           K0 == StoresIn(AccountCode(p)[0], h)
<1>1. /\ IsFiniteSet(T) /\ Half(p) \in Nat
      /\ Cardinality(T) = IF h = "deposit" \/ p.both THEN Half(p) ELSE 0
  BY HalfOfThreads
<1>2. /\ T \subseteq ThreadIds \ {0} /\ 0 \in ThreadIds
      /\ \A t \in T : StoresIn(AccountCode(p)[t], h) = K
      /\ \A t \in ThreadIds \ ({0} \cup T) : StoresIn(AccountCode(p)[t], h) = {}
      /\ AccountCode(p)[0] \in Seq(AccountInstructions(p) \cup {PrintLast})
  <2>1. 0 \in ThreadIds
    BY ProgramsAssumption DEF ProgramsAssumption, ThreadIds
  <2>2. /\ T \subseteq ThreadIds \ {0}
        /\ \A t \in T : AccountCode(p)[t] = c
        /\ \A t \in ThreadIds \ ({0} \cup T) : StoresIn(AccountCode(p)[t], h) = {}
    BY CodeOfAccounts
  <2>3. AccountCode(p)[0] \in Seq(AccountInstructions(p) \cup {PrintLast})
    BY <2>1, CodeOfAccounts
  <2> HIDE DEF T, c
  <2>4. QED
    BY <2>1, <2>2, <2>3
<1>3. num_transactions(p) \in Nat /\ residue(p) \in Nat /\ p.both \in BOOLEAN
  BY AccountTypes
<1>4. IsFiniteSet(K) /\ Cardinality(K) = num_transactions(p)
  <2>1. c \in Seq(AccountInstructions(p)) /\ Moves(c, h) = num_transactions(p)
    BY ThreadCode
  <2>2. QED
    BY <2>1, StoresFinite DEF Moves
<1>5. IsFiniteSet(K0) /\ Cardinality(K0) = MainMoves(p, h)
  BY <1>2, MainCode, StoresFinite DEF Moves
<1> HIDE DEF T, K, K0, c
<1>6. Stores(p, h) = (T \X K) \cup ({0} \X K0)
  <2>1. \A t \in ThreadIds :
           StoresIn(AccountCode(p)[t], h) = IF t = 0 THEN K0 ELSE IF t \in T THEN K ELSE {}
    BY <1>2 DEF K0
  <2>2. Stores(p, h) = UNION {{t} \X (IF t = 0 THEN K0 ELSE IF t \in T THEN K ELSE {}) : t \in ThreadIds}
    BY <2>1 DEF Stores
  <2>3. QED
    BY <1>2, <2>2
<1>7. (T \X K) \cap ({0} \X K0) = {}
  BY <1>2
<1>8. /\ IsFiniteSet(T \X K) /\ Cardinality(T \X K) = Cardinality(T) * num_transactions(p)
      /\ IsFiniteSet({0} \X K0) /\ Cardinality({0} \X K0) = MainMoves(p, h)
  <2>1. IsFiniteSet({0}) /\ Cardinality({0}) = 1
    BY FS_Singleton
  <2>2. IsFiniteSet({0} \X K0) /\ Cardinality({0} \X K0) = 1 * MainMoves(p, h)
    BY <1>5, <2>1, FS_Product
  <2>3. QED
    BY <1>1, <1>3, <1>4, <2>2, FS_Product DEF MainMoves
<1>9. /\ IsFiniteSet(Stores(p, h))
      /\ Cardinality(Stores(p, h)) = Cardinality(T) * num_transactions(p) + MainMoves(p, h)
  <2> DEFINE A == T \X K
             B == {0} \X K0
  <2>1. IsFiniteSet(A) /\ IsFiniteSet(B) /\ A \cap B = {}
    BY <1>7, <1>8
  <2> HIDE DEF A, B
  <2>2. /\ IsFiniteSet(A \cup B) /\ Cardinality(A \cap B) = 0
        /\ Cardinality(A \cup B) = Cardinality(A) + Cardinality(B) - Cardinality(A \cap B)
    BY <2>1, FS_Union, FS_EmptySet
  <2>3. Cardinality(A) \in Nat /\ Cardinality(B) \in Nat
    BY <2>1, FS_CardinalityType
  <2>4. /\ Stores(p, h) = A \cup B
        /\ Cardinality(A) = Cardinality(T) * num_transactions(p)
        /\ Cardinality(B) = MainMoves(p, h)
    BY <1>6, <1>8 DEF A, B
  <2>5. QED
    BY <2>2, <2>3, <2>4
<1>10. /\ Half(p) * num_transactions(p) \in Nat /\ 0 * num_transactions(p) = 0
  BY <1>1, <1>3
<1>11. QED
  BY <1>1, <1>3, <1>9, <1>10 DEF MainMoves, Total

-----------------------------------------------------------------------------
(* The steps of an account program.                                         *)

LEMMA LargestExists ==
    ASSUME NEW D, IsFiniteSet(D), D # {}, D \subseteq Nat
    PROVE  \E d \in D : \A e \in D : d >= e
<1>1. Cardinality(D) \in Nat /\ ExistsBijection(1 .. Cardinality(D), D)
  BY FS_CardinalityType
<1> DEFINE k == Cardinality(D)
<1>2. PICK f : f \in Bijection(1 .. k, D)
  BY <1>1 DEF ExistsBijection
<1>3. f \in [1 .. k -> D] /\ \A d \in D : \E i \in 1 .. k : f[i] = d
  BY <1>2 DEF Bijection, Injection, Surjection
<1> HIDE DEF k
<1>4. k \in Nat
  BY <1>1 DEF k
<1> DEFINE I == {i \in 0 .. k : i = 0 \/ \E m \in 1 .. i : \A j \in 1 .. i : f[m] >= f[j]}
<1>5. 0 \in I
  BY <1>4
<1>6. ASSUME NEW i \in 0 .. k - 1, i \in I PROVE i + 1 \in I
  <2>1. i + 1 \in 1 .. k /\ \A j \in 1 .. i + 1 : j = i + 1 \/ j \in 1 .. i
    BY <1>4
  <2>2. \A j \in 1 .. i + 1 : f[j] \in Nat
    <3>1. \A j \in 1 .. i + 1 : j \in 1 .. k
      BY <1>4
    <3>2. QED
      BY <1>3, <3>1
  <2>3. CASE i = 0 \/ \A j \in 1 .. i : f[i + 1] >= f[j]
    <3>1. \A j \in 1 .. i + 1 : f[i + 1] >= f[j]
      BY <2>1, <2>2, <2>3
    <3>2. QED
      BY <2>1, <3>1
  <2>4. CASE i # 0 /\ ~(\A j \in 1 .. i : f[i + 1] >= f[j])
    <3>1. PICK m \in 1 .. i : \A j \in 1 .. i : f[m] >= f[j]
      BY <1>6, <2>4
    <3>2. PICK j \in 1 .. i : ~(f[i + 1] >= f[j])
      BY <2>4
    <3>3. f[m] >= f[i + 1]
      BY <2>2, <3>1, <3>2
    <3>4. m \in 1 .. i + 1 /\ \A l \in 1 .. i + 1 : f[m] >= f[l]
      BY <2>1, <3>1, <3>3
    <3>5. QED
      BY <2>1, <3>4
  <2>5. QED
    BY <2>3, <2>4
<1> HIDE DEF I
<1>7. k \in I
  BY <1>4, <1>5, <1>6, PrefixInduction
<1>8. k # 0
  <2>1. PICK d \in D : TRUE
    OBVIOUS
  <2>2. PICK i \in 1 .. k : f[i] = d
    BY <1>3, <2>1
  <2>3. QED
    BY <1>4, <2>2
<1>9. PICK m \in 1 .. k : \A j \in 1 .. k : f[m] >= f[j]
  BY <1>7, <1>8 DEF I
<1>10. QED
  BY <1>3, <1>9

LEMMA LargestAmounts ==
    /\ MostDeposited \in Nat /\ \A n \in Amounts("deposit") : n \in Nat /\ n <= MostDeposited
    /\ MostWithdrawn \in Nat
    /\ \A n \in Amounts("withdraw") : n \in Int /\ n <= 0 /\ n >= -MostWithdrawn
<1> USE ProgramsAssumption DEF ProgramsAssumption
<1>1. MostDeposited \in Deposits /\ \A e \in Deposits : MostDeposited >= e
  BY LargestExists DEF MostDeposited
<1>2. MostWithdrawn \in Withdrawals /\ \A e \in Withdrawals : MostWithdrawn >= e
  BY LargestExists DEF MostWithdrawn
<1>3. \A n \in Amounts("deposit") : n \in Nat /\ n <= MostDeposited
  BY <1>1 DEF Amounts
<1>4. \A n \in Amounts("withdraw") : n \in Int /\ n <= 0 /\ n >= -MostWithdrawn
  <2>1. Amounts("withdraw") = {-n : n \in Withdrawals}
    BY DEF Amounts
  <2>2. \A n \in Withdrawals : -n \in Int /\ -n <= 0 /\ -n >= -MostWithdrawn
    BY <1>2
  <2>3. QED
    BY <2>1, <2>2
<1>5. QED
  BY <1>1, <1>2, <1>3, <1>4

LEMMA DoneNumber ==
    ASSUME prog \in AccountPrograms, NEW h \in {"deposit", "withdraw"}
    PROVE  IsFiniteSet(DoneStores(h)) /\ Done(h) \in 0 .. Total(prog, h)
<1>1. DoneStores(h) \in SUBSET Stores(prog, h)
  BY DEF DoneStores
<1>2. /\ IsFiniteSet(Stores(prog, h)) /\ Cardinality(Stores(prog, h)) = Total(prog, h)
      /\ Total(prog, h) \in Nat
  BY StoresTotal
<1>3. QED
  BY <1>1, <1>2, FS_Subset, FS_CardinalityType DEF Done

\* Executing an instruction of an account program.
LEMMA AccountGoesOn ==
    ASSUME prog \in AccountPrograms, prog' = prog, BalanceInv,
           NEW t \in ThreadIds, code[t] # <<>>, Go(t)
    PROVE  LET ac == AccountCode(prog)
           IN  /\ code' \in [ThreadIds -> Seq(AccountInstructions(prog) \cup {PrintLast})]
               /\ RestOK'
               /\ Head(code[t]) \in AccountInstructions(prog) \cup {PrintLast}
               /\ Passed(t) \in Nat /\ Passed(t) + 1 \in 1 .. Len(ac[t])
               /\ Head(code[t]) = ac[t][Passed(t) + 1]
               /\ Passed(t)' = Passed(t) + 1
               /\ code'[t] = Tail(code[t])
               /\ \A u \in ThreadIds : u # t => code'[u] = code[u] /\ Passed(u)' = Passed(u)
<1> DEFINE S == AccountInstructions(prog) \cup {PrintLast}
           ac == AccountCode(prog)
<1>1. /\ code \in [ThreadIds -> Seq(S)] /\ RestOK
      /\ \A u \in ThreadIds : ac[u] \in Seq(S)
  BY CodeOfAccounts DEF BalanceInv
<1> HIDE DEF S, ac
<1>2. /\ code[t] \in Seq(S) /\ Len(code[t]) \in Nat /\ Len(code[t]) >= 1
      /\ Head(code[t]) = code[t][1] /\ Head(code[t]) \in S
      /\ Tail(code[t]) \in Seq(S) /\ Len(Tail(code[t])) = Len(code[t]) - 1
      /\ \A k \in 1 .. Len(code[t]) - 1 : Tail(code[t])[k] = code[t][k + 1]
  BY <1>1
<1>3. /\ code' \in [ThreadIds -> Seq(S)] /\ code'[t] = Tail(code[t])
      /\ \A u \in ThreadIds : u # t => code'[u] = code[u]
  BY <1>1, <1>2 DEF Go
<1>4. \A u \in ThreadIds : Len(ac[u]) \in Nat /\ Len(code[u]) \in Nat
  BY <1>1
<1>5. /\ Len(code[t]) <= Len(ac[t])
      /\ \A k \in 1 .. Len(code[t]) : code[t][k] = ac[t][Passed(t) + k]
  BY <1>1 DEF RestOK, ac
<1>6. Passed(t) = Len(ac[t]) - Len(code[t]) /\ Passed(t)' = Len(ac[t]) - Len(code'[t])
  BY DEF Passed, ac
<1>7. Passed(t) \in Nat /\ Passed(t) + 1 \in 1 .. Len(ac[t]) /\ Passed(t)' = Passed(t) + 1
  <2>1. Len(code'[t]) = Len(code[t]) - 1 /\ Len(code[t]) \in Nat /\ Len(ac[t]) \in Nat
        /\ Len(code[t]) >= 1 /\ Len(code[t]) <= Len(ac[t])
    BY <1>2, <1>3, <1>4, <1>5
  <2>2. Passed(t) \in Nat /\ Passed(t) + 1 \in 1 .. Len(ac[t])
    <3>1. \A l, n \in Nat : n >= 1 /\ n <= l => l - n \in Nat /\ (l - n) + 1 \in 1 .. l
      OBVIOUS
    <3>2. /\ Len(ac[t]) - Len(code[t]) \in Nat
          /\ (Len(ac[t]) - Len(code[t])) + 1 \in 1 .. Len(ac[t])
      BY <2>1, <3>1
    <3>3. QED
      BY <1>6, <3>2
  <2>3. Passed(t)' = Passed(t) + 1
    BY <1>6, <2>1
  <2>4. QED
    BY <2>2, <2>3
<1>8. Head(code[t]) = ac[t][Passed(t) + 1]
  <2>1. 1 \in 1 .. Len(code[t])
    BY <1>2
  <2>2. QED
    BY <1>2, <1>5, <2>1
<1>9. \A u \in ThreadIds : u # t => Passed(u)' = Passed(u)
  BY <1>3 DEF Passed
<1>10. RestOK'
  <2>1. ASSUME NEW u \in ThreadIds
        PROVE  /\ Len(code'[u]) <= Len(ac[u])
               /\ \A k \in 1 .. Len(code'[u]) : code'[u][k] = ac[u][Passed(u)' + k]
    <3>1. CASE u = t
      <4>1. Len(code'[t]) <= Len(ac[t])
        BY <1>2, <1>3, <1>4, <1>5
      <4>2. ASSUME NEW k \in 1 .. Len(code'[t])
            PROVE  code'[t][k] = ac[t][Passed(t)' + k]
        <5>1. k \in 1 .. Len(code[t]) - 1 /\ k + 1 \in 1 .. Len(code[t])
          BY <1>2, <1>3
        <5>2. code'[t][k] = ac[t][Passed(t) + (k + 1)]
          BY <1>2, <1>3, <1>5, <5>1
        <5>3. Passed(t) + (k + 1) = Passed(t)' + k
          BY <1>7
        <5>4. QED
          BY <5>2, <5>3
      <4>3. QED
        BY <3>1, <4>1, <4>2
    <3>2. CASE u # t
      BY <1>1, <1>3, <1>9, <3>2 DEF RestOK, ac
    <3>3. QED
      BY <3>1, <3>2
  <2>2. QED
    BY <2>1 DEF RestOK, ac
<1>11. QED
  BY <1>2, <1>3, <1>7, <1>8, <1>9, <1>10 DEF S, ac

\* A step that is not a store leaves what is possible, a store makes one more.
LEMMA DoneGrows ==
    ASSUME prog \in AccountPrograms, prog' = prog, BalanceInv,
           NEW t \in ThreadIds, code[t] # <<>>, Go(t),
           NEW h \in {"deposit", "withdraw"}
    PROVE  /\ Done(h) \in Nat
           /\ Done(h)' = IF Head(code[t]) = <<"store", "ac_balance", h>>
                         THEN Done(h) + 1 ELSE Done(h)
<1> DEFINE ac == AccountCode(prog)
           x == <<t, Passed(t) + 1>>
           d == DoneStores(h)
           is == Head(code[t]) = <<"store", "ac_balance", h>>
<1>1. /\ Passed(t) \in Nat /\ Passed(t) + 1 \in 1 .. Len(ac[t])
      /\ Head(code[t]) = ac[t][Passed(t) + 1]
      /\ Passed(t)' = Passed(t) + 1
      /\ \A u \in ThreadIds : u # t => Passed(u)' = Passed(u)
  BY AccountGoesOn
<1>2. IsFiniteSet(d) /\ Done(h) \in Nat
  BY DoneNumber, StoresTotal
<1>3. \A u \in ThreadIds : Len(ac[u]) \in Nat
  BY CodeOfAccounts
<1>4. \A y : y \in Stores(prog, h) <=>
                /\ y = <<y[1], y[2]>> /\ y[1] \in ThreadIds
                /\ y[2] \in 1 .. Len(ac[y[1]])
                /\ ac[y[1]][y[2]] = <<"store", "ac_balance", h>>
  BY DEF Stores, StoresIn
<1>5. DoneStores(h)' = {y \in Stores(prog, h) : y[2] <= Passed(y[1])'}
  BY DEF DoneStores
<1> HIDE DEF ac
<1>6. x \in Stores(prog, h) <=> is
  BY <1>1, <1>4
<1>7. x \notin d
  BY <1>1 DEF DoneStores
<1>8. ASSUME NEW y \in Stores(prog, h)
      PROVE  y[2] <= Passed(y[1])' <=> y[2] <= Passed(y[1]) \/ y = x
  <2>1. y = <<y[1], y[2]>> /\ y[1] \in ThreadIds /\ y[2] \in Nat
    BY <1>3, <1>4
  <2>2. PICK u \in ThreadIds : u = y[1]
    BY <2>1
  <2>3. CASE u = t
    <3>1. Passed(y[1])' = Passed(t) + 1 /\ Passed(y[1]) = Passed(t)
      BY <1>1, <2>2, <2>3
    <3>2. y = x <=> y[2] = Passed(t) + 1
      BY <2>1, <2>2, <2>3
    <3>3. QED
      BY <1>1, <2>1, <3>1, <3>2
  <2>4. CASE u # t
    <3>1. Passed(u)' = Passed(u)
      BY <1>1, <2>4
    <3>2. Passed(y[1])' = Passed(y[1]) /\ y # x
      BY <2>2, <2>4, <3>1
    <3>3. QED
      BY <3>2
  <2>5. QED
    BY <2>3, <2>4
<1>9. DoneStores(h)' = IF is THEN d \cup {x} ELSE d
  BY <1>5, <1>6, <1>8 DEF DoneStores
<1>10. Done(h)' = Cardinality(DoneStores(h)')
  BY DEF Done
<1> HIDE DEF d, x, is
<1>11. Cardinality(d \cup {x}) = Cardinality(d) + 1
  BY <1>2, <1>7, FS_AddElement
<1>12. Done(h) = Cardinality(d)
  BY DEF Done, d
<1>13. QED
  BY <1>2, <1>9, <1>10, <1>11, <1>12 DEF is

LEMMA AtMostAsMany ==
    \A m, i, j \in Nat : i <= j => m * i <= m * j /\ m * (j + 1) = m * j + m /\ m * i \in Nat
<1>1. ASSUME NEW m \in Nat, NEW i \in Nat, NEW j \in Nat, i <= j
      PROVE  m * i <= m * j /\ m * (j + 1) = m * j + m /\ m * i \in Nat
  <2>1. m * (j - i) \in Nat /\ m * i \in Nat /\ m * j \in Nat
    BY <1>1
  <2>2. m * j = m * i + m * (j - i)
    BY <1>1
  <2>3. QED
    BY <2>1, <2>2
<1>2. QED
  BY <1>1

LEMMA PossibleStays ==
    ASSUME prog \in AccountPrograms, prog' = prog, BalanceInv,
           NEW t \in ThreadIds, code[t] # <<>>, Go(t)
    PROVE  \A v : Possible(v) => Possible(v)'
<1>1. /\ Done("deposit") \in Nat /\ Done("withdraw") \in Nat
      /\ Done("deposit")' \in Nat /\ Done("withdraw")' \in Nat
      /\ Done("deposit") <= Done("deposit")' /\ Done("withdraw") <= Done("withdraw")'
  BY DoneGrows
<1>2. MostDeposited \in Nat /\ MostWithdrawn \in Nat
  BY LargestAmounts
<1>3. /\ MostDeposited * Done("deposit") <= MostDeposited * Done("deposit")'
      /\ MostWithdrawn * Done("withdraw") <= MostWithdrawn * Done("withdraw")'
      /\ MostDeposited * Done("deposit") \in Nat /\ MostDeposited * Done("deposit")' \in Nat
      /\ MostWithdrawn * Done("withdraw") \in Nat /\ MostWithdrawn * Done("withdraw")' \in Nat
  BY <1>1, <1>2, AtMostAsMany
<1>4. MostDeposited' = MostDeposited /\ MostWithdrawn' = MostWithdrawn
  BY DEF MostDeposited, MostWithdrawn
<1>5. QED
  BY <1>3, <1>4 DEF Possible

\* A store puts one amount on what the thread has loaded.
LEMMA StoredIsPossible ==
    ASSUME prog \in AccountPrograms, prog' = prog, BalanceInv,
           NEW t \in ThreadIds, code[t] # <<>>, Go(t),
           NEW h \in {"deposit", "withdraw"},
           Head(code[t]) = <<"store", "ac_balance", h>>,
           NEW n \in Amounts(h)
    PROVE  \A v : Possible(v) => Possible(v + n)'
<1>1. /\ Done("deposit") \in Nat /\ Done("withdraw") \in Nat
      /\ Done("deposit")' = IF h = "deposit" THEN Done("deposit") + 1 ELSE Done("deposit")
      /\ Done("withdraw")' = IF h = "withdraw" THEN Done("withdraw") + 1 ELSE Done("withdraw")
  BY DoneGrows
<1>2. MostDeposited \in Nat /\ MostWithdrawn \in Nat
  BY LargestAmounts
<1> DEFINE md == MostDeposited * Done("deposit")
           mw == MostWithdrawn * Done("withdraw")
<1>3. /\ MostDeposited * (Done("deposit") + 1) = md + MostDeposited
      /\ MostWithdrawn * (Done("withdraw") + 1) = mw + MostWithdrawn
      /\ md \in Nat /\ mw \in Nat
  BY <1>1, <1>2, AtMostAsMany
<1> HIDE DEF md, mw
<1>4. ASSUME NEW v, Possible(v) PROVE Possible(v + n)'
  <2>1. v \in Int /\ v <= md /\ v >= -mw
    BY <1>4 DEF Possible, md, mw
  <2>2. CASE h = "deposit"
    <3>1. n \in Nat /\ n <= MostDeposited
      BY <2>2, LargestAmounts
    <3>2. /\ MostDeposited * Done("deposit")' = md + MostDeposited
          /\ MostWithdrawn * Done("withdraw")' = mw
      BY <1>1, <1>3, <2>2 DEF mw
    <3>3. v + n \in Int /\ v + n <= md + MostDeposited /\ v + n >= -mw
      BY <1>2, <1>3, <2>1, <3>1
    <3>4. QED
      BY <3>2, <3>3 DEF Possible, MostDeposited, MostWithdrawn
  <2>3. CASE h = "withdraw"
    <3>1. n \in Int /\ n <= 0 /\ n >= -MostWithdrawn
      BY <2>3, LargestAmounts
    <3>2. /\ MostDeposited * Done("deposit")' = md
          /\ MostWithdrawn * Done("withdraw")' = mw + MostWithdrawn
      BY <1>1, <1>3, <2>3 DEF md
    <3>3. v + n \in Int /\ v + n <= md /\ v + n >= -(mw + MostWithdrawn)
      BY <1>2, <1>3, <2>1, <3>1
    <3>4. QED
      BY <3>2, <3>3 DEF Possible, MostDeposited, MostWithdrawn
  <2>4. QED
    BY <2>2, <2>3
<1>5. QED
  BY <1>4

\* main prints once, at its end.
LEMMA PrintIsLast ==
    ASSUME prog \in AccountPrograms, BalanceInv, NEW t \in ThreadIds, code[t] # <<>>
    PROVE  Head(code[t]) = PrintLast <=> t = 0 /\ Tail(code[t]) = <<>>
<1> DEFINE S == AccountInstructions(prog)
           ac == AccountCode(prog)
<1>1. code[t] \in Seq(S \cup {PrintLast}) /\ RestOK
  BY DEF BalanceInv
<1>2. PrintLast \notin S
  BY DEF AccountInstructions, PrintLast
<1>3. /\ \A u \in ThreadIds \ {0} : ac[u] \in Seq(S)
      /\ \E d \in Seq(S) : ac[0] = d \o <<PrintLast>>
  BY CodeOfAccounts, MainCode
<1> HIDE DEF S, ac
<1>4. /\ Len(code[t]) \in Nat /\ Len(code[t]) >= 1 /\ Head(code[t]) = code[t][1]
      /\ 1 \in 1 .. Len(code[t])
      /\ Len(Tail(code[t])) = Len(code[t]) - 1
      /\ Tail(code[t]) = <<>> <=> Len(code[t]) = 1
  <2> HIDE DEF PrintLast
  <2> DEFINE T == S \cup {PrintLast}
  <2> HIDE DEF T
  <2>1. code[t] \in Seq(T)
    BY <1>1 DEF T
  <2>2. \A c \in Seq(T) : c # <<>> =>
           /\ Len(c) \in Nat /\ Len(c) >= 1 /\ Head(c) = c[1] /\ 1 \in 1 .. Len(c)
           /\ Len(Tail(c)) = Len(c) - 1
    OBVIOUS
  <2>3. \A c \in Seq(T) : c # <<>> => (Tail(c) = <<>> <=> Len(c) = 1)
    <3>1. \A d \in Seq(T) : d = <<>> <=> Len(d) = 0
      OBVIOUS
    <3>2. \A c \in Seq(T) : c # <<>> => Tail(c) \in Seq(T)
      OBVIOUS
    <3>3. ASSUME NEW c \in Seq(T), c # <<>> PROVE Tail(c) = <<>> <=> Len(c) = 1
      <4>1. Tail(c) = <<>> <=> Len(Tail(c)) = 0
        BY <3>1, <3>2, <3>3
      <4>2. Len(c) \in Nat /\ Len(Tail(c)) = Len(c) - 1
        BY <2>2, <3>3
      <4>3. QED
        BY <4>1, <4>2
    <3>4. QED
      BY <3>3
  <2>4. QED
    BY <2>1, <2>2, <2>3
<1>5. /\ Len(code[t]) <= Len(ac[t]) /\ Passed(t) = Len(ac[t]) - Len(code[t])
      /\ Head(code[t]) = ac[t][Passed(t) + 1]
  BY <1>1, <1>4 DEF RestOK, Passed, ac
<1>6. CASE t # 0
  <2>1. ac[t] \in Seq(S)
    BY <1>3, <1>6
  <2>2. Passed(t) + 1 \in 1 .. Len(ac[t])
    <3>1. Len(ac[t]) \in Nat
      BY <2>1
    <3>2. \A l, n \in Nat : n >= 1 /\ n <= l => (l - n) + 1 \in 1 .. l
      OBVIOUS
    <3>3. (Len(ac[t]) - Len(code[t])) + 1 \in 1 .. Len(ac[t])
      BY <1>4, <1>5, <3>1, <3>2
    <3>4. QED
      BY <1>5, <3>3
  <2>3. Head(code[t]) \in S
    <3>1. \A k \in 1 .. Len(ac[t]) : ac[t][k] \in S
      BY <2>1
    <3>2. QED
      BY <1>5, <2>2, <3>1
  <2>4. QED
    BY <1>2, <1>6, <2>3
<1>7. CASE t = 0
  <2>1. PICK d \in Seq(S) : ac[0] = d \o <<PrintLast>>
    BY <1>3
  <2>2. /\ Len(d) \in Nat /\ Len(ac[0]) = Len(d) + 1 /\ ac[0][Len(d) + 1] = PrintLast
        /\ \A k \in 1 .. Len(d) : ac[0][k] = d[k] /\ d[k] \in S
    <3> HIDE DEF PrintLast
    <3>1. QED
      BY <2>1
  <2>3. CASE Len(code[t]) = 1
    <3>1. Passed(t) + 1 = Len(d) + 1
      BY <1>5, <1>7, <2>2, <2>3
    <3>2. QED
      BY <1>4, <1>5, <1>7, <2>2, <2>3, <3>1
  <2>4. CASE Len(code[t]) # 1
    <3>1. \A l, n \in Nat : n >= 1 /\ n # 1 /\ n <= l + 1 => ((l + 1) - n) + 1 \in 1 .. l
      OBVIOUS
    <3>2. ((Len(d) + 1) - Len(code[t])) + 1 \in 1 .. Len(d)
      BY <1>4, <1>5, <1>7, <2>2, <2>4, <3>1
    <3>3. Passed(t) + 1 \in 1 .. Len(d)
      BY <1>5, <1>7, <2>2, <3>2
    <3>4. Head(code[t]) \in S
      BY <1>5, <1>7, <2>2, <3>3
    <3>5. QED
      BY <1>2, <1>4, <2>4, <3>4
  <2>5. QED
    BY <2>3, <2>4
<1>8. QED
  BY <1>6, <1>7

LEMMA AccountStart == MachineInit => AccountInv
<1> SUFFICES ASSUME MachineInit, prog \in AccountPrograms PROVE BalanceInv
  BY DEF AccountInv
<1>1. code = AccountCode(prog)
  <2>1. \A p \in AccountPrograms : p.file # "prog11.c" /\ p.file \notin {"prog9.c", "prog10.c", "example.c"}
    BY DEF AccountPrograms, lock_example, thread_example, thread_example_2, Account
  <2>2. /\ \A p \in prog11 : p.file = "prog11.c"
        /\ \A p \in instrfuncs : p.file \in {"prog9.c", "prog10.c", "example.c"}
    BY DEF prog11, instrfuncs
  <2>3. QED
    BY <2>1, <2>2 DEF MachineInit
<1>2. /\ DOMAIN AccountCode(prog) = ThreadIds
      /\ \A t \in ThreadIds : AccountCode(prog)[t] \in Seq(AccountInstructions(prog) \cup {PrintLast})
  BY CodeOfAccounts
<1>3. AccountCode(prog) = [t \in ThreadIds |-> AccountCode(prog)[t]]
  BY DEF AccountCode
<1>4. code \in [ThreadIds -> Seq(AccountInstructions(prog) \cup {PrintLast})]
  BY <1>1, <1>2, <1>3
<1>5. /\ mem \in [Cells -> Int] /\ mem["ac_balance"] = 0
      /\ reg \in [ThreadIds -> Int] /\ \A t \in ThreadIds : reg[t] = 0
      /\ DOMAIN log = ThreadIds /\ \A t \in ThreadIds : log[t] = <<>>
  BY DEF MachineInit, Cells
<1>6. \A t \in ThreadIds : Passed(t) = 0 /\ Len(code[t]) \in Nat
  BY <1>1, <1>2 DEF Passed
<1>7. RestOK
  <2>1. ASSUME NEW t \in ThreadIds
        PROVE  /\ Len(code[t]) <= Len(AccountCode(prog)[t])
               /\ \A k \in 1 .. Len(code[t]) : code[t][k] = AccountCode(prog)[t][Passed(t) + k]
    <3>1. \A k \in 1 .. Len(code[t]) : Passed(t) + k = k
      BY <1>6
    <3>2. QED
      BY <1>1, <1>6, <3>1
  <2>2. QED
    BY <2>1 DEF RestOK
<1>8. Possible(0)
  <2>1. MostDeposited * Done("deposit") \in Nat /\ MostWithdrawn * Done("withdraw") \in Nat
    <3>1. Done("deposit") \in Nat /\ Done("withdraw") \in Nat
      BY DoneNumber, StoresTotal
    <3>2. QED
      BY <3>1, LargestAmounts, AtMostAsMany
  <2>2. QED
    BY <2>1 DEF Possible
<1>9. 0 \in ThreadIds
  BY ProgramsAssumption DEF ProgramsAssumption, ThreadIds
<1>10. ThreadsOK
  BY <1>6, <1>9 DEF ThreadsOK
<1>11. ~Ended(0)
  <2>1. \E d \in Seq(AccountInstructions(prog)) : AccountCode(prog)[0] = d \o <<PrintLast>>
    BY MainCode
  <2>2. AccountCode(prog)[0] # <<>>
    BY <2>1
  <2>3. QED
    BY <1>1, <2>2 DEF Ended
<1>12. PrintedOK
  BY <1>5, <1>9, <1>11 DEF PrintedOK
<1>13. QED
  BY <1>4, <1>5, <1>7, <1>8, <1>10, <1>12 DEF BalanceInv

\* What main has created and joined.
LEMMA ThreadsKeep ==
    ASSUME prog \in AccountPrograms, prog' = prog, BalanceInv,
           NEW t \in ThreadIds, code[t] # <<>>, Go(t), started \subseteq started',
           t = 0 /\ Head(code[t])[1] = "create" => Head(code[t])[2] \in started',
           t = 0 /\ Head(code[t])[1] = "join" => Ended(Head(code[t])[2])
    PROVE  ThreadsOK'
<1> DEFINE ac == AccountCode(prog)
<1>1. /\ Passed(t) \in Nat /\ Head(code[t]) = ac[t][Passed(t) + 1]
      /\ Passed(t)' = Passed(t) + 1
      /\ \A u \in ThreadIds : u # t => code'[u] = code[u] /\ Passed(u)' = Passed(u)
      /\ Head(code[t]) \in AccountInstructions(prog) \cup {PrintLast}
  BY AccountGoesOn
<1>2. 0 \in ThreadIds /\ \A x \in AccountInstructions(prog) \cup {PrintLast} :
                            x[1] = "join" => x[2] \in ThreadIds
  <2>1. prog.num_threads \in 1 .. MaxThreads
    BY AccountTypes
  <2>2. \A k \in 1 .. prog.num_threads : k \in ThreadIds
    BY <2>1, ProgramsAssumption DEF ProgramsAssumption, ThreadIds
  <2>3. \A x \in AccountInstructions(prog) \cup {PrintLast} :
           x[1] = "join" => x[2] \in 1 .. prog.num_threads
    BY DEF AccountInstructions, PrintLast
  <2>4. 0 \in ThreadIds
    BY ProgramsAssumption DEF ProgramsAssumption, ThreadIds
  <2>5. QED
    BY <2>2, <2>3, <2>4
<1>3. \A u \in ThreadIds : Ended(u) => Ended(u)'
  BY <1>1 DEF Ended
<1>4. \A k \in 1 .. Passed(0) :
         /\ ac[0][k][1] = "create" => ac[0][k][2] \in started
         /\ ac[0][k][1] = "join" => Ended(ac[0][k][2])
  BY DEF BalanceInv, ThreadsOK
<1>5. \A k \in 1 .. Passed(0) : ac[0][k] \in AccountInstructions(prog) \cup {PrintLast}
  <2>1. ac[0] \in Seq(AccountInstructions(prog) \cup {PrintLast}) /\ code[0] \in Seq(AccountInstructions(prog) \cup {PrintLast})
    BY <1>2, CodeOfAccounts DEF BalanceInv
  <2>2. Passed(0) <= Len(ac[0]) /\ Len(ac[0]) \in Nat
    <3>1. Len(ac[0]) \in Nat /\ Len(code[0]) \in Nat
      BY <2>1
    <3>2. Passed(0) = Len(ac[0]) - Len(code[0])
      BY DEF Passed
    <3>3. \A l, n \in Nat : l - n <= l
      OBVIOUS
    <3>4. Len(ac[0]) - Len(code[0]) <= Len(ac[0])
      BY <3>1, <3>3
    <3> HIDE DEF ac
    <3>5. QED
      BY <3>1, <3>2, <3>4
  <2> HIDE DEF ac
  <2>3. \A k \in 1 .. Passed(0) : k \in 1 .. Len(ac[0])
    <3>1. Passed(0) \in Int
      BY <2>1 DEF Passed, ac
    <3>2. QED
      BY <2>2, <3>1
  <2>4. \A k \in 1 .. Len(ac[0]) : ac[0][k] \in AccountInstructions(prog) \cup {PrintLast}
    BY <2>1
  <2>5. QED
    BY <2>3, <2>4
<1> HIDE DEF ac
<1>6. ASSUME NEW k \in 1 .. Passed(0)'
      PROVE  /\ ac[0][k][1] = "create" => ac[0][k][2] \in started'
             /\ ac[0][k][1] = "join" => Ended(ac[0][k][2])'
  <2> DEFINE x == ac[0][k]
  <2>1. /\ x \in AccountInstructions(prog) \cup {PrintLast}
        /\ x[1] = "create" => x[2] \in started'
        /\ x[1] = "join" => Ended(x[2])
    <3>1. CASE k \in 1 .. Passed(0)
      BY <1>4, <1>5, <3>1
    <3>2. CASE k \notin 1 .. Passed(0)
      <4>1. t = 0 /\ k = Passed(0) + 1
        BY <1>1, <1>2, <3>2
      <4>2. x = Head(code[t])
        BY <1>1, <4>1
      <4>3. QED
        BY <1>1, <4>1, <4>2
    <3>3. QED
      BY <3>1, <3>2
  <2> HIDE DEF x
  <2>2. ac' = ac
    BY DEF ac
  <2>3. ASSUME x[1] = "join" PROVE Ended(x[2])'
    <3>1. x[2] \in ThreadIds /\ Ended(x[2])
      BY <1>2, <2>1, <2>3
    <3>2. PICK u \in ThreadIds : u = x[2]
      BY <3>1
    <3>3. Ended(u)'
      BY <1>3, <3>1, <3>2
    <3>4. code'[u] = <<>>
      BY <3>3 DEF Ended
    <3>5. x' = x
      BY <2>2 DEF x
    <3>6. QED
      BY <3>2, <3>4, <3>5 DEF Ended
  <2>4. QED
    BY <2>1, <2>3 DEF x
<1>7. ac' = AccountCode(prog)' /\ ac' = ac
  BY DEF ac
<1>8. QED
  BY <1>6, <1>7 DEF ThreadsOK

\* Every step but main's last leaves what is printed to the last.
LEMMA NotYetPrinted ==
    ASSUME prog \in AccountPrograms, prog' = prog, BalanceInv,
           NEW t \in ThreadIds, code[t] # <<>>, Go(t), ~Ended(0),
           Head(code[t]) # PrintLast, UNCHANGED log
    PROVE  PrintedOK'
<1>1. code'[t] = Tail(code[t]) /\ \A u \in ThreadIds : u # t => code'[u] = code[u]
  BY AccountGoesOn
<1>2. 0 \in ThreadIds /\ (t = 0 => Tail(code[t]) # <<>>)
  BY PrintIsLast, ProgramsAssumption DEF ProgramsAssumption, ThreadIds
<1>3. ~Ended(0)'
  BY <1>1, <1>2 DEF Ended
<1>4. log[0] = <<>>
  BY DEF BalanceInv, PrintedOK
<1>5. QED
  BY <1>3, <1>4 DEF PrintedOK

\* What all steps have in common.
LEMMA AccountKeeps ==
    ASSUME prog \in AccountPrograms, prog' = prog, BalanceInv,
           NEW t \in ThreadIds, code[t] # <<>>, Go(t),
           mem' \in [Cells -> Int], reg' \in [ThreadIds -> Int],
           DOMAIN log' = ThreadIds, ThreadsOK', PrintedOK',
           Possible(mem["ac_balance"])', \A u \in ThreadIds : Possible(reg[u])'
    PROVE  BalanceInv'
<1>1. /\ code' \in [ThreadIds -> Seq(AccountInstructions(prog) \cup {PrintLast})]
      /\ RestOK'
  BY AccountGoesOn
<1>2. QED
  BY <1>1 DEF BalanceInv

LEMMA AccountStep ==
    ASSUME prog \in AccountPrograms, prog' = prog, BalanceInv, NEW t \in ThreadIds, Step(t)
    PROVE  BalanceInv'
<1> DEFINE x == Head(code[t])
<1>1. code[t] # <<>> /\ ~Ended(0)
  BY DEF Step, Load, Store, LockMutex, UnlockMutex, CallFunction, Create, Join, PrintLine,
         PrintBalance, Pass, Ready, Ended
<1>2. x \in AccountInstructions(prog) \cup {PrintLast}
  <2>1. code[t] \in Seq(AccountInstructions(prog) \cup {PrintLast})
    BY DEF BalanceInv
  <2> DEFINE S == AccountInstructions(prog) \cup {PrintLast}
  <2> HIDE DEF S
  <2>2. \A c \in Seq(S) : c # <<>> => Head(c) \in S
    OBVIOUS
  <2>3. QED
    BY <1>1, <2>1, <2>2 DEF S
<1>3. /\ x[1] \in {"load", "store", "call", "ret", "create", "join", "print"}
      /\ x[1] = "load" => x = <<"load", "ac_balance">>
      /\ x[1] = "store" => \E h \in {"deposit", "withdraw"} : x = <<"store", "ac_balance", h>>
      /\ x[1] = "call" => x[2] \in {"pthread_mutex_lock", "pthread_mutex_unlock"}
      /\ x[1] = "print" <=> x = PrintLast
  BY <1>2 DEF AccountInstructions, PrintLast
<1>4. Go(t)
  <2>1. ~CallFunction(t)
    BY <1>3 DEF CallFunction, Ready
  <2>2. QED
    BY <2>1 DEF Step, Load, Store, LockMutex, UnlockMutex, Create, Join, PrintLine,
                PrintBalance, Pass
<1>5. /\ mem \in [Cells -> Int] /\ reg \in [ThreadIds -> Int] /\ DOMAIN log = ThreadIds
      /\ Possible(mem["ac_balance"]) /\ \A u \in ThreadIds : Possible(reg[u])
      /\ "ac_balance" \in Cells
  BY DEF BalanceInv, Cells
<1>6. \A v : Possible(v) => Possible(v)'
  BY <1>1, <1>4, PossibleStays
<1>7. UNCHANGED mem => Possible(mem["ac_balance"])'
  <2>1. PICK v : v = mem["ac_balance"]
    OBVIOUS
  <2>2. Possible(v)'
    BY <1>5, <1>6, <2>1
  <2>3. QED
    BY <2>1, <2>2 DEF Possible
<1>8. ASSUME NEW u \in ThreadIds, reg'[u] = reg[u] PROVE Possible(reg[u])'
  <2>1. PICK v : v = reg[u]
    OBVIOUS
  <2>2. Possible(v)'
    BY <1>5, <1>6, <2>1
  <2>3. QED
    BY <1>8, <2>1, <2>2 DEF Possible
<1>9. CASE Load(t)
  <2>1. /\ x = <<"load", "ac_balance">> /\ UNCHANGED <<mem, log, started>>
        /\ reg' = [reg EXCEPT ![t] = mem["ac_balance"]]
    <3>1. /\ x[1] = "load" /\ UNCHANGED <<mem, log, started>>
          /\ reg' = [reg EXCEPT ![t] = mem[x[2]]]
      BY <1>9 DEF Load, Ready
    <3>2. x = <<"load", "ac_balance">> /\ x[2] = "ac_balance"
      BY <1>3, <3>1
    <3> HIDE DEF x
    <3>3. QED
      BY <3>1, <3>2
  <2>2. /\ reg' \in [ThreadIds -> Int] /\ reg'[t] = mem["ac_balance"]
        /\ \A u \in ThreadIds : u # t => reg'[u] = reg[u]
    BY <1>5, <2>1
  <2>3. Possible(reg[t])'
    <3>1. PICK v : v = mem["ac_balance"]
      OBVIOUS
    <3>2. Possible(v)'
      BY <1>5, <1>6, <3>1
    <3>3. QED
      BY <2>2, <3>1, <3>2 DEF Possible
  <2>4. \A u \in ThreadIds : Possible(reg[u])'
    BY <1>8, <2>2, <2>3
  <2>5. ThreadsOK' /\ PrintedOK'
    BY <1>1, <1>3, <1>4, <2>1, ThreadsKeep, NotYetPrinted DEF PrintLast
  <2>6. QED
    BY <1>1, <1>4, <1>5, <1>7, <2>1, <2>2, <2>4, <2>5, AccountKeeps
<1>10. CASE Store(t)
  <2>1. PICK h \in {"deposit", "withdraw"} : x = <<"store", "ac_balance", h>>
    BY <1>3, <1>10 DEF Store, Ready
  <2>2. PICK n \in Amounts(h) : mem' = [mem EXCEPT !["ac_balance"] = reg[t] + n]
    <3>1. \E n \in Amounts(x[3]) : mem' = [mem EXCEPT ![x[2]] = reg[t] + n]
      BY <1>10 DEF Store
    <3>2. x[2] = "ac_balance" /\ x[3] = h
      BY <2>1
    <3> HIDE DEF x
    <3>3. QED
      BY <3>1, <3>2
  <2>3. reg' = [reg EXCEPT ![t] = 0] /\ UNCHANGED <<log, started>>
    BY <1>10 DEF Store
  <2>4. n \in Int
    BY <2>1, <2>2, LargestAmounts
  <2>5. /\ mem' \in [Cells -> Int] /\ mem'["ac_balance"] = reg[t] + n
        /\ reg' \in [ThreadIds -> Int] /\ reg'[t] = 0
        /\ \A u \in ThreadIds : u # t => reg'[u] = reg[u]
    BY <1>5, <2>2, <2>3, <2>4
  <2>6. Possible(mem["ac_balance"])'
    <3>1. PICK v : v = reg[t]
      OBVIOUS
    <3>2. Possible(v)
      BY <1>5, <3>1
    <3>3. Possible(v + n)'
      BY <1>1, <1>4, <2>1, <2>2, <3>2, StoredIsPossible
    <3>4. PICK w : w = v + n
      OBVIOUS
    <3>5. Possible(w)' /\ mem'["ac_balance"] = w
      BY <2>5, <3>1, <3>3, <3>4
    <3>6. QED
      BY <3>5 DEF Possible
  <2>7. Possible(reg[t])'
    <3>1. /\ Done("deposit")' \in Nat /\ Done("withdraw")' \in Nat
      BY <1>1, <1>4, DoneGrows
    <3>2. /\ MostDeposited * Done("deposit")' \in Nat
          /\ MostWithdrawn * Done("withdraw")' \in Nat
      BY <3>1, LargestAmounts, AtMostAsMany
    <3>3. QED
      BY <2>5, <3>2 DEF Possible, MostDeposited, MostWithdrawn
  <2>8. \A u \in ThreadIds : Possible(reg[u])'
    BY <1>8, <2>5, <2>7
  <2>9. ThreadsOK' /\ PrintedOK'
    BY <1>1, <1>3, <1>4, <2>1, <2>3, ThreadsKeep, NotYetPrinted DEF PrintLast
  <2>10. QED
    BY <1>1, <1>4, <1>5, <2>3, <2>5, <2>6, <2>8, <2>9, AccountKeeps
<1>11. ASSUME UNCHANGED <<mem, reg>>, DOMAIN log' = ThreadIds, ThreadsOK', PrintedOK'
       PROVE  BalanceInv'
  <2>1. \A u \in ThreadIds : Possible(reg[u])'
    BY <1>8, <1>11
  <2>2. QED
    BY <1>1, <1>4, <1>5, <1>7, <1>11, <2>1, AccountKeeps
<1>12. CASE LockMutex(t) \/ UnlockMutex(t) \/ Pass(t)
  <2>1. /\ x[1] \notin {"create", "join", "print"}
        /\ UNCHANGED <<mem, reg, log, started>>
    BY <1>12 DEF LockMutex, UnlockMutex, Pass, Ready
  <2>2. ThreadsOK' /\ PrintedOK'
    BY <1>1, <1>3, <1>4, <2>1, ThreadsKeep, NotYetPrinted
  <2>3. QED
    BY <1>5, <1>11, <2>1, <2>2
<1>13. CASE Create(t)
  <2>1. /\ x[1] = "create" /\ UNCHANGED <<mem, reg, log>>
        /\ started' = started \cup {x[2]}
    BY <1>13 DEF Create, Ready
  <2>2. ThreadsOK' /\ PrintedOK'
    BY <1>1, <1>3, <1>4, <2>1, ThreadsKeep, NotYetPrinted
  <2>3. QED
    BY <1>5, <1>11, <2>1, <2>2
<1>14. CASE Join(t)
  <2>1. /\ x[1] = "join" /\ UNCHANGED <<mem, reg, log, started>>
        /\ Ended(x[2])
    BY <1>14 DEF Join, Ready
  <2>2. ThreadsOK' /\ PrintedOK'
    BY <1>1, <1>3, <1>4, <2>1, ThreadsKeep, NotYetPrinted
  <2>3. QED
    BY <1>5, <1>11, <2>1, <2>2
<1>15. CASE PrintBalance(t)
  <2>1. /\ x = PrintLast /\ UNCHANGED <<mem, reg, started>>
        /\ log' = [log EXCEPT ![t] = Append(@, <<"remaining balance", mem["ac_balance"]>>)]
    BY <1>3, <1>15 DEF PrintBalance, Ready
  <2>2. t = 0 /\ Tail(code[t]) = <<>>
    BY <1>1, <2>1, PrintIsLast
  <2>3. code'[0] = <<>>
    BY <1>1, <1>4, <2>2, AccountGoesOn
  <2>4. log[0] = <<>>
    BY <1>1 DEF BalanceInv, PrintedOK
  <2>5. DOMAIN log' = ThreadIds /\ log'[0] = <<<<"remaining balance", mem["ac_balance"]>>>>
    <3>1. log'[0] = Append(log[0], <<"remaining balance", mem["ac_balance"]>>)
      BY <1>5, <2>1, <2>2
    <3>2. \A y : Append(<<>>, y) = <<y>>
      OBVIOUS
    <3>3. QED
      BY <1>5, <2>1, <2>4, <3>1, <3>2
  <2>6. PrintedOK'
    <3>1. PICK v : v = mem["ac_balance"]
      OBVIOUS
    <3>2. v \in Int /\ Possible(v)'
      BY <1>5, <1>6, <3>1
    <3>3. QED
      BY <2>3, <2>5, <3>1, <3>2 DEF PrintedOK, Ended
  <2>7. ThreadsOK'
    BY <1>1, <1>3, <1>4, <2>1, ThreadsKeep
  <2>8. QED
    BY <1>11, <2>1, <2>5, <2>6, <2>7
<1>16. ~PrintLine(t) /\ ~CallFunction(t)
  BY <1>3 DEF PrintLine, CallFunction, Ready
<1>17. QED
  BY <1>9, <1>10, <1>12, <1>13, <1>14, <1>15, <1>16 DEF Step

\* The balance without a lock, for any number of threads and transactions: what
\* is stored was loaded, and lies between what all stores so far can have taken
\* out and put in; main prints when it has joined the threads it has created.
THEOREM NothingIsMadeUp == MachineSpec => []RemainingIsBounded
<1>1. AccountInv /\ [MachineNext]_machineVars => AccountInv'
  <2> SUFFICES ASSUME AccountInv, [MachineNext]_machineVars, prog' \in AccountPrograms
               PROVE  BalanceInv'
    BY DEF AccountInv
  <2>1. prog' = prog
    BY DEF MachineNext, machineVars, Step, Load, Store, LockMutex, UnlockMutex, CallFunction,
           Create, Join, PrintLine, PrintBalance, Pass
  <2>2. BalanceInv /\ prog \in AccountPrograms
    BY <2>1 DEF AccountInv
  <2>3. CASE UNCHANGED machineVars
    BY <2>2, <2>3 DEF machineVars, BalanceInv, RestOK, ThreadsOK, PrintedOK, Possible, Done,
                      DoneStores, Passed, Ended, MostDeposited, MostWithdrawn
  <2>4. ASSUME NEW t \in ThreadIds, Step(t) PROVE BalanceInv'
    BY <2>1, <2>2, <2>4, AccountStep
  <2>5. QED
    BY <2>3, <2>4 DEF MachineNext
<1>2. AccountInv => RemainingIsBounded
  <2> SUFFICES ASSUME BalanceInv, prog \in AccountPrograms, Ended(0)
               PROVE  RemainingIsBounded
    BY DEF AccountInv, RemainingIsBounded
  <2> DEFINE n == prog.num_threads
             ac == AccountCode(prog)
  <2>1. PICK v \in Int : Possible(v) /\ log[0] = <<<<"remaining balance", v>>>>
    BY DEF BalanceInv, PrintedOK
  <2>2. log[0][1][2] = v
    <3>1. \A y : <<y>>[1] = y
      OBVIOUS
    <3>2. log[0][1] = <<"remaining balance", v>>
      BY <2>1, <3>1
    <3>3. \A y : <<"remaining balance", y>>[2] = y
      OBVIOUS
    <3>4. QED
      BY <3>2, <3>3, Zenon
  <2>3. /\ Done("deposit") \in 0 .. Total(prog, "deposit")
        /\ Done("withdraw") \in 0 .. Total(prog, "withdraw")
        /\ Total(prog, "deposit") \in Nat /\ Total(prog, "withdraw") \in Nat
    BY DoneNumber, StoresTotal
  <2>4. MostDeposited \in Nat /\ MostWithdrawn \in Nat
    BY LargestAmounts
  <2>5. /\ MostDeposited * Done("deposit") <= MostDeposited * Total(prog, "deposit")
        /\ MostWithdrawn * Done("withdraw") <= MostWithdrawn * Total(prog, "withdraw")
        /\ MostDeposited * Done("deposit") \in Nat /\ MostDeposited * Total(prog, "deposit") \in Nat
        /\ MostWithdrawn * Done("withdraw") \in Nat /\ MostWithdrawn * Total(prog, "withdraw") \in Nat
    BY <2>3, <2>4, AtMostAsMany
  <2>6. /\ v <= MostDeposited * Total(prog, "deposit")
        /\ v >= -(MostWithdrawn * Total(prog, "withdraw"))
    <3>1. /\ v <= MostDeposited * Done("deposit")
          /\ v >= -(MostWithdrawn * Done("withdraw"))
      BY <2>1 DEF Possible
    <3>2. \A i, j, k \in Int : (i <= j /\ j <= k => i <= k) /\ (i >= -j /\ j <= k => i >= -k)
      OBVIOUS
    <3>3. v \in Int /\ Nat \subseteq Int
      OBVIOUS
    <3>4. QED
      BY <2>5, <3>1, <3>2, <3>3
  <2>7. /\ Passed(0) = Len(ac[0]) /\ Len(ac[0]) \in Nat
    <3>1. 0 \in ThreadIds
      BY ProgramsAssumption DEF ProgramsAssumption, ThreadIds
    <3>2. Len(ac[0]) \in Nat
      BY <3>1, CodeOfAccounts
    <3>3. Len(code[0]) = 0
      BY DEF Ended
    <3>4. QED
      BY <3>2, <3>3 DEF Passed
  <2>8. ASSUME NEW t \in 1 .. n PROVE t \in started /\ Ended(t)
    <3>1. Occurs(<<"create", t>>, ac[0]) /\ Occurs(<<"join", t>>, ac[0])
      BY MainCode
    <3>2. PICK k \in 1 .. Len(ac[0]) : ac[0][k] = <<"create", t>>
      BY <3>1 DEF Occurs
    <3>3. PICK j \in 1 .. Len(ac[0]) : ac[0][j] = <<"join", t>>
      BY <3>1 DEF Occurs
    <3>4. /\ ac[0][k][1] = "create" => ac[0][k][2] \in started
          /\ ac[0][j][1] = "join" => Ended(ac[0][j][2])
      BY <2>7 DEF BalanceInv, ThreadsOK
    <3>5. QED
      BY <3>2, <3>3, <3>4
  <2>9. /\ Total(prog, "deposit") = Half(prog) * num_transactions(prog) + residue(prog)
        /\ Total(prog, "withdraw") =
              IF prog.both THEN Half(prog) * num_transactions(prog) + residue(prog) ELSE 0
    BY DEF Total
  <2>10. Half(prog) = IF prog.both THEN n \div 2 ELSE n
    BY DEF Half
  <2> HIDE DEF ac
  <2>11. QED
    BY <2>2, <2>6, <2>8, <2>9, <2>10 DEF RemainingIsBounded, MostDeposited, MostWithdrawn
<1>3. QED
  BY <1>1, <1>2, AccountStart, PTL DEF MachineSpec

-----------------------------------------------------------------------------
(* What code does to the lines it prints.                                   *)

\* c leads from mark x to mark y: e lists which instruction leads from which
\* mark to which.
Walk(e, x, c, y) ==
    \E st : /\ st[0] = x /\ st[Len(c)] = y
            /\ \A k \in 1 .. Len(c) : <<st[k - 1], c[k], st[k]>> \in e

LEMMA WalkNothing ==
    ASSUME NEW e, NEW x, NEW y
    PROVE  Walk(e, x, <<>>, y) <=> x = y
<1>1. Len(<<>>) = 0
  OBVIOUS
<1>2. ASSUME x = y PROVE Walk(e, x, <<>>, y)
  <2> DEFINE st == [k \in {0} |-> x]
  <2>1. st[0] = x /\ st[0] = y
    BY <1>2
  <2> HIDE DEF st
  <2>2. \A k \in 1 .. Len(<<>>) : FALSE
    BY <1>1
  <2>3. QED
    BY <1>1, <2>1, <2>2 DEF Walk
<1>3. QED
  BY <1>1, <1>2 DEF Walk

LEMMA WalkOne ==
    ASSUME NEW e, NEW S, NEW x, NEW y, NEW i \in S, <<x, i, y>> \in e
    PROVE  <<i>> \in Seq(S) /\ Walk(e, x, <<i>>, y)
<1> DEFINE st == [k \in {0, 1} |-> IF k = 0 THEN x ELSE y]
           c == <<i>>
<1>1. c \in Seq(S) /\ Len(c) = 1 /\ c[1] = i
  OBVIOUS
<1>2. st[0] = x /\ st[1] = y
  OBVIOUS
<1> HIDE DEF st, c
<1>3. \A k \in 1 .. Len(c) : <<st[k - 1], c[k], st[k]>> \in e
  <2>1. \A k \in 1 .. Len(c) : k = 1 /\ k - 1 = 0
    BY <1>1
  <2>2. QED
    BY <1>1, <1>2, <2>1
<1>4. QED
  BY <1>1, <1>2, <1>3 DEF Walk, c

LEMMA WalkConcat ==
    ASSUME NEW e, NEW S, NEW v \in Seq(S), NEW w \in Seq(S),
           NEW x, NEW y, NEW z, Walk(e, x, v, y), Walk(e, y, w, z)
    PROVE  Walk(e, x, v \o w, z)
<1> DEFINE c == v \o w
<1>1. /\ Len(v) \in Nat /\ Len(w) \in Nat /\ Len(c) = Len(v) + Len(w)
      /\ \A i \in 1 .. Len(v) : c[i] = v[i]
      /\ \A i \in 1 .. Len(w) : c[Len(v) + i] = w[i]
  BY ConcatSeq
<1>2. PICK f : /\ f[0] = x /\ f[Len(v)] = y
               /\ \A k \in 1 .. Len(v) : <<f[k - 1], v[k], f[k]>> \in e
  BY DEF Walk
<1>3. PICK g : /\ g[0] = y /\ g[Len(w)] = z
               /\ \A k \in 1 .. Len(w) : <<g[k - 1], w[k], g[k]>> \in e
  BY DEF Walk
<1> DEFINE st == [k \in 0 .. Len(c) |-> IF k <= Len(v) THEN f[k] ELSE g[k - Len(v)]]
<1> HIDE DEF c
<1>4. /\ \A k \in 0 .. Len(v) : st[k] = f[k]
      /\ \A k \in 0 .. Len(w) : st[Len(v) + k] = g[k]
  <2>1. \A k \in 0 .. Len(v) : k \in 0 .. Len(c) /\ k <= Len(v)
    BY <1>1
  <2>2. ASSUME NEW k \in 0 .. Len(w) PROVE st[Len(v) + k] = g[k]
    <3>1. Len(v) + k \in 0 .. Len(c) /\ (Len(v) + k) - Len(v) = k
      BY <1>1
    <3>2. CASE k = 0
      <4>1. Len(v) + k = Len(v)
        BY <1>1, <3>2
      <4>2. QED
        BY <1>1, <1>2, <1>3, <3>1, <3>2, <4>1
    <3>3. CASE k # 0
      <4>1. ~(Len(v) + k <= Len(v))
        BY <1>1, <3>3
      <4>2. QED
        BY <3>1, <4>1
    <3>4. QED
      BY <3>2, <3>3
  <2>3. QED
    BY <2>1, <2>2
<1> HIDE DEF st
<1>5. st[0] = x /\ st[Len(c)] = z
  BY <1>1, <1>2, <1>3, <1>4
<1>6. ASSUME NEW k \in 1 .. Len(c) PROVE <<st[k - 1], c[k], st[k]>> \in e
  <2>1. CASE k <= Len(v)
    <3>1. k \in 1 .. Len(v) /\ k - 1 \in 0 .. Len(v) /\ k \in 0 .. Len(v)
      BY <1>1, <2>1
    <3>2. QED
      BY <1>1, <1>2, <1>4, <3>1
  <2>2. CASE k > Len(v)
    <3> DEFINE j == k - Len(v)
    <3>1. /\ j \in 1 .. Len(w) /\ j - 1 \in 0 .. Len(w) /\ j \in 0 .. Len(w)
          /\ k = Len(v) + j /\ k - 1 = Len(v) + (j - 1)
      BY <1>1, <2>2
    <3> HIDE DEF j
    <3>2. c[k] = w[j] /\ st[k] = g[j] /\ st[k - 1] = g[j - 1]
      BY <1>1, <1>4, <3>1
    <3>3. QED
      BY <1>3, <3>1, <3>2
  <2>3. QED
    BY <1>1, <2>1, <2>2
<1>7. QED
  BY <1>5, <1>6 DEF Walk, c

\* Executing the first instruction.
LEMMA WalkOn ==
    ASSUME NEW e, NEW S, NEW c \in Seq(S), c # <<>>, NEW x, NEW z, Walk(e, x, c, z)
    PROVE  /\ Head(c) \in S /\ Tail(c) \in Seq(S)
           /\ \E y : <<x, Head(c), y>> \in e /\ Walk(e, y, Tail(c), z)
<1> DEFINE d == Tail(c)
<1>1. /\ d \in Seq(S) /\ Len(c) \in Nat /\ Len(d) = Len(c) - 1 /\ Len(c) >= 1
      /\ Head(c) = c[1] /\ Head(c) \in S
      /\ \A i \in 1 .. Len(d) : d[i] = c[i + 1]
  OBVIOUS
<1> HIDE DEF d
<1>2. PICK f : /\ f[0] = x /\ f[Len(c)] = z
               /\ \A k \in 1 .. Len(c) : <<f[k - 1], c[k], f[k]>> \in e
  BY DEF Walk
<1> DEFINE st == [k \in 0 .. Len(d) |-> f[k + 1]]
<1>3. st[0] = f[1] /\ st[Len(d)] = z
  BY <1>1, <1>2
<1>4. \A k \in 1 .. Len(d) : <<st[k - 1], d[k], st[k]>> \in e
  <2> SUFFICES ASSUME NEW k \in 1 .. Len(d) PROVE <<st[k - 1], d[k], st[k]>> \in e
    OBVIOUS
  <2>1. /\ k - 1 \in 0 .. Len(d) /\ k \in 0 .. Len(d) /\ (k - 1) + 1 = k
        /\ k + 1 \in 1 .. Len(c) /\ (k + 1) - 1 = k
    BY <1>1
  <2>2. st[k - 1] = f[k] /\ st[k] = f[k + 1]
    BY <2>1
  <2> HIDE DEF st
  <2>3. <<f[k], c[k + 1], f[k + 1]>> \in e
    BY <1>2, <2>1
  <2>4. QED
    BY <1>1, <2>2, <2>3
<1> HIDE DEF st
<1>5. Walk(e, f[1], d, z)
  BY <1>3, <1>4 DEF Walk
<1>6. <<x, c[1], f[1]>> \in e
  <2>1. 1 \in 1 .. Len(c) /\ 1 - 1 = 0
    BY <1>1
  <2>2. QED
    BY <1>2, <2>1
<1>7. QED
  BY <1>1, <1>5, <1>6 DEF d

LEMMA WalkFlatten ==
    ASSUME NEW e, NEW S, NEW n \in Nat, NEW seqs \in [1 .. n -> Seq(S)], NEW m,
           \A i \in 1 .. n : Walk(e, m[i - 1], seqs[i], m[i])
    PROVE  FlattenSeq(seqs) \in Seq(S) /\ Walk(e, m[0], FlattenSeq(seqs), m[n])
<1>1. PICK h \in [0 .. n -> Seq(S)] :
              /\ h[0] = <<>>
              /\ \A i \in 1 .. n : h[i] = h[i - 1] \o seqs[i]
              /\ FlattenSeq(seqs) = h[n]
  BY FlattenSteps
<1> DEFINE I == {i \in 0 .. n : Walk(e, m[0], h[i], m[i])}
<1>2. 0 \in I
  BY <1>1, WalkNothing
<1>3. ASSUME NEW i \in 0 .. n - 1, i \in I PROVE i + 1 \in I
  <2>1. i + 1 \in 1 .. n /\ (i + 1) - 1 = i /\ i \in 0 .. n /\ i + 1 \in 0 .. n
    OBVIOUS
  <2>2. h[i + 1] = h[i] \o seqs[i + 1] /\ h[i] \in Seq(S) /\ seqs[i + 1] \in Seq(S)
    BY <1>1, <2>1
  <2>3. Walk(e, m[0], h[i], m[i]) /\ Walk(e, m[i], seqs[i + 1], m[i + 1])
    BY <1>3, <2>1
  <2>4. Walk(e, m[0], h[i + 1], m[i + 1])
    BY <2>2, <2>3, WalkConcat
  <2>5. QED
    BY <2>1, <2>4
<1> HIDE DEF I
<1>4. 0 .. n \subseteq I
  BY <1>2, <1>3, PrefixInduction
<1>5. Walk(e, m[0], h[n], m[n])
  BY <1>4 DEF I
<1>6. QED
  BY <1>1, <1>5

-----------------------------------------------------------------------------
(* prog9.c and prog10.c: which functions are open.                          *)

NotEntered == <<"not entered">>
NoFunction == <<>>
InMain == <<"main">>
InFunc1 == <<"func1", "main">>

NestMarks == {NotEntered, NoFunction, InMain, InFunc1}

\* Which functions are open before and after an instruction.
Nesting ==
    {<<NotEntered, <<"entry", "main">>, InMain>>,
     <<InMain, <<"entry", "func1">>, InFunc1>>,
     <<InFunc1, <<"exit", "func1">>, InMain>>,
     <<InMain, <<"exit", "main">>, NoFunction>>,
     <<InFunc1, <<"says", "func1">>, InFunc1>>,
     <<InFunc1, <<"call", "func1">>, InFunc1>>,
     <<InFunc1, <<"call", "printf">>, InFunc1>>,
     <<InFunc1, <<"br">>, InFunc1>>,
     <<InFunc1, <<"ret">>, InFunc1>>,
     <<InMain, <<"alloca">>, InMain>>,
     <<InMain, <<"br">>, InMain>>,
     <<NoFunction, <<"ret">>, NoFunction>>}

NestInstructions == {x[2] : x \in Nesting}

LEMMA NestIs ==
    \A x, i, y : <<x, i, y>> \in Nesting <=>
        \/ x = NotEntered /\ i = <<"entry", "main">> /\ y = InMain
        \/ x = InMain /\ i = <<"entry", "func1">> /\ y = InFunc1
        \/ x = InFunc1 /\ i = <<"exit", "func1">> /\ y = InMain
        \/ x = InMain /\ i = <<"exit", "main">> /\ y = NoFunction
        \/ x = InFunc1 /\ i = <<"says", "func1">> /\ y = InFunc1
        \/ x = InFunc1 /\ i = <<"call", "func1">> /\ y = InFunc1
        \/ x = InFunc1 /\ i = <<"call", "printf">> /\ y = InFunc1
        \/ x = InFunc1 /\ i = <<"br">> /\ y = InFunc1
        \/ x = InFunc1 /\ i = <<"ret">> /\ y = InFunc1
        \/ x = InMain /\ i = <<"alloca">> /\ y = InMain
        \/ x = InMain /\ i = <<"br">> /\ y = InMain
        \/ x = NoFunction /\ i = <<"ret">> /\ y = NoFunction
<1> HIDE DEF NotEntered, NoFunction, InMain, InFunc1
<1>1. QED
  BY DEF Nesting

LEMMA NestInstructionsAre ==
    NestInstructions =
        {<<"entry", "main">>, <<"entry", "func1">>, <<"exit", "func1">>, <<"exit", "main">>,
         <<"says", "func1">>, <<"call", "func1">>, <<"call", "printf">>, <<"br">>, <<"ret">>,
         <<"alloca">>}
<1> HIDE DEF NotEntered, NoFunction, InMain, InFunc1
<1>1. QED
  BY DEF Nesting, NestInstructions


\* At most one instruction.
LEMMA WalkWhen ==
    ASSUME NEW e, NEW S, NEW b \in BOOLEAN, NEW i, NEW x, NEW y,
           IF b THEN i \in S /\ <<x, i, y>> \in e ELSE y = x
    PROVE  When(b, <<i>>) \in Seq(S) /\ Walk(e, x, When(b, <<i>>), y)
<1>1. CASE b
  BY <1>1, WalkOne DEF When
<1>2. CASE ~b
  <2>1. When(b, <<i>>) = <<>> /\ <<>> \in Seq(S)
    BY <1>2 DEF When
  <2>2. QED
    BY <1>2, <2>1, WalkNothing
<1>3. QED
  BY <1>1, <1>2

\* What the pass makes of the i-th instruction of a function.
Inserted(f, c, i) ==
    (((When(f = "main" /\ i = 1, <<<<"entry", f>>>>)
        \o When(f = "main" /\ c[i][1] = "ret", <<<<"exit", f>>>>))
       \o (IF i > 1 /\ Reported(c[i - 1]) THEN <<<<"exit", c[i - 1][2]>>>> ELSE <<>>))
      \o When(Reported(c[i]), <<<<"entry", c[i][2]>>>>))
     \o <<c[i]>>

\* It leads from x to y.
Inserts(f, c, i, x, y) ==
    \E x1, x2, x3, x4 :
        /\ IF f = "main" /\ i = 1 THEN <<x, <<"entry", f>>, x1>> \in Nesting ELSE x1 = x
        /\ IF f = "main" /\ c[i][1] = "ret" THEN <<x1, <<"exit", f>>, x2>> \in Nesting
           ELSE x2 = x1
        /\ IF i > 1 /\ Reported(c[i - 1]) THEN <<x2, <<"exit", c[i - 1][2]>>, x3>> \in Nesting
           ELSE x3 = x2
        /\ IF Reported(c[i]) THEN <<x3, <<"entry", c[i][2]>>, x4>> \in Nesting ELSE x4 = x3
        /\ <<x4, c[i], y>> \in Nesting

LEMMA WalkInserted ==
    ASSUME NEW f, NEW c, NEW i, NEW x, NEW y, Inserts(f, c, i, x, y)
    PROVE  Inserted(f, c, i) \in Seq(NestInstructions) /\ Walk(Nesting, x, Inserted(f, c, i), y)
<1> DEFINE b1 == f = "main" /\ i = 1
           b2 == f = "main" /\ c[i][1] = "ret"
           b3 == i > 1 /\ Reported(c[i - 1])
           b4 == Reported(c[i])
           i1 == <<"entry", f>>
           i2 == <<"exit", f>>
           i3 == <<"exit", c[i - 1][2]>>
           i4 == <<"entry", c[i][2]>>
           i5 == c[i]
           S == NestInstructions
<1>1. Inserted(f, c, i) =
         (((When(b1, <<i1>>) \o When(b2, <<i2>>)) \o When(b3, <<i3>>)) \o When(b4, <<i4>>)) \o <<i5>>
  BY Zenon DEF Inserted, When
<1>2. PICK x1, x2, x3, x4 :
         /\ IF b1 THEN <<x, i1, x1>> \in Nesting ELSE x1 = x
         /\ IF b2 THEN <<x1, i2, x2>> \in Nesting ELSE x2 = x1
         /\ IF b3 THEN <<x2, i3, x3>> \in Nesting ELSE x3 = x2
         /\ IF b4 THEN <<x3, i4, x4>> \in Nesting ELSE x4 = x3
         /\ <<x4, i5, y>> \in Nesting
  BY Zenon DEF Inserts
<1>3. \A u, j, v : <<u, j, v>> \in Nesting => j \in S
  BY DEF NestInstructions
<1>4. b1 \in BOOLEAN /\ b2 \in BOOLEAN /\ b3 \in BOOLEAN /\ b4 \in BOOLEAN
  BY DEF Reported, IsCall
<1> HIDE DEF b1, b2, b3, b4, i1, i2, i3, i4, i5, S
<1> DEFINE c1 == When(b1, <<i1>>)
           c2 == When(b2, <<i2>>)
           c3 == When(b3, <<i3>>)
           c4 == When(b4, <<i4>>)
           c5 == <<i5>>
<1>5. /\ c1 \in Seq(S) /\ Walk(Nesting, x, c1, x1)
      /\ c2 \in Seq(S) /\ Walk(Nesting, x1, c2, x2)
      /\ c3 \in Seq(S) /\ Walk(Nesting, x2, c3, x3)
      /\ c4 \in Seq(S) /\ Walk(Nesting, x3, c4, x4)
  BY <1>2, <1>3, <1>4, WalkWhen
<1>6. c5 \in Seq(S) /\ Walk(Nesting, x4, c5, y)
  BY <1>2, <1>3, WalkOne
<1> HIDE DEF c1, c2, c3, c4, c5
<1>7. c1 \o c2 \in Seq(S) /\ Walk(Nesting, x, c1 \o c2, x2)
  BY <1>5, WalkConcat, ConcatSeq
<1>8. (c1 \o c2) \o c3 \in Seq(S) /\ Walk(Nesting, x, (c1 \o c2) \o c3, x3)
  BY <1>5, <1>7, WalkConcat, ConcatSeq
<1>9. ((c1 \o c2) \o c3) \o c4 \in Seq(S) /\ Walk(Nesting, x, ((c1 \o c2) \o c3) \o c4, x4)
  BY <1>5, <1>8, WalkConcat, ConcatSeq
<1>10. /\ (((c1 \o c2) \o c3) \o c4) \o c5 \in Seq(S)
       /\ Walk(Nesting, x, (((c1 \o c2) \o c3) \o c4) \o c5, y)
  BY <1>6, <1>9, WalkConcat, ConcatSeq
<1>11. QED
  BY <1>1, <1>10 DEF c1, c2, c3, c4, c5, S

LEMMA NestInserted ==
    ASSUME NEW f, NEW c, NEW n \in Nat, DOMAIN c = 1 .. n, NEW m,
           \A i \in 1 .. n : Inserts(f, c, i, m[i - 1], m[i])
    PROVE  /\ InstrumentFunctions(f, c) \in Seq(NestInstructions)
           /\ Walk(Nesting, m[0], InstrumentFunctions(f, c), m[n])
<1> DEFINE made == [k \in DOMAIN c |-> Inserted(f, c, k)]
<1>1. InstrumentFunctions(f, c) = FlattenSeq(made)
  <2> DEFINE new == [k \in DOMAIN c |->
                     ((When(f = "main" /\ k = 1, <<<<"entry", f>>>>)
                       \o When(f = "main" /\ c[k][1] = "ret", <<<<"exit", f>>>>))
                      \o (IF k > 1 /\ Reported(c[k - 1])
                          THEN <<<<"exit", c[k - 1][2]>>>> ELSE <<>>))
                     \o When(Reported(c[k]), <<<<"entry", c[k][2]>>>>)]
  <2>1. InstrumentFunctions(f, c) = FlattenSeq([k \in DOMAIN c |-> new[k] \o <<c[k]>>])
    BY Zenon DEF InstrumentFunctions, Insert
  <2>2. \A k \in DOMAIN c : new[k] \o <<c[k]>> = Inserted(f, c, k)
    BY Zenon DEF Inserted
  <2> HIDE DEF new
  <2>3. [k \in DOMAIN c |-> new[k] \o <<c[k]>>] = made
    BY <2>2
  <2>4. QED
    BY <2>1, <2>3
<1>2. \A i \in 1 .. n : /\ Inserted(f, c, i) \in Seq(NestInstructions)
                        /\ Walk(Nesting, m[i - 1], Inserted(f, c, i), m[i])
  BY WalkInserted
<1>3. /\ made \in [1 .. n -> Seq(NestInstructions)]
      /\ \A i \in 1 .. n : Walk(Nesting, m[i - 1], made[i], m[i])
  BY <1>2
<1> HIDE DEF made
<1>4. /\ FlattenSeq(made) \in Seq(NestInstructions)
      /\ Walk(Nesting, m[0], FlattenSeq(made), m[n])
  BY <1>3, WalkFlatten
<1>5. QED
  BY <1>1, <1>4

-----------------------------------------------------------------------------
(* The code of main and of func1.                                           *)

\* Which functions are open before the first and after each instruction that
\* the source of main has.
MainMarks ==
    [k \in 0 .. 7 |-> IF k = 0 THEN NotEntered ELSE IF k = 7 THEN NoFunction
                      ELSE IF k \in {3, 5} THEN InFunc1 ELSE InMain]

MainSource ==
    <<<<"alloca">>, <<"br">>>> \o Times(2, <<Call("func1"), <<"br">>>>) \o <<<<"ret">>>>

LEMMA TimesTwice ==
    ASSUME NEW S, NEW s \in Seq(S)
    PROVE  Times(2, s) = s \o s
<1>1. PICK n \in Nat : n = 2
  OBVIOUS
<1> DEFINE rounds == [i \in 1 .. n |-> s]
<1>2. rounds \in [1 .. n -> Seq(S)] /\ \A i \in 1 .. n : rounds[i] = s
  OBVIOUS
<1>3. Times(2, s) = FlattenSeq(rounds)
  BY <1>1 DEF Times
<1> HIDE DEF rounds
<1>4. PICK h \in [0 .. n -> Seq(S)] :
              /\ h[0] = <<>>
              /\ \A i \in 1 .. n : h[i] = h[i - 1] \o rounds[i]
              /\ FlattenSeq(rounds) = h[n]
  BY <1>2, FlattenSteps
<1>5. h[1] = h[0] \o s /\ h[2] = h[1] \o s
  <2>1. 1 \in 1 .. n /\ 1 - 1 = 0 /\ 2 \in 1 .. n /\ 2 - 1 = 1
    BY <1>1
  <2>2. QED
    BY <1>2, <1>4, <2>1
<1>6. <<>> \o s = s
  OBVIOUS
<1>7. QED
  BY <1>1, <1>3, <1>4, <1>5, <1>6

LEMMA TwoTwoOne ==
    ASSUME NEW S, NEW i1 \in S, NEW i2 \in S, NEW i3 \in S, NEW i4 \in S, NEW i5 \in S
    PROVE  LET c == (<<i1, i2>> \o (<<i3, i4>> \o <<i3, i4>>)) \o <<i5>>
           IN  /\ DOMAIN c = 1 .. 7
               /\ c[1] = i1 /\ c[2] = i2 /\ c[3] = i3 /\ c[4] = i4
               /\ c[5] = i3 /\ c[6] = i4 /\ c[7] = i5
<1> DEFINE v == <<i1, i2>>
           w == <<i3, i4>>
           u == w \o w
           z == <<i5>>
           x == v \o u
           c == x \o z
<1>1. /\ v \in Seq(S) /\ Len(v) = 2 /\ v[1] = i1 /\ v[2] = i2
      /\ u \in Seq(S) /\ Len(u) = 4 /\ u[1] = i3 /\ u[2] = i4 /\ u[3] = i3 /\ u[4] = i4
      /\ z \in Seq(S) /\ Len(z) = 1 /\ z[1] = i5
  OBVIOUS
<1> HIDE DEF v, u, z
<1>0. v \in Seq(S) /\ u \in Seq(S) /\ z \in Seq(S)
  BY <1>1
<1>2. x \in Seq(S)
  BY <1>0, ConcatSeq
<1>4. /\ Len(v) \in Nat /\ Len(u) \in Nat /\ Len(x) = Len(v) + Len(u)
      /\ \A i \in 1 .. Len(v) : x[i] = v[i]
      /\ \A i \in 1 .. Len(u) : x[Len(v) + i] = u[i]
  BY <1>0, ConcatSeq
<1> HIDE DEF x
<1>5. /\ Len(x) = 6 /\ x[1] = i1 /\ x[2] = i2
      /\ x[3] = i3 /\ x[4] = i4 /\ x[5] = i3 /\ x[6] = i4
  <2>1. /\ 1 \in 1 .. Len(v) /\ 2 \in 1 .. Len(v)
        /\ 1 \in 1 .. Len(u) /\ 2 \in 1 .. Len(u) /\ 3 \in 1 .. Len(u) /\ 4 \in 1 .. Len(u)
        /\ Len(v) + 1 = 3 /\ Len(v) + 2 = 4 /\ Len(v) + 3 = 5 /\ Len(v) + 4 = 6
    BY <1>1
  <2>2. QED
    BY <1>1, <1>4, <2>1
<1>6. /\ Len(x) \in Nat /\ Len(z) \in Nat /\ Len(c) = Len(x) + Len(z)
      /\ \A i \in 1 .. Len(x) : c[i] = x[i]
      /\ \A i \in 1 .. Len(z) : c[Len(x) + i] = z[i]
  BY <1>0, <1>2, ConcatSeq
<1>7. c \in Seq(S)
  BY <1>0, <1>2, ConcatSeq
<1> HIDE DEF c
<1>3. /\ Len(c) = 7 /\ (\A i \in 1 .. 6 : c[i] = x[i]) /\ c[7] = i5
  <2>1. 1 \in 1 .. Len(z) /\ Len(x) + 1 = 7 /\ Len(x) = 6
    BY <1>1, <1>5
  <2>2. QED
    BY <1>1, <1>6, <2>1
<1>8. /\ DOMAIN c = 1 .. 7
      /\ c[1] = i1 /\ c[2] = i2 /\ c[3] = i3 /\ c[4] = i4
      /\ c[5] = i3 /\ c[6] = i4 /\ c[7] = i5
  BY <1>5, <1>7, <1>3
<1>9. QED
  BY <1>8 DEF c, x, z, u, v

LEMMA MainSourceIs ==
    LET c == MainSource
    IN  /\ DOMAIN c = 1 .. 7
        /\ c[1] = <<"alloca">> /\ c[2] = <<"br">>
        /\ c[3] = Call("func1") /\ c[4] = <<"br">>
        /\ c[5] = Call("func1") /\ c[6] = <<"br">>
        /\ c[7] = <<"ret">>
<1> DEFINE round == <<Call("func1"), <<"br">>>>
           S == {<<"alloca">>, <<"br">>, Call("func1"), <<"ret">>}
<1>1. Times(2, round) = round \o round
  <2>1. round \in Seq(S)
    OBVIOUS
  <2>2. QED
    BY <2>1, TimesTwice
<1>2. MainSource = (<<<<"alloca">>, <<"br">>>> \o (round \o round)) \o <<<<"ret">>>>
  BY <1>1, Zenon DEF MainSource
<1>3. <<"alloca">> \in S /\ <<"br">> \in S /\ Call("func1") \in S /\ <<"ret">> \in S
  OBVIOUS
<1> HIDE DEF S
<1>4. QED
  <2>1. LET c == (<<<<"alloca">>, <<"br">>>> \o (round \o round)) \o <<<<"ret">>>>
        IN  /\ DOMAIN c = 1 .. 7
            /\ c[1] = <<"alloca">> /\ c[2] = <<"br">>
            /\ c[3] = Call("func1") /\ c[4] = <<"br">>
            /\ c[5] = Call("func1") /\ c[6] = <<"br">>
            /\ c[7] = <<"ret">>
    BY <1>3, TwoTwoOne
  <2> HIDE DEF round
  <2>2. QED
    BY <1>2, <2>1

LEMMA ReportedIs ==
    /\ ~Reported(<<"alloca">>) /\ ~Reported(<<"br">>) /\ ~Reported(<<"ret">>)
    /\ ~Reported(Call("printf")) /\ \A f : ~Reported(<<"says", f>>)
    /\ Reported(Call("func1")) /\ Call("func1")[2] = "func1"
    /\ \A f : <<"says", f>>[1] = "says"
    /\ <<"ret">>[1] = "ret" /\ <<"br">>[1] = "br" /\ <<"alloca">>[1] = "alloca"
    /\ Call("func1")[1] = "call" /\ Call("printf")[1] = "call"
<1>1. Call("func1") # Call("printf")
  <2>1. Call("func1")[2] = "func1" /\ Call("printf")[2] = "printf"
    BY DEF Call
  <2>2. QED
    BY <2>1
<1>2. QED
  BY <1>1 DEF Reported, IsCall, Call

LEMMA MainWalks ==
    LET c == InstrumentFunctions("main", MainSource)
    IN  c \in Seq(NestInstructions) /\ Walk(Nesting, NotEntered, c, NoFunction)
<1> DEFINE c == MainSource
           m == MainMarks
<1>1. /\ m[0] = NotEntered /\ m[1] = InMain /\ m[2] = InMain /\ m[3] = InFunc1
      /\ m[4] = InMain /\ m[5] = InFunc1 /\ m[6] = InMain /\ m[7] = NoFunction
  <2> HIDE DEF NotEntered, NoFunction, InMain, InFunc1
  <2>1. QED
    BY DEF MainMarks
<1>2. /\ DOMAIN c = 1 .. 7
      /\ c[1] = <<"alloca">> /\ c[2] = <<"br">>
      /\ c[3] = Call("func1") /\ c[4] = <<"br">>
      /\ c[5] = Call("func1") /\ c[6] = <<"br">>
      /\ c[7] = <<"ret">>
  BY MainSourceIs
<1> HIDE DEF c, m
<1> USE DEF Inserts
<1>3. Inserts("main", c, 1, NotEntered, InMain)
  <2>1. /\ <<NotEntered, <<"entry", "main">>, InMain>> \in Nesting
        /\ <<InMain, c[1], InMain>> \in Nesting
    BY <1>2, NestIs
  <2>2. ~(c[1][1] = "ret") /\ ~Reported(c[1]) /\ ~(1 > 1)
    BY <1>2, ReportedIs
  <2>3. QED
    BY <2>1, <2>2
<1>4. Inserts("main", c, 2, InMain, InMain)
  <2>1. <<InMain, c[2], InMain>> \in Nesting
    BY <1>2, NestIs
  <2>2. ~(c[2][1] = "ret") /\ ~Reported(c[2]) /\ ~(2 = 1) /\ ~Reported(c[2 - 1])
    BY <1>2, ReportedIs
  <2>3. QED
    BY <2>1, <2>2
<1>5. ASSUME NEW i \in {3, 5} PROVE Inserts("main", c, i, InMain, InFunc1)
  <2>0. c[i] = Call("func1") /\ c[i - 1] = <<"br">> /\ i > 1 /\ i # 1
    BY <1>2
  <2>1. /\ <<InMain, <<"entry", c[i][2]>>, InFunc1>> \in Nesting
        /\ <<InFunc1, c[i], InFunc1>> \in Nesting
    BY <2>0, NestIs, ReportedIs DEF Call
  <2>2. ~(c[i][1] = "ret") /\ Reported(c[i]) /\ ~Reported(c[i - 1])
    BY <2>0, ReportedIs
  <2>3. QED
    BY <2>0, <2>1, <2>2
<1>6. ASSUME NEW i \in {4, 6} PROVE Inserts("main", c, i, InFunc1, InMain)
  <2>0. c[i] = <<"br">> /\ c[i - 1] = Call("func1") /\ i > 1 /\ i # 1
    BY <1>2
  <2>1. /\ <<InFunc1, <<"exit", c[i - 1][2]>>, InMain>> \in Nesting
        /\ <<InMain, c[i], InMain>> \in Nesting
    BY <2>0, NestIs, ReportedIs DEF Call
  <2>2. ~(c[i][1] = "ret") /\ ~Reported(c[i]) /\ Reported(c[i - 1])
    BY <2>0, ReportedIs
  <2>3. QED
    BY <2>0, <2>1, <2>2
<1>7. Inserts("main", c, 7, InMain, NoFunction)
  <2>0. c[7] = <<"ret">> /\ c[7 - 1] = <<"br">>
    BY <1>2
  <2>1. /\ <<InMain, <<"exit", "main">>, NoFunction>> \in Nesting
        /\ <<NoFunction, c[7], NoFunction>> \in Nesting
    BY <2>0, NestIs
  <2>2. c[7][1] = "ret" /\ ~Reported(c[7]) /\ ~(7 = 1) /\ ~Reported(c[7 - 1])
    BY <2>0, ReportedIs
  <2>3. QED
    BY <2>1, <2>2
<1> HIDE DEF Inserts
<1>8. \A i \in 1 .. 7 : Inserts("main", c, i, m[i - 1], m[i])
  <2> SUFFICES ASSUME NEW i \in 1 .. 7 PROVE Inserts("main", c, i, m[i - 1], m[i])
    OBVIOUS
  <2>1. i = 1 \/ i = 2 \/ i = 3 \/ i = 4 \/ i = 5 \/ i = 6 \/ i = 7
    OBVIOUS
  <2>2. 1 - 1 = 0 /\ 2 - 1 = 1 /\ 3 - 1 = 2 /\ 4 - 1 = 3 /\ 5 - 1 = 4 /\ 6 - 1 = 5 /\ 7 - 1 = 6
    OBVIOUS
  <2>3. QED
    BY <1>1, <1>3, <1>4, <1>5, <1>6, <1>7, <2>1, <2>2
<1>9. /\ InstrumentFunctions("main", c) \in Seq(NestInstructions)
      /\ Walk(Nesting, m[0], InstrumentFunctions("main", c), m[7])
  BY <1>2, <1>8, NestInserted
<1>10. QED
  BY <1>1, <1>9 DEF c

LEMMA BodiesWalk ==
    ASSUME NEW f \in {"func1", "printf"}, NEW body \in Bodies(f)
    PROVE  body \in Seq(NestInstructions) /\ Walk(Nesting, InFunc1, body, InFunc1)
<1> DEFINE long == <<<<"says", "func1">>, Call("printf"), <<"ret">>>>
           short == <<<<"br">>, <<"ret">>>>
           m == [k \in 0 .. 3 |-> InFunc1]
<1>1. f = "printf" => body = <<>>
  BY LockBodies
<1>2. f = "func1" => body = InstrumentFunctions("func1", long)
                       \/ body = InstrumentFunctions("func1", short)
  BY DEF Bodies
<1>3. /\ DOMAIN long = 1 .. 3 /\ DOMAIN short = 1 .. 2
      /\ long[1] = <<"says", "func1">> /\ long[2] = Call("printf") /\ long[3] = <<"ret">>
      /\ short[1] = <<"br">> /\ short[2] = <<"ret">>
  OBVIOUS
<1>4. \A k \in 0 .. 3 : m[k] = InFunc1
  OBVIOUS
<1> HIDE DEF long, short, m
<1>5. ASSUME NEW c, NEW i \in 1 .. 3, i > 1 => ~Reported(c[i - 1]), ~Reported(c[i]),
             <<InFunc1, c[i], InFunc1>> \in Nesting
      PROVE  Inserts("func1", c, i, m[i - 1], m[i])
  <2>1. m[i - 1] = InFunc1 /\ m[i] = InFunc1
    BY <1>4
  <2>2. "func1" # "main"
    OBVIOUS
  <2>3. QED
    BY <1>5, <2>1, <2>2 DEF Inserts
<1>6. /\ <<InFunc1, <<"says", "func1">>, InFunc1>> \in Nesting
      /\ <<InFunc1, Call("printf"), InFunc1>> \in Nesting
      /\ <<InFunc1, <<"br">>, InFunc1>> \in Nesting
      /\ <<InFunc1, <<"ret">>, InFunc1>> \in Nesting
  BY NestIs DEF Call
<1>7. \A i \in 1 .. 3 : Inserts("func1", long, i, m[i - 1], m[i])
  <2> SUFFICES ASSUME NEW i \in 1 .. 3 PROVE Inserts("func1", long, i, m[i - 1], m[i])
    OBVIOUS
  <2>1. i = 1 \/ i = 2 \/ i = 3
    OBVIOUS
  <2>2. i > 1 => ~Reported(long[i - 1])
    BY <1>3, <2>1, ReportedIs
  <2>3. ~Reported(long[i]) /\ <<InFunc1, long[i], InFunc1>> \in Nesting
    BY <1>3, <1>6, <2>1, ReportedIs
  <2>4. QED
    BY <1>5, <2>2, <2>3
<1>8. \A i \in 1 .. 2 : Inserts("func1", short, i, m[i - 1], m[i])
  <2> SUFFICES ASSUME NEW i \in 1 .. 2 PROVE Inserts("func1", short, i, m[i - 1], m[i])
    OBVIOUS
  <2>1. (i = 1 \/ i = 2) /\ i \in 1 .. 3
    OBVIOUS
  <2>2. i > 1 => ~Reported(short[i - 1])
    BY <1>3, <2>1, ReportedIs
  <2>3. ~Reported(short[i]) /\ <<InFunc1, short[i], InFunc1>> \in Nesting
    BY <1>3, <1>6, <2>1, ReportedIs
  <2>4. QED
    BY <1>5, <2>1, <2>2, <2>3
<1>0. m[0] = InFunc1 /\ m[2] = InFunc1 /\ m[3] = InFunc1 /\ 2 \in Nat /\ 3 \in Nat
  BY <1>4
<1>9. /\ InstrumentFunctions("func1", long) \in Seq(NestInstructions)
      /\ Walk(Nesting, m[0], InstrumentFunctions("func1", long), m[3])
  BY <1>0, <1>3, <1>7, NestInserted, Zenon
<1>10. /\ InstrumentFunctions("func1", short) \in Seq(NestInstructions)
       /\ Walk(Nesting, m[0], InstrumentFunctions("func1", short), m[2])
  BY <1>0, <1>3, <1>8, NestInserted, Zenon
<1>11. <<>> \in Seq(NestInstructions) /\ Walk(Nesting, InFunc1, <<>>, InFunc1)
  BY WalkNothing
<1>12. QED
  BY <1>0, <1>1, <1>2, <1>9, <1>10, <1>11

-----------------------------------------------------------------------------
(* What is printed opens and closes functions.                              *)

Reports ==
    {<<"entry", "main">>, <<"entry", "func1">>, <<"exit", "func1">>, <<"exit", "main">>,
     <<"says", "func1">>}

Names == {"main", "func1", "bad"}

LEMMA AfterType ==
    ASSUME NEW open \in Seq(Names), NEW line \in Reports
    PROVE  After(open, line) \in Seq(Names)
<1>1. <<"bad">> \in Seq(Names) /\ <<>> \in Seq(Names)
  BY DEF Names
<1>2. line[2] \in Names /\ line[1] \in {"entry", "exit", "says"}
  BY DEF Reports, Names
<1>3. <<line[2]>> \o open \in Seq(Names)
  BY <1>2
<1>4. open # <<>> => Tail(open) \in Seq(Names)
  OBVIOUS
<1>5. QED
  BY <1>1, <1>2, <1>3, <1>4 DEF After

\* Which functions are open while the lines are printed.
IsOpening(g, n, lines, end) ==
    /\ g[0] = <<>>
    /\ \A i \in 1 .. n : g[i] = After(g[i - 1], lines[i])
    /\ g[n] = end

LEMMA OpenSteps ==
    ASSUME NEW lines \in Seq(Reports)
    PROVE  \E g : IsOpening(g, Len(lines), lines, Open(lines))
<1> DEFINE n == Len(lines)
           V == Seq(Names)
           b == <<>>
           st == [p \in (1 .. n) \X V |-> After(p[2], lines[p[1]])]
           Body(g) == [s \in SUBSET (1 .. n) |->
                         IF s = {} THEN b ELSE After(g[s \ {Max(s)}], lines[Max(s)])]
           h == CHOOSE g : g = [s \in SUBSET DOMAIN lines |->
                         IF s = {} THEN b ELSE After(g[s \ {Max(s)}], lines[Max(s)])]
<1>0. n \in Nat /\ DOMAIN lines = 1 .. n /\ b \in V /\ \A i \in 1 .. n : lines[i] \in Reports
  OBVIOUS
<1> HIDE DEF n, b
<1>1. ASSUME NEW acc \in V, NEW i \in 1 .. n PROVE After(acc, lines[i]) \in V
  BY <1>0, AfterType
<1> HIDE DEF V
<1>2. st \in [(1 .. n) \X V -> V]
  BY <1>1
<1>3. PICK g \in [SUBSET (1 .. n) -> V] : IsIndexFold(g, n, b, st)
  <2> HIDE DEF st, Body, h
  <2>1. QED
    BY <1>0, <1>2, IndexFoldExists
<1>4. g = Body(g)
  <2>1. ASSUME NEW s \in SUBSET (1 .. n), s # {}
        PROVE  g[s] = After(g[s \ {Max(s)}], lines[Max(s)])
    BY <1>0, <1>3, <2>1, FoldArguments DEF IsIndexFold
  <2>2. g[{}] = b
    BY <1>3 DEF IsIndexFold
  <2>3. QED
    BY <2>1, <2>2
<1>5. h = Body(h)
  <2>1. h = CHOOSE f0 : f0 = Body(f0)
    BY <1>0
  <2> HIDE DEF Body, h
  <2>2. QED
    BY <1>4, <2>1
<1>6. Open(lines) = h[1 .. n]
  <2>1. Open(lines) = h[DOMAIN lines]
    BY Zenon DEF Open, FoldLeft, MapThenFoldSet, b
  <2> HIDE DEF h
  <2>2. QED
    BY <1>0, <2>1
<1> HIDE DEF h
<1>7. h[{}] = b /\ Folds(h, n, V, st)
  <2>1. ASSUME NEW s \in SUBSET (1 .. n), s # {}, h[s \ {Max(s)}] \in V
        PROVE  h[s] = st[<<Max(s), h[s \ {Max(s)}]>>]
    <3>1. Max(s) \in 1 .. n
      BY <1>0, <2>1, MaxExists
    <3>2. QED
      BY <1>5, <2>1, <3>1
  <2>2. QED
    BY <1>5, <2>1 DEF Folds
<1>8. PICK f0 \in [0 .. n -> V] : IsLoop(f0, n, b, st, h[1 .. n])
  <2> HIDE DEF st, Body
  <2>1. QED
    BY <1>0, <1>2, <1>7, IndexFoldSteps
<1>9. ASSUME NEW i \in 1 .. n PROVE f0[i] = After(f0[i - 1], lines[i])
  <2>1. <<i, f0[i - 1]>> \in (1 .. n) \X V
    BY <1>0
  <2>2. QED
    BY <1>8, <2>1 DEF IsLoop
<1>10. QED
  BY <1>6, <1>8, <1>9 DEF IsLoop, IsOpening, n, b

LEMMA OpenNothing == Open(<<>>) = <<>>
<1>1. <<>> \in Seq(Reports) /\ Len(<<>>) = 0
  OBVIOUS
<1>2. PICK g : IsOpening(g, 0, <<>>, Open(<<>>))
  BY <1>1, OpenSteps
<1>3. QED
  BY <1>2 DEF IsOpening

LEMMA OpenOneMore ==
    ASSUME NEW lines \in Seq(Reports), NEW line \in Reports
    PROVE  /\ Append(lines, line) \in Seq(Reports)
           /\ Open(Append(lines, line)) = After(Open(lines), line)
<1> DEFINE n == Len(lines)
           more == Append(lines, line)
<1>1. /\ n \in Nat /\ more \in Seq(Reports) /\ Len(more) = n + 1 /\ more[n + 1] = line
      /\ \A i \in 1 .. n : more[i] = lines[i]
  OBVIOUS
<1>2. PICK f : IsOpening(f, n, lines, Open(lines))
  BY OpenSteps
<1> HIDE DEF more
<1>3. PICK g : IsOpening(g, Len(more), more, Open(more))
  BY <1>1, OpenSteps
<1> HIDE DEF n
<1>4. IsOpening(g, n + 1, more, Open(more))
  BY <1>1, <1>3
<1> DEFINE S == {i \in 0 .. n : g[i] = f[i]}
<1>5. 0 \in S
  BY <1>1, <1>2, <1>4 DEF IsOpening
<1>6. ASSUME NEW i \in 0 .. n - 1, i \in S PROVE i + 1 \in S
  <2>1. i + 1 \in 1 .. n /\ (i + 1) - 1 = i /\ i + 1 \in 1 .. n + 1 /\ i + 1 \in 0 .. n
    BY <1>1
  <2>2. g[i + 1] = After(g[i], more[i + 1]) /\ f[i + 1] = After(f[i], lines[i + 1])
    BY <1>2, <1>4, <2>1 DEF IsOpening
  <2>3. QED
    BY <1>1, <1>6, <2>1, <2>2
<1> HIDE DEF S
<1>7. 0 .. n \subseteq S
  BY <1>1, <1>5, <1>6, PrefixInduction
<1>8. g[n] = f[n]
  BY <1>1, <1>7 DEF S
<1>9. g[n + 1] = After(g[n], line)
  <2>1. n + 1 \in 1 .. n + 1 /\ (n + 1) - 1 = n
    BY <1>1
  <2>2. QED
    BY <1>1, <1>4, <2>1 DEF IsOpening
<1>10. QED
  BY <1>1, <1>2, <1>4, <1>8, <1>9 DEF IsOpening, more, n

\* The functions that a mark stands for.
OpenAt(x) == IF x = NotEntered THEN <<>> ELSE x

LEMMA NotEnteredIsNew ==
    NotEntered # InFunc1 /\ NotEntered # InMain /\ NotEntered # NoFunction
<1>1. "not entered" # "main"
  OBVIOUS
<1>2. QED
  BY <1>1 DEF NoFunction, InMain, InFunc1, NotEntered

LEMMA AfterNesting ==
    ASSUME NEW x \in NestMarks, NEW i \in Reports, NEW y, <<x, i, y>> \in Nesting
    PROVE  After(OpenAt(x), i) = y /\ OpenAt(y) = y
<1>1. /\ OpenAt(NotEntered) = NoFunction /\ OpenAt(InMain) = InMain
      /\ OpenAt(InFunc1) = InFunc1 /\ OpenAt(NoFunction) = NoFunction
  BY NotEnteredIsNew DEF OpenAt, NoFunction
<1>2. /\ NoFunction # <<"bad">> /\ InMain # <<"bad">> /\ InFunc1 # <<"bad">>
      /\ InMain # <<>> /\ InFunc1 # <<>>
      /\ Head(InMain) = "main" /\ Tail(InMain) = NoFunction
      /\ Head(InFunc1) = "func1" /\ Tail(InFunc1) = InMain
      /\ <<"main">> \o NoFunction = InMain /\ <<"func1">> \o InMain = InFunc1
  <2>1. \A m, n : /\ Head(<<m>>) = m /\ Tail(<<m>>) = <<>>
                  /\ Head(<<m, n>>) = m /\ Tail(<<m, n>>) = <<n>>
                  /\ <<m>> \o <<>> = <<m>> /\ <<m>> \o <<n>> = <<m, n>>
    <3>1. \A m, n : Head(<<m>>) = m /\ Head(<<m, n>>) = m
      OBVIOUS
    <3>2. \A m : Tail(<<m>>) = <<>>
      OBVIOUS
    <3>3. \A m, n : Tail(<<m, n>>) = <<n>>
      OBVIOUS
    <3>4. \A m : <<m>> \o <<>> = <<m>>
      OBVIOUS
    <3>5. \A m, n : <<m>> \o <<n>> = <<m, n>>
      <4> TAKE m, n
      <4>1. m \in {m, n} /\ n \in {m, n}
        OBVIOUS
      <4>2. QED
        BY <4>1, PairConcat
    <3>6. QED
      BY <3>1, <3>2, <3>3, <3>4, <3>5, Zenon
  <2>2. \A m, n : <<m>> # <<>> /\ <<m, n>> # <<>> /\ <<m, n>> # <<"bad">>
    OBVIOUS
  <2>3. <<"main">> # <<"bad">>
    OBVIOUS
  <2>4. QED
    BY <2>1, <2>2, <2>3, Zenon DEF NoFunction, InMain, InFunc1
<1>3. i[1] \in {"entry", "exit", "says"}
  BY DEF Reports
<1>4. \/ x = NotEntered /\ i = <<"entry", "main">> /\ y = InMain
      \/ x = InMain /\ i = <<"entry", "func1">> /\ y = InFunc1
      \/ x = InFunc1 /\ i = <<"exit", "func1">> /\ y = InMain
      \/ x = InMain /\ i = <<"exit", "main">> /\ y = NoFunction
      \/ x = InFunc1 /\ i = <<"says", "func1">> /\ y = InFunc1
  BY <1>3, NestIs
<1> HIDE DEF NotEntered, NoFunction, InMain, InFunc1
<1> DEFINE z == OpenAt(x)
<1>5. \/ z = NoFunction /\ i = <<"entry", "main">> /\ y = InMain
      \/ z = InMain /\ i = <<"entry", "func1">> /\ y = InFunc1
      \/ z = InFunc1 /\ i = <<"exit", "func1">> /\ y = InMain
      \/ z = InMain /\ i = <<"exit", "main">> /\ y = NoFunction
      \/ z = InFunc1 /\ i = <<"says", "func1">> /\ y = InFunc1
  BY <1>1, <1>4
<1> HIDE DEF z
<1>6. After(z, i) = y
  <2>1. CASE i[1] = "says"
    BY <1>2, <1>5, <2>1 DEF After
  <2>2. CASE i[1] = "exit"
    BY <1>2, <1>5, <2>2 DEF After
  <2>3. CASE i = <<"entry", "main">>
    <3>1. z = NoFunction /\ y = InMain /\ i[1] = "entry" /\ i[2] = "main"
      BY <1>5, <2>3
    <3>2. After(z, i) = <<"main">> \o NoFunction
      BY <1>2, <3>1, Zenon DEF After
    <3>3. QED
      BY <1>2, <3>1, <3>2
  <2>4. CASE i = <<"entry", "func1">>
    <3>1. z = InMain /\ y = InFunc1 /\ i[1] = "entry" /\ i[2] = "func1"
      BY <1>5, <2>4
    <3>2. After(z, i) = <<"func1">> \o InMain
      BY <1>2, <3>1, Zenon DEF After
    <3>3. QED
      BY <1>2, <3>1, <3>2
  <2>5. QED
    BY <1>5, <2>1, <2>2, <2>3, <2>4
<1>7. OpenAt(y) = y
  BY <1>1, <1>5
<1>8. QED
  BY <1>6, <1>7 DEF z

-----------------------------------------------------------------------------
(* The machine with prog9.c or prog10.c.                                    *)

NestedAt(x) ==
    /\ Walk(Nesting, x, code[0], NoFunction)
    /\ Open(log[0]) = OpenAt(x)
    /\ log[0] = <<>> => x = NotEntered

NestInv ==
    /\ code[0] \in Seq(NestInstructions)
    /\ \A t \in ThreadIds : t # 0 => code[t] = <<>>
    /\ DOMAIN code = ThreadIds /\ DOMAIN log = ThreadIds
    /\ log[0] \in Seq(Reports)
    /\ \E x \in NestMarks : NestedAt(x)

InstrumentedInv == prog.file \in {"prog9.c", "prog10.c"} => NestInv

LEMMA NestOps ==
    \A i \in NestInstructions :
        /\ i[1] \in {"entry", "exit", "says", "call", "br", "ret", "alloca"}
        /\ i[1] \in {"entry", "exit", "says"} <=> i \in Reports
        /\ i[1] = "call" => i[2] \in {"func1", "printf"}
<1> SUFFICES ASSUME NEW i \in NestInstructions
             PROVE  /\ i[1] \in {"entry", "exit", "says", "call", "br", "ret", "alloca"}
                    /\ i[1] \in {"entry", "exit", "says"} <=> i \in Reports
                    /\ i[1] = "call" => i[2] \in {"func1", "printf"}
  OBVIOUS
<1>1. \/ i = <<"entry", "main">> \/ i = <<"entry", "func1">> \/ i = <<"exit", "func1">>
      \/ i = <<"exit", "main">> \/ i = <<"says", "func1">> \/ i = <<"call", "func1">>
      \/ i = <<"call", "printf">> \/ i = <<"br">> \/ i = <<"ret">> \/ i = <<"alloca">>
  BY NestInstructionsAre
<1>2. QED
  BY <1>1 DEF Reports

LEMMA NestStart == MachineInit => InstrumentedInv
<1> SUFFICES ASSUME MachineInit, prog.file \in {"prog9.c", "prog10.c"} PROVE NestInv
  BY DEF InstrumentedInv
<1>1. prog \in instrfuncs /\ code = InstrfuncsCode(prog)
  <2>1. prog \notin prog11
    BY DEF prog11
  <2>2. prog \notin AccountPrograms
    BY DEF AccountPrograms, lock_example, thread_example, thread_example_2, Account
  <2>3. QED
    BY <2>1, <2>2 DEF MachineInit
<1>2. 0 \in ThreadIds
  BY ProgramsAssumption DEF ProgramsAssumption, ThreadIds
<1>3. code[0] = InstrumentFunctions("main", MainSource)
  <2>1. prog.file # "example.c"
    OBVIOUS
  <2>2. QED
    BY <1>1, <1>2, <2>1, Zenon DEF InstrfuncsCode, MainSource
<1>4. /\ \A t \in ThreadIds : t # 0 => code[t] = <<>>
      /\ DOMAIN code = ThreadIds
  BY <1>1, Zenon DEF InstrfuncsCode
<1>5. DOMAIN log = ThreadIds /\ log[0] = <<>>
  BY <1>2 DEF MachineInit
<1>6. code[0] \in Seq(NestInstructions) /\ Walk(Nesting, NotEntered, code[0], NoFunction)
  BY <1>3, MainWalks
<1>7. Open(log[0]) = OpenAt(NotEntered)
  BY <1>5, OpenNothing DEF OpenAt
<1>8. NotEntered \in NestMarks /\ log[0] \in Seq(Reports)
  BY <1>5 DEF NestMarks
<1>9. QED
  BY <1>4, <1>5, <1>6, <1>7, <1>8 DEF NestInv, NestedAt

\* Nothing but main runs.
LEMMA NestStep ==
    ASSUME NestInv, prog.file \in {"prog9.c", "prog10.c"}, NEW t \in ThreadIds, Step(t)
    PROVE  NestInv'
<1> DEFINE i == Head(code[0])
           rest == Tail(code[0])
<1>0. PICK x \in NestMarks : NestedAt(x)
  BY DEF NestInv
<1> USE DEF NestedAt
<1>1. t = 0 /\ code[0] # <<>>
  <2>1. code[t] # <<>>
    BY DEF Step, Load, Store, LockMutex, UnlockMutex, CallFunction, Create, Join, PrintLine,
           PrintBalance, Pass, Ready, Ended
  <2>2. QED
    BY <2>1 DEF NestInv
<1>2. PICK y : <<x, i, y>> \in Nesting /\ Walk(Nesting, y, rest, NoFunction)
  BY <1>0, <1>1, WalkOn DEF NestInv
<1>3. i \in NestInstructions /\ rest \in Seq(NestInstructions) /\ 0 \in ThreadIds
  BY <1>0, <1>1, WalkOn DEF NestInv
<1>4. i[1] \in {"entry", "exit", "says", "call", "br", "ret", "alloca"}
  BY <1>3, NestOps
<1>5. y \in NestMarks
  BY <1>2, NestIs DEF NestMarks
<1>6. CASE PrintLine(0)
  <2>1. i \in Reports
    BY <1>3, <1>4, <1>6, NestOps DEF PrintLine, Ready
  <2>2. log' = [log EXCEPT ![0] = Append(log[0], i)] /\ code' = [code EXCEPT ![0] = rest]
    BY <1>6 DEF PrintLine, Go
  <2>3. log'[0] = Append(log[0], i) /\ code'[0] = rest
    BY <1>3, <2>2 DEF NestInv
  <2>4. Append(log[0], i) \in Seq(Reports) /\ Open(log'[0]) = OpenAt(y) /\ log'[0] # <<>>
    <3>1. log[0] \in Seq(Reports)
      BY DEF NestInv
    <3>2. Append(log[0], i) \in Seq(Reports) /\ Open(Append(log[0], i)) = After(OpenAt(x), i)
      BY <1>0, <2>1, <3>1, OpenOneMore
    <3>3. After(OpenAt(x), i) = OpenAt(y)
      BY <1>2, <1>5, <2>1, AfterNesting
    <3>4. Append(log[0], i) # <<>>
      BY <3>1
    <3>5. QED
      BY <2>3, <3>2, <3>3, <3>4
  <2>5. /\ \A u \in ThreadIds : u # 0 => code'[u] = <<>>
        /\ DOMAIN code' = ThreadIds /\ DOMAIN log' = ThreadIds
    BY <2>2 DEF NestInv
  <2> HIDE DEF i, rest
  <2>6. QED
    BY <1>2, <1>3, <1>5, <2>3, <2>4, <2>5 DEF NestInv
<1>7. CASE CallFunction(0)
  <2>1. i[1] = "call" /\ i[2] \in {"func1", "printf"} /\ i \notin Reports
    BY <1>3, <1>7, NestOps DEF CallFunction, Ready
  <2>2. PICK body \in Bodies(i[2]) : code' = [code EXCEPT ![0] = body \o rest]
    BY <1>7 DEF CallFunction
  <2>3. log' = log
    BY <1>7 DEF CallFunction
  <2>4. x = InFunc1 /\ y = InFunc1 /\ log[0] # <<>>
    <3>1. NotEntered # InFunc1
      BY NotEnteredIsNew
    <3> HIDE DEF NotEntered, NoFunction, InMain, InFunc1
    <3>2. x = InFunc1 /\ y = InFunc1
      <4>1. i # <<"br">> /\ i # <<"ret">> /\ i # <<"alloca">>
        BY <2>1
      <4>2. QED
        BY <1>2, <2>1, <4>1, NestIs DEF Reports
    <3>3. QED
      BY <1>0, <3>1, <3>2
  <2>5. code'[0] = body \o rest
    BY <1>3, <2>2 DEF NestInv
  <2>6. body \in Seq(NestInstructions) /\ Walk(Nesting, InFunc1, body, InFunc1)
    BY <2>1, BodiesWalk
  <2>7. body \o rest \in Seq(NestInstructions) /\ Walk(Nesting, x, body \o rest, NoFunction)
    BY <1>2, <1>3, <2>4, <2>6, WalkConcat, ConcatSeq
  <2>8. /\ \A u \in ThreadIds : u # 0 => code'[u] = <<>>
        /\ DOMAIN code' = ThreadIds
    BY <2>2 DEF NestInv
  <2> HIDE DEF i, rest
  <2>9. QED
    <3>1. NestedAt(x)'
      BY <1>0, <2>3, <2>4, <2>5, <2>7
    <3>2. QED
      BY <2>3, <2>5, <2>7, <2>8, <3>1 DEF NestInv
<1>8. CASE Pass(0)
  <2>1. i \notin Reports /\ i[1] \in {"alloca", "br", "ret"}
    BY <1>3, <1>8, NestOps DEF Pass, Ready
  <2>2. code' = [code EXCEPT ![0] = rest] /\ log' = log
    BY <1>8 DEF Pass, Go
  <2>3. x = y
    BY <1>2, <2>1, NestIs
  <2>4. log[0] # <<>>
    <3>1. x # NotEntered
      <4>1. NotEntered # InFunc1 /\ NotEntered # InMain /\ NotEntered # NoFunction
        BY NotEnteredIsNew
      <4>2. i # <<"entry", "main">>
        BY <2>1 DEF Reports
      <4> HIDE DEF NotEntered, NoFunction, InMain, InFunc1
      <4>3. QED
        BY <1>2, <4>1, <4>2, NestIs
    <3>2. QED
      BY <1>0, <3>1
  <2>5. code'[0] = rest
    BY <1>3, <2>2 DEF NestInv
  <2>6. /\ \A u \in ThreadIds : u # 0 => code'[u] = <<>>
        /\ DOMAIN code' = ThreadIds
    BY <2>2 DEF NestInv
  <2> HIDE DEF i, rest
  <2>7. QED
    <3>1. NestedAt(x)'
      BY <1>0, <1>2, <2>2, <2>3, <2>4, <2>5
    <3>2. QED
      BY <1>3, <2>2, <2>5, <2>6, <3>1 DEF NestInv
<1>9. ~Load(0) /\ ~Store(0) /\ ~Create(0) /\ ~Join(0) /\ ~PrintBalance(0)
  BY <1>4 DEF Load, Store, Create, Join, PrintBalance, Ready
<1>10. ~LockMutex(0) /\ ~UnlockMutex(0)
  <2>1. i # Call("pthread_mutex_lock") /\ i # Call("pthread_mutex_unlock")
    <3>1. /\ Call("pthread_mutex_lock")[1] = "call" /\ Call("pthread_mutex_unlock")[1] = "call"
          /\ Call("pthread_mutex_lock")[2] = "pthread_mutex_lock"
          /\ Call("pthread_mutex_unlock")[2] = "pthread_mutex_unlock"
      BY DEF Call
    <3>2. QED
      BY <1>3, <3>1, NestOps
  <2>2. QED
    BY <2>1 DEF LockMutex, UnlockMutex
<1>11. QED
  BY <1>1, <1>6, <1>7, <1>8, <1>9, <1>10 DEF Step

\* In prog9 and prog10, where main ends with more than a call, every function
\* says what it says between its entry and its exit, exits come in the reverse
\* order of entries, and at the end no function is open.
THEOREM CallsAreNested == MachineSpec => []CallsNested
<1>1. InstrumentedInv /\ [MachineNext]_machineVars => InstrumentedInv'
  <2> SUFFICES ASSUME InstrumentedInv, [MachineNext]_machineVars,
                      prog'.file \in {"prog9.c", "prog10.c"}
               PROVE  NestInv'
    BY DEF InstrumentedInv
  <2>1. prog' = prog
    BY DEF MachineNext, machineVars, Step, Load, Store, LockMutex, UnlockMutex, CallFunction,
           Create, Join, PrintLine, PrintBalance, Pass
  <2>2. NestInv /\ prog.file \in {"prog9.c", "prog10.c"}
    BY <2>1 DEF InstrumentedInv
  <2>3. CASE UNCHANGED machineVars
    BY <2>2, <2>3 DEF machineVars, NestInv, NestedAt
  <2>4. ASSUME NEW t \in ThreadIds, Step(t) PROVE NestInv'
    BY <2>2, <2>4, NestStep
  <2>5. QED
    BY <2>3, <2>4 DEF MachineNext
<1>2. InstrumentedInv => CallsNested
  <2> SUFFICES ASSUME InstrumentedInv, prog.file \in {"prog9.c", "prog10.c"}
               PROVE  /\ Open(log[0]) # <<"bad">>
                      /\ Ended(0) => log[0] # <<>> /\ Open(log[0]) = <<>>
    BY Zenon DEF CallsNested
  <2>1. PICK x \in NestMarks : NestedAt(x)
    BY DEF InstrumentedInv, NestInv
  <2> USE DEF NestedAt
  <2>2. OpenAt(x) # <<"bad">>
    <3>1. NoFunction # <<"bad">> /\ InMain # <<"bad">> /\ InFunc1 # <<"bad">>
      BY DEF NoFunction, InMain, InFunc1
    <3> HIDE DEF NotEntered, InMain, InFunc1
    <3>2. QED
      BY <3>1 DEF NestMarks, OpenAt, NoFunction
  <2>3. ASSUME Ended(0) PROVE log[0] # <<>> /\ Open(log[0]) = <<>>
    <3>1. x = NoFunction
      BY <2>1, <2>3, WalkNothing DEF Ended
    <3>2. QED
      BY <2>1, <3>1, NotEnteredIsNew DEF OpenAt, NoFunction
  <2>4. QED
    BY <2>1, <2>2, <2>3
<1>3. QED
  BY <1>1, <1>2, NestStart, PTL DEF MachineSpec

-----------------------------------------------------------------------------
(* prog11.c, instrumented: how far a thread is.                             *)

Phases == {"start", "announced", "loaded", "counted", "held", "released", "out"}

\* The phase before and after an instruction.
LockPhases ==
    {<<"start", <<"call", "printf">>, "start">>,
     <<"start", <<"call", "__lock_acq">>, "counted">>,
     <<"start", <<"acquired">>, "announced">>,
     <<"announced", <<"load", "numLockAcqs">>, "loaded">>,
     <<"loaded", <<"store", "numLockAcqs", "one">>, "counted">>,
     <<"counted", <<"call", "pthread_mutex_lock">>, "held">>,
     <<"held", <<"load", "counter">>, "held">>,
     <<"held", <<"store", "counter", "one">>, "held">>,
     <<"held", <<"call", "__lock_rel">>, "released">>,
     <<"held", <<"released">>, "released">>,
     <<"released", <<"call", "pthread_mutex_unlock">>, "out">>,
     <<"out", <<"call", "printf">>, "out">>,
     <<"out", <<"ret">>, "out">>}

LockInstructions == {x[2] : x \in LockPhases}

LEMMA LockPhasesAre ==
    \A x, i, y : <<x, i, y>> \in LockPhases <=>
        \/ x = "start" /\ i = <<"call", "printf">> /\ y = "start"
        \/ x = "start" /\ i = <<"call", "__lock_acq">> /\ y = "counted"
        \/ x = "start" /\ i = <<"acquired">> /\ y = "announced"
        \/ x = "announced" /\ i = <<"load", "numLockAcqs">> /\ y = "loaded"
        \/ x = "loaded" /\ i = <<"store", "numLockAcqs", "one">> /\ y = "counted"
        \/ x = "counted" /\ i = <<"call", "pthread_mutex_lock">> /\ y = "held"
        \/ x = "held" /\ i = <<"load", "counter">> /\ y = "held"
        \/ x = "held" /\ i = <<"store", "counter", "one">> /\ y = "held"
        \/ x = "held" /\ i = <<"call", "__lock_rel">> /\ y = "released"
        \/ x = "held" /\ i = <<"released">> /\ y = "released"
        \/ x = "released" /\ i = <<"call", "pthread_mutex_unlock">> /\ y = "out"
        \/ x = "out" /\ i = <<"call", "printf">> /\ y = "out"
        \/ x = "out" /\ i = <<"ret">> /\ y = "out"
  BY DEF LockPhases

LEMMA LockInstructionsAre ==
    \A x, i, y : <<x, i, y>> \in LockPhases => i \in LockInstructions
  BY DEF LockInstructions

\* The pass inserts before a call of lock or unlock.
LockInserted(c, i) ==
    (When(c[i] = Call("pthread_mutex_lock"), <<Call("__lock_acq")>>)
       \o When(c[i] = Call("pthread_mutex_unlock"), <<Call("__lock_rel")>>))
      \o <<c[i]>>

LockInserts(c, i, x, y) ==
    \E x1, x2 :
        /\ IF c[i] = Call("pthread_mutex_lock")
           THEN <<x, Call("__lock_acq"), x1>> \in LockPhases ELSE x1 = x
        /\ IF c[i] = Call("pthread_mutex_unlock")
           THEN <<x1, Call("__lock_rel"), x2>> \in LockPhases ELSE x2 = x1
        /\ <<x2, c[i], y>> \in LockPhases

LEMMA WalkLockInserted ==
    ASSUME NEW c, NEW i, NEW x, NEW y, LockInserts(c, i, x, y)
    PROVE  /\ LockInserted(c, i) \in Seq(LockInstructions)
           /\ Walk(LockPhases, x, LockInserted(c, i), y)
<1> DEFINE b1 == c[i] = Call("pthread_mutex_lock")
           b2 == c[i] = Call("pthread_mutex_unlock")
           i1 == Call("__lock_acq")
           i2 == Call("__lock_rel")
           i3 == c[i]
           S == LockInstructions
<1>1. LockInserted(c, i) = (When(b1, <<i1>>) \o When(b2, <<i2>>)) \o <<i3>>
  BY Zenon DEF LockInserted
<1>2. PICK x1, x2 :
         /\ IF b1 THEN <<x, i1, x1>> \in LockPhases ELSE x1 = x
         /\ IF b2 THEN <<x1, i2, x2>> \in LockPhases ELSE x2 = x1
         /\ <<x2, i3, y>> \in LockPhases
  BY Zenon DEF LockInserts
<1>3. b1 \in BOOLEAN /\ b2 \in BOOLEAN
  OBVIOUS
<1> HIDE DEF b1, b2, i1, i2, i3, S
<1> DEFINE c1 == When(b1, <<i1>>)
           c2 == When(b2, <<i2>>)
           c3 == <<i3>>
<1>4. \A u, j, v : <<u, j, v>> \in LockPhases => j \in S
  BY LockInstructionsAre DEF S
<1>5. /\ c1 \in Seq(S) /\ Walk(LockPhases, x, c1, x1)
      /\ c2 \in Seq(S) /\ Walk(LockPhases, x1, c2, x2)
  BY <1>2, <1>3, <1>4, WalkWhen
<1>6. c3 \in Seq(S) /\ Walk(LockPhases, x2, c3, y)
  BY <1>2, <1>4, WalkOne
<1> HIDE DEF c1, c2, c3
<1>7. c1 \o c2 \in Seq(S) /\ Walk(LockPhases, x, c1 \o c2, x2)
  BY <1>5, WalkConcat, ConcatSeq
<1>8. (c1 \o c2) \o c3 \in Seq(S) /\ Walk(LockPhases, x, (c1 \o c2) \o c3, y)
  BY <1>6, <1>7, WalkConcat, ConcatSeq
<1>9. QED
  BY <1>1, <1>8 DEF c1, c2, c3, S

LEMMA ThrBodyIs ==
    LET c == thrBody
    IN  /\ DOMAIN c = 1 .. 7
        /\ c[1] = Call("printf") /\ c[2] = Call("pthread_mutex_lock")
        /\ c[3] = <<"load", "counter">> /\ c[4] = <<"store", "counter", "one">>
        /\ c[5] = Call("pthread_mutex_unlock") /\ c[6] = Call("printf") /\ c[7] = <<"ret">>
<1> DEFINE S == {Call("printf"), Call("pthread_mutex_lock"), Call("pthread_mutex_unlock"),
                 <<"load", "counter">>, <<"store", "counter", "one">>, <<"ret">>}
           v == <<Call("printf")>>
           u == Locked(Update("counter", "one"))
           z == <<Call("printf"), <<"ret">>>>
           x == v \o u
           c == x \o z
<1>1. /\ Len(u) = 4 /\ u[1] = Call("pthread_mutex_lock") /\ u[2] = <<"load", "counter">>
      /\ u[3] = <<"store", "counter", "one">> /\ u[4] = Call("pthread_mutex_unlock")
      /\ u \in Seq(S)
  <2>1. /\ Call("pthread_mutex_lock") \in S /\ <<"load", "counter">> \in S
        /\ <<"store", "counter", "one">> \in S /\ Call("pthread_mutex_unlock") \in S
    OBVIOUS
  <2> HIDE DEF S
  <2>2. QED
    BY <2>1, QuadConcat DEF Locked, Update
<1>2. /\ v \in Seq(S) /\ Len(v) = 1 /\ v[1] = Call("printf")
      /\ z \in Seq(S) /\ Len(z) = 2 /\ z[1] = Call("printf") /\ z[2] = <<"ret">>
  OBVIOUS
<1>3. thrBody = c
  BY Zenon DEF thrBody
<1> HIDE DEF v, u, z, S
<1>4. v \in Seq(S) /\ u \in Seq(S) /\ z \in Seq(S)
  BY <1>1, <1>2
<1>5. x \in Seq(S)
  BY <1>4, ConcatSeq
<1>6. /\ Len(v) \in Nat /\ Len(u) \in Nat /\ Len(x) = Len(v) + Len(u)
      /\ \A i \in 1 .. Len(v) : x[i] = v[i]
      /\ \A i \in 1 .. Len(u) : x[Len(v) + i] = u[i]
  BY <1>4, ConcatSeq
<1> HIDE DEF x
<1>7. Len(x) = 5 /\ x[1] = v[1] /\ x[2] = u[1] /\ x[3] = u[2] /\ x[4] = u[3] /\ x[5] = u[4]
  <2>1. /\ 1 \in 1 .. Len(v)
        /\ 1 \in 1 .. Len(u) /\ 2 \in 1 .. Len(u) /\ 3 \in 1 .. Len(u) /\ 4 \in 1 .. Len(u)
        /\ Len(v) + 1 = 2 /\ Len(v) + 2 = 3 /\ Len(v) + 3 = 4 /\ Len(v) + 4 = 5
    BY <1>1, <1>2
  <2>2. Len(x) = 5
    BY <1>1, <1>2, <1>6
  <2>3. QED
    BY <1>6, <2>1, <2>2
<1>8. c \in Seq(S)
  BY <1>4, <1>5, ConcatSeq
<1>9. /\ Len(x) \in Nat /\ Len(z) \in Nat /\ Len(c) = Len(x) + Len(z)
      /\ \A i \in 1 .. Len(x) : c[i] = x[i]
      /\ \A i \in 1 .. Len(z) : c[Len(x) + i] = z[i]
  BY <1>4, <1>5, ConcatSeq
<1> HIDE DEF c
<1>10. /\ Len(c) = 7 /\ (\A i \in 1 .. 5 : c[i] = x[i]) /\ c[6] = z[1] /\ c[7] = z[2]
  <2>1. /\ 1 \in 1 .. Len(z) /\ 2 \in 1 .. Len(z) /\ Len(x) + 1 = 6 /\ Len(x) + 2 = 7
        /\ Len(x) = 5
    BY <1>2, <1>7
  <2>2. Len(c) = 7
    BY <1>2, <1>7, <1>9
  <2>3. QED
    BY <1>9, <2>1, <2>2
<1>11. DOMAIN c = 1 .. 7 /\ \A i \in 1 .. 5 : c[i] = x[i]
  BY <1>8, <1>10
<1>12. c[1] = x[1] /\ c[2] = x[2] /\ c[3] = x[3] /\ c[4] = x[4] /\ c[5] = x[5]
  BY <1>11
<1>13. QED
  BY <1>1, <1>2, <1>3, <1>7, <1>10, <1>11, <1>12, Zenon

LEMMA ThrBodyWalks ==
    LET c == InstrumentLocks(thrBody)
    IN  c \in Seq(LockInstructions) /\ Walk(LockPhases, "start", c, "out")
<1> DEFINE c == thrBody
           m == [k \in 0 .. 7 |-> IF k <= 1 THEN "start" ELSE IF k <= 4 THEN "held" ELSE "out"]
           made == [k \in DOMAIN c |-> LockInserted(c, k)]
<1>1. /\ m[0] = "start" /\ m[1] = "start" /\ m[2] = "held" /\ m[3] = "held"
      /\ m[4] = "held" /\ m[5] = "out" /\ m[6] = "out" /\ m[7] = "out"
  OBVIOUS
<1>2. /\ DOMAIN c = 1 .. 7
      /\ c[1] = Call("printf") /\ c[2] = Call("pthread_mutex_lock")
      /\ c[3] = <<"load", "counter">> /\ c[4] = <<"store", "counter", "one">>
      /\ c[5] = Call("pthread_mutex_unlock") /\ c[6] = Call("printf") /\ c[7] = <<"ret">>
  BY ThrBodyIs
<1>3. InstrumentLocks(c) = FlattenSeq(made)
  <2> DEFINE new == [k \in DOMAIN c |->
                       When(c[k] = Call("pthread_mutex_lock"), <<Call("__lock_acq")>>)
                         \o When(c[k] = Call("pthread_mutex_unlock"), <<Call("__lock_rel")>>)]
  <2>1. InstrumentLocks(c) = FlattenSeq([k \in DOMAIN c |-> new[k] \o <<c[k]>>])
    BY Zenon DEF InstrumentLocks, Insert
  <2>2. \A k \in DOMAIN c : new[k] \o <<c[k]>> = LockInserted(c, k)
    BY Zenon DEF LockInserted
  <2> HIDE DEF new
  <2>3. [k \in DOMAIN c |-> new[k] \o <<c[k]>>] = made
    BY <2>2
  <2>4. QED
    BY <2>1, <2>3
<1> HIDE DEF c, m
<1>4. /\ Call("printf") # Call("pthread_mutex_lock")
      /\ Call("printf") # Call("pthread_mutex_unlock")
      /\ Call("pthread_mutex_lock") # Call("pthread_mutex_unlock")
      /\ \A s, n : <<s>> # Call(n) /\ (s # "call" => <<s, n>> # Call(n))
      /\ <<"load", "counter">> # Call("pthread_mutex_lock")
      /\ <<"load", "counter">> # Call("pthread_mutex_unlock")
      /\ <<"store", "counter", "one">> # Call("pthread_mutex_lock")
      /\ <<"store", "counter", "one">> # Call("pthread_mutex_unlock")
  BY DEF Call
<1>5. \A x, y, i : /\ c[i] # Call("pthread_mutex_lock")
                   /\ c[i] # Call("pthread_mutex_unlock")
                   /\ <<x, c[i], y>> \in LockPhases
                   => LockInserts(c, i, x, y)
  BY DEF LockInserts
<1>6. /\ LockInserts(c, 1, "start", "start")
      /\ LockInserts(c, 6, "out", "out")
  <2>1. /\ <<"start", Call("printf"), "start">> \in LockPhases
        /\ <<"out", Call("printf"), "out">> \in LockPhases
    BY LockPhasesAre DEF Call
  <2>2. QED
    BY <1>2, <1>4, <1>5, <2>1
<1>7. LockInserts(c, 2, "start", "held")
  <2>1. /\ <<"start", Call("__lock_acq"), "counted">> \in LockPhases
        /\ <<"counted", Call("pthread_mutex_lock"), "held">> \in LockPhases
    BY LockPhasesAre DEF Call
  <2>2. QED
    BY <1>2, <1>4, <2>1 DEF LockInserts
<1>8. /\ LockInserts(c, 3, "held", "held")
      /\ LockInserts(c, 4, "held", "held")
  <2>1. /\ <<"held", <<"load", "counter">>, "held">> \in LockPhases
        /\ <<"held", <<"store", "counter", "one">>, "held">> \in LockPhases
    BY LockPhasesAre
  <2>2. QED
    BY <1>2, <1>4, <1>5, <2>1
<1>9. LockInserts(c, 5, "held", "out")
  <2>1. /\ <<"held", Call("__lock_rel"), "released">> \in LockPhases
        /\ <<"released", Call("pthread_mutex_unlock"), "out">> \in LockPhases
    BY LockPhasesAre DEF Call
  <2>2. QED
    BY <1>2, <1>4, <2>1 DEF LockInserts
<1>10. LockInserts(c, 7, "out", "out")
  <2>1. <<"out", <<"ret">>, "out">> \in LockPhases
    BY LockPhasesAre
  <2>2. QED
    BY <1>2, <1>4, <1>5, <2>1
<1>11. \A i \in 1 .. 7 : LockInserts(c, i, m[i - 1], m[i])
  <2> SUFFICES ASSUME NEW i \in 1 .. 7 PROVE LockInserts(c, i, m[i - 1], m[i])
    OBVIOUS
  <2>1. i = 1 \/ i = 2 \/ i = 3 \/ i = 4 \/ i = 5 \/ i = 6 \/ i = 7
    OBVIOUS
  <2>2. 1 - 1 = 0 /\ 2 - 1 = 1 /\ 3 - 1 = 2 /\ 4 - 1 = 3 /\ 5 - 1 = 4 /\ 6 - 1 = 5 /\ 7 - 1 = 6
    OBVIOUS
  <2>3. QED
    BY <1>1, <1>6, <1>7, <1>8, <1>9, <1>10, <2>1, <2>2
<1>12. \A i \in 1 .. 7 : /\ LockInserted(c, i) \in Seq(LockInstructions)
                         /\ Walk(LockPhases, m[i - 1], LockInserted(c, i), m[i])
  BY <1>11, WalkLockInserted
<1>13. PICK n \in Nat : n = 7
  OBVIOUS
<1>14. /\ made \in [1 .. n -> Seq(LockInstructions)]
       /\ \A i \in 1 .. n : Walk(LockPhases, m[i - 1], made[i], m[i])
  BY <1>2, <1>12, <1>13
<1> HIDE DEF made
<1>15. /\ FlattenSeq(made) \in Seq(LockInstructions)
       /\ Walk(LockPhases, m[0], FlattenSeq(made), m[n])
  BY <1>14, WalkFlatten
<1>16. QED
  BY <1>1, <1>3, <1>13, <1>15 DEF c

LEMMA LockBodiesWalk ==
    /\ \A body \in Bodies("printf") : body = <<>>
    /\ \A body \in Bodies("sleep") : body = <<>>
    /\ \A body \in Bodies("__lock_acq") :
          body \in Seq(LockInstructions) /\ Walk(LockPhases, "start", body, "counted")
    /\ \A body \in Bodies("__lock_rel") :
          body \in Seq(LockInstructions) /\ Walk(LockPhases, "held", body, "released")
<1> DEFINE S == LockInstructions
           i1 == <<"acquired">>
           i2 == <<"load", "numLockAcqs">>
           i3 == <<"store", "numLockAcqs", "one">>
           i4 == <<"released">>
           r1 == <<i1>>
           r2 == <<i2>>
           r3 == <<i3>>
           r4 == <<i4>>
<1>1. /\ <<"start", i1, "announced">> \in LockPhases
      /\ <<"announced", i2, "loaded">> \in LockPhases
      /\ <<"loaded", i3, "counted">> \in LockPhases
      /\ <<"held", i4, "released">> \in LockPhases
  BY LockPhasesAre
<1>2. i1 \in S /\ i2 \in S /\ i3 \in S /\ i4 \in S
  BY <1>1, LockInstructionsAre
<1>3. /\ Bodies("__lock_acq") = {<<i1>> \o <<i2, i3>>}
      /\ Bodies("__lock_rel") = {<<i4>>}
      /\ Bodies("printf") = {<<>>} /\ Bodies("sleep") = {<<>>}
  BY LockBodies
<1> HIDE DEF S, i1, i2, i3, i4
<1>4. /\ r1 \in Seq(S) /\ Walk(LockPhases, "start", r1, "announced")
      /\ r2 \in Seq(S) /\ Walk(LockPhases, "announced", r2, "loaded")
      /\ r3 \in Seq(S) /\ Walk(LockPhases, "loaded", r3, "counted")
      /\ r4 \in Seq(S) /\ Walk(LockPhases, "held", r4, "released")
  BY <1>1, <1>2, WalkOne
<1>5. <<i2, i3>> = r2 \o r3
  BY <1>2, PairConcat
<1> HIDE DEF r1, r2, r3, r4
<1>6. r2 \o r3 \in Seq(S) /\ Walk(LockPhases, "announced", r2 \o r3, "counted")
  BY <1>4, WalkConcat, ConcatSeq
<1>7. r1 \o (r2 \o r3) \in Seq(S) /\ Walk(LockPhases, "start", r1 \o (r2 \o r3), "counted")
  BY <1>4, <1>6, WalkConcat, ConcatSeq
<1>8. \A body \in Bodies("__lock_acq") : body = r1 \o (r2 \o r3)
  BY <1>3, <1>5 DEF r1
<1>9. \A body \in Bodies("__lock_rel") : body = r4
  BY <1>3 DEF r4
<1>10. QED
  BY <1>3, <1>4, <1>7, <1>8, <1>9 DEF S

-----------------------------------------------------------------------------
(* The machine with the instrumented prog11.                                *)

\* What a thread has printed.
LogAt(x) ==
    IF x = "start" THEN <<>>
    ELSE IF x \in {"released", "out"} THEN <<<<"acquired">>, <<"released">>>>
    ELSE <<<<"acquired">>>>

\* Whether it has counted itself.
Counted(x) == IF x \in {"start", "announced", "loaded"} THEN 0 ELSE 1

ThreadAt(t, x) ==
    /\ code[t] \in Seq(LockInstructions)
    /\ Walk(LockPhases, x, code[t], "out")
    /\ log[t] = LogAt(x)
    /\ mutex = t <=> x \in {"held", "released"}

\* The counter misses some of those who counted themselves, but not all; what
\* a thread is about to store, counts at most the other one.
NumberAt(ph) ==
    /\ mem["numLockAcqs"] >= 0
    /\ mem["numLockAcqs"] <= Counted(ph[1]) + Counted(ph[2])
    /\ \A t \in 1 .. 2 : Counted(ph[t]) = 1 => mem["numLockAcqs"] >= 1
    /\ \A t \in 1 .. 2 : ph[t] = "loaded" => reg[t] >= 0 /\ reg[t] <= Counted(ph[3 - t])

SilentInstructions == {<<"create", 1>>, <<"create", 2>>, Call("sleep"), <<"ret">>}

PairInv ==
    /\ DOMAIN log = ThreadIds
    /\ mutex \in {Nobody, 1, 2}
    /\ \A t \in ThreadIds \ (1 .. 2) : log[t] = <<>> /\ code[t] \in Seq(SilentInstructions)
    /\ \E ph \in [1 .. 2 -> Phases] : (\A t \in 1 .. 2 : ThreadAt(t, ph[t])) /\ NumberAt(ph)

AnnouncedInv == prog \in prog11 /\ prog.instrumented => PairInv

LEMMA CountedIs == \A x : Counted(x) \in {0, 1}
  BY DEF Counted

LEMMA TwoThreads ==
    /\ 1 .. 2 \subseteq ThreadIds /\ 1 .. 2 = {1, 2} /\ 0 \in ThreadIds \ (1 .. 2)
    /\ \A t \in 1 .. 2 : 3 - t \in 1 .. 2 /\ 3 - t # t /\ 1 .. 2 = {t, 3 - t} /\ 3 - (3 - t) = t
    /\ \A t \in ThreadIds : t # Nobody
  BY ProgramsAssumption DEF ProgramsAssumption, ThreadIds, Nobody

LEMMA PairStart == MachineInit => AnnouncedInv
<1> SUFFICES ASSUME MachineInit, prog \in prog11, prog.instrumented PROVE PairInv
  BY DEF AnnouncedInv
<1>1. code = Prog11Code(prog)
  <2>1. prog.file = "prog11.c"
    BY DEF prog11
  <2>2. prog \notin instrfuncs
    BY <2>1 DEF instrfuncs
  <2>3. prog \notin AccountPrograms
    BY <2>1 DEF AccountPrograms, lock_example, thread_example, thread_example_2, Account
  <2>4. QED
    BY <2>2, <2>3 DEF MachineInit
<1>2. DOMAIN log = ThreadIds /\ mutex = Nobody /\ \A t \in ThreadIds : log[t] = <<>>
  BY DEF MachineInit
<1>3. mem["numLockAcqs"] = 0
  BY DEF MachineInit, Cells
<1>4. ASSUME NEW t \in 1 .. 2
      PROVE  code[t] \in Seq(LockInstructions) /\ Walk(LockPhases, "start", code[t], "out")
  <2>1. t \in ThreadIds /\ t # 0 /\ ~(t > 2)
    BY TwoThreads
  <2>2. code[t] = InstrumentLocks(thrBody)
    BY <1>1, <2>1, Zenon DEF Prog11Code
  <2>3. QED
    BY <2>2, ThrBodyWalks
<1>5. ASSUME NEW t \in ThreadIds \ (1 .. 2) PROVE code[t] \in Seq(SilentInstructions)
  <2>1. t = 0 \/ t > 2
    BY ProgramsAssumption DEF ProgramsAssumption, ThreadIds
  <2>2. CASE t = 0
    <3>1. code[t] = <<<<"create", 1>>, <<"create", 2>>, Call("sleep"), <<"ret">>>>
      BY <1>1, <2>2, Zenon DEF Prog11Code
    <3>2. QED
      BY <3>1 DEF SilentInstructions
  <2>3. CASE t > 2
    <3>1. t # 0
      BY <2>3
    <3>2. code[t] = <<>>
      BY <1>1, <2>3, <3>1, Zenon DEF Prog11Code
    <3>3. QED
      BY <3>2
  <2>4. QED
    BY <2>1, <2>2, <2>3
<1> DEFINE ph == [t \in 1 .. 2 |-> "start"]
<1>6. ph \in [1 .. 2 -> Phases] /\ ph[1] = "start" /\ ph[2] = "start" /\ \A t \in 1 .. 2 : ph[t] = "start"
  BY DEF Phases
<1> HIDE DEF ph
<1>7. ASSUME NEW t \in 1 .. 2 PROVE ThreadAt(t, ph[t])
  <2>1. mutex # t /\ log[t] = <<>>
    BY <1>2, TwoThreads
  <2>2. QED
    BY <1>4, <1>6, <2>1 DEF ThreadAt, LogAt
<1>8. NumberAt(ph)
  <2>1. Counted("start") = 0
    BY DEF Counted
  <2>2. QED
    BY <1>3, <1>6, <2>1 DEF NumberAt
<1>9. QED
  BY <1>2, <1>5, <1>6, <1>7, <1>8 DEF PairInv

\* A thread goes from one phase to another.
LEMMA PairMoves ==
    ASSUME PairInv, MutexInv, NEW t \in 1 .. 2, NEW ph \in [1 .. 2 -> Phases],
           \A u \in 1 .. 2 : ThreadAt(u, ph[u]),
           NEW y \in Phases,
           NEW d \in Seq(LockInstructions), Walk(LockPhases, y, d, "out"),
           code' = [code EXCEPT ![t] = d],
           DOMAIN log' = ThreadIds, log'[t] = LogAt(y),
           \A u \in ThreadIds : u # t => log'[u] = log[u],
           mutex' \in {Nobody, 1, 2},
           mutex' = t <=> y \in {"held", "released"},
           mutex' = 3 - t <=> mutex = 3 - t,
           NumberAt([ph EXCEPT ![t] = y])'
    PROVE  PairInv'
<1> DEFINE o == 3 - t
           next == [ph EXCEPT ![t] = y]
<1>1. o \in 1 .. 2 /\ o # t /\ 1 .. 2 = {t, o} /\ t \in ThreadIds /\ o \in ThreadIds
  BY TwoThreads
<1>2. next \in [1 .. 2 -> Phases] /\ next[t] = y /\ next[o] = ph[o]
  BY <1>1
<1>3. code'[t] = d /\ \A u \in ThreadIds : u # t => code'[u] = code[u]
  BY <1>1 DEF MutexInv, CodeOK
<1>4. ThreadAt(t, y)'
  BY <1>3 DEF ThreadAt
<1>5. ThreadAt(o, ph[o])'
  <2>1. ThreadAt(o, ph[o])
    BY <1>1
  <2>2. code'[o] = code[o] /\ log'[o] = log[o]
    BY <1>1, <1>3
  <2>3. PICK z : z = ph[o]
    OBVIOUS
  <2>4. QED
    BY <2>1, <2>2 DEF ThreadAt
<1>6. \A u \in ThreadIds \ (1 .. 2) : log'[u] = <<>> /\ code'[u] \in Seq(SilentInstructions)
  BY <1>1, <1>3 DEF PairInv
<1>7. \A u \in 1 .. 2 : ThreadAt(u, next[u])'
  <2>1. next[t] = y /\ next[o] = ph[o]
    BY <1>2
  <2> HIDE DEF next
  <2>2. ThreadAt(t, next[t])' /\ ThreadAt(o, next[o])'
    BY <1>4, <1>5, <2>1
  <2> HIDE DEF o
  <2>3. QED
    BY <1>1, <2>2
<1>8. NumberAt(next)'
  OBVIOUS
<1> HIDE DEF next
<1>9. QED
  BY <1>2, <1>6, <1>7, <1>8 DEF PairInv

\* It does not touch the number.
LEMMA NumberStays ==
    ASSUME NEW t \in 1 .. 2, NEW ph \in [1 .. 2 -> Phases], NumberAt(ph), NEW y \in Phases,
           Counted(y) = Counted(ph[t]), y # "loaded",
           mem'["numLockAcqs"] = mem["numLockAcqs"], reg'[3 - t] = reg[3 - t]
    PROVE  NumberAt([ph EXCEPT ![t] = y])'
<1> DEFINE o == 3 - t
           next == [ph EXCEPT ![t] = y]
<1>1. o \in 1 .. 2 /\ o # t /\ 1 .. 2 = {t, o} /\ 3 - o = t
  BY TwoThreads
<1>2. next[t] = y /\ next[o] = ph[o]
  BY <1>1
<1>3. \A u \in 1 .. 2 : Counted(next[u]) = Counted(ph[u])
  BY <1>1, <1>2
<1>4. Counted(next[1]) = Counted(ph[1]) /\ Counted(next[2]) = Counted(ph[2])
  BY <1>3
<1>5. \A u \in 1 .. 2 : next[u] = "loaded" => u = o /\ ph[o] = "loaded"
  BY <1>1, <1>2
<1> HIDE DEF next
<1>6. \A u \in 1 .. 2 : next[u] = "loaded" => reg'[u] >= 0 /\ reg'[u] <= Counted(next[3 - u])
  <2>1. ph[o] = "loaded" => reg[o] >= 0 /\ reg[o] <= Counted(ph[3 - o])
    BY <1>1 DEF NumberAt
  <2>2. Counted(next[3 - o]) = Counted(ph[3 - o])
    BY <1>1, <1>3
  <2>3. QED
    BY <1>5, <2>1, <2>2
<1>7. \A u \in 1 .. 2 : Counted(next[u]) = 1 => mem'["numLockAcqs"] >= 1
  BY <1>3 DEF NumberAt
<1>8. /\ mem'["numLockAcqs"] >= 0
      /\ mem'["numLockAcqs"] <= Counted(next[1]) + Counted(next[2])
  BY <1>4 DEF NumberAt
<1>9. NumberAt(next)'
  BY <1>6, <1>7, <1>8 DEF NumberAt
<1>10. QED
  BY <1>9 DEF next

LEMMA NumberLoaded ==
    ASSUME NEW t \in 1 .. 2, NEW ph \in [1 .. 2 -> Phases], NumberAt(ph), ph[t] = "announced",
           mem' = mem, reg'[t] = mem["numLockAcqs"], reg'[3 - t] = reg[3 - t]
    PROVE  NumberAt([ph EXCEPT ![t] = "loaded"])'
<1> DEFINE o == 3 - t
           next == [ph EXCEPT ![t] = "loaded"]
<1>1. o \in 1 .. 2 /\ o # t /\ 1 .. 2 = {t, o} /\ 3 - o = t
  BY TwoThreads
<1>2. next[t] = "loaded" /\ next[o] = ph[o]
  BY <1>1
<1>3. Counted("loaded") = 0 /\ Counted("announced") = 0
  BY DEF Counted
<1>4. \A u \in 1 .. 2 : Counted(next[u]) = Counted(ph[u])
  BY <1>1, <1>2, <1>3
<1>5. Counted(next[1]) = Counted(ph[1]) /\ Counted(next[2]) = Counted(ph[2])
  BY <1>4
<1> HIDE DEF next
<1>6. reg'[t] >= 0 /\ reg'[t] <= Counted(next[o])
  <2>1. \/ t = 1 /\ o = 2
        \/ t = 2 /\ o = 1
    OBVIOUS
  <2>2. mem["numLockAcqs"] <= Counted(ph[t]) + Counted(ph[o]) /\ mem["numLockAcqs"] >= 0
    <3>1. \A u \in 1 .. 2 : Counted(ph[u]) \in {0, 1}
      BY CountedIs
    <3> HIDE DEF o
    <3>2. QED
      BY <1>1, <2>1, <3>1 DEF NumberAt
  <2>3. Counted(ph[t]) = 0 /\ Counted(ph[o]) \in {0, 1} /\ Counted(next[o]) = Counted(ph[o])
    BY <1>1, <1>3, <1>4, CountedIs
  <2> HIDE DEF o
  <2>4. QED
    BY <2>2, <2>3
<1>7. \A u \in 1 .. 2 : next[u] = "loaded" => reg'[u] >= 0 /\ reg'[u] <= Counted(next[3 - u])
  <2>1. ph[o] = "loaded" => reg[o] >= 0 /\ reg[o] <= Counted(ph[3 - o])
    BY <1>1 DEF NumberAt
  <2>2. Counted(next[3 - o]) = Counted(ph[3 - o])
    BY <1>1, <1>4
  <2>3. QED
    BY <1>1, <1>2, <1>6, <2>1, <2>2
<1>8. \A u \in 1 .. 2 : Counted(next[u]) = 1 => mem'["numLockAcqs"] >= 1
  BY <1>4 DEF NumberAt
<1>9. /\ mem'["numLockAcqs"] >= 0
      /\ mem'["numLockAcqs"] <= Counted(next[1]) + Counted(next[2])
  BY <1>5 DEF NumberAt
<1>10. NumberAt(next)'
  BY <1>7, <1>8, <1>9 DEF NumberAt
<1>11. QED
  BY <1>10 DEF next

LEMMA NumberStored ==
    ASSUME NEW t \in 1 .. 2, NEW ph \in [1 .. 2 -> Phases], NumberAt(ph), ph[t] = "loaded",
           reg[t] \in Int, reg[3 - t] \in Int,
           mem'["numLockAcqs"] = reg[t] + 1, reg'[3 - t] = reg[3 - t]
    PROVE  NumberAt([ph EXCEPT ![t] = "counted"])'
<1> DEFINE o == 3 - t
           next == [ph EXCEPT ![t] = "counted"]
<1>1. o \in 1 .. 2 /\ o # t /\ 1 .. 2 = {t, o} /\ 3 - o = t
  BY TwoThreads
<1>2. next[t] = "counted" /\ next[o] = ph[o]
  BY <1>1
<1>3. Counted("counted") = 1
  BY DEF Counted
<1>4. Counted(next[t]) = 1 /\ Counted(next[o]) = Counted(ph[o]) /\ Counted(ph[o]) \in {0, 1}
  BY <1>2, <1>3, CountedIs
<1> HIDE DEF next
<1>5. reg[t] >= 0 /\ reg[t] <= Counted(ph[o])
  BY DEF NumberAt
<1>6. mem'["numLockAcqs"] >= 1 /\ mem'["numLockAcqs"] <= Counted(next[t]) + Counted(next[o])
  BY <1>4, <1>5
<1>7. Counted(next[t]) + Counted(next[o]) = Counted(next[1]) + Counted(next[2])
  <2>1. \/ t = 1 /\ o = 2
        \/ t = 2 /\ o = 1
    OBVIOUS
  <2>2. Counted(next[1]) \in Int /\ Counted(next[2]) \in Int
    BY <1>1, <1>4, <2>1
  <2> HIDE DEF o
  <2>3. QED
    BY <2>1, <2>2
<1>8. \A u \in 1 .. 2 : next[u] = "loaded" => reg'[u] >= 0 /\ reg'[u] <= Counted(next[3 - u])
  <2>1. ph[o] = "loaded" => reg[o] >= 0 /\ reg[o] <= Counted(ph[3 - o])
    BY <1>1 DEF NumberAt
  <2>2. Counted(ph[3 - o]) \in {0, 1} /\ Counted(next[3 - o]) = 1
    BY <1>1, <1>4, CountedIs
  <2>3. ph[o] = "loaded" => reg'[o] >= 0 /\ reg'[o] <= 1
    BY <2>1, <2>2
  <2>4. QED
    BY <1>1, <1>2, <2>2, <2>3
<1>9. \A u \in 1 .. 2 : Counted(next[u]) = 1 => mem'["numLockAcqs"] >= 1
  BY <1>6
<1>10. mem'["numLockAcqs"] >= 0
  BY <1>5
<1>11. NumberAt(next)'
  BY <1>6, <1>7, <1>8, <1>9, <1>10 DEF NumberAt
<1>12. QED
  BY <1>11 DEF next

\* Threads that are not inside leave the mutex to the other.
LEMMA MutexStays ==
    ASSUME PairInv, NEW t \in 1 .. 2, NEW x, ThreadAt(t, x), NEW y,
           x \in {"held", "released"} <=> y \in {"held", "released"}, mutex' = mutex
    PROVE  /\ mutex' \in {Nobody, 1, 2}
           /\ mutex' = t <=> y \in {"held", "released"}
           /\ mutex' = 3 - t <=> mutex = 3 - t
  BY DEF PairInv, ThreadAt

LEMMA AppendTwo ==
    ASSUME NEW u, NEW v
    PROVE  Append(<<u>>, v) = <<u, v>>
<1> DEFINE c == Append(<<u>>, v)
           d == <<u, v>>
<1>1. c \in Seq({u, v}) /\ Len(c) = 2 /\ c[1] = u /\ c[2] = v
  OBVIOUS
<1>2. d \in Seq({u, v}) /\ Len(d) = 2 /\ d[1] = u /\ d[2] = v
  OBVIOUS
<1> HIDE DEF c, d
<1>3. \A k \in 1 .. Len(c) : c[k] = d[k]
  BY <1>1, <1>2
<1>4. c = d
  BY <1>1, <1>2, <1>3, SeqEqual
<1>5. QED
  BY <1>4 DEF c, d

LEMMA PairStep ==
    ASSUME PairInv, MutexInv, prog \in prog11, NEW t \in 1 .. 2, Step(t)
    PROVE  PairInv'
<1> DEFINE i == Head(code[t])
           rest == Tail(code[t])
           o == 3 - t
<1>1. code[t] # <<>>
  BY DEF Step, Load, Store, LockMutex, UnlockMutex, CallFunction, Create, Join, PrintLine,
         PrintBalance, Pass, Ready, Ended
<1>2. PICK ph \in [1 .. 2 -> Phases] :
             (\A u \in 1 .. 2 : ThreadAt(u, ph[u])) /\ NumberAt(ph)
  BY DEF PairInv
<1>3. PICK x \in Phases : x = ph[t]
  OBVIOUS
<1>4. ThreadAt(t, x)
  BY <1>2, <1>3
<1>5. PICK y : <<x, i, y>> \in LockPhases /\ Walk(LockPhases, y, rest, "out")
  BY <1>1, <1>4, WalkOn DEF ThreadAt
<1>6. rest \in Seq(LockInstructions)
  BY <1>1, <1>4, WalkOn DEF ThreadAt
<1>7. /\ o \in 1 .. 2 /\ o # t /\ t \in ThreadIds /\ o \in ThreadIds /\ t # Nobody /\ o # Nobody
      /\ reg[t] \in Int /\ reg[o] \in Int
      /\ DOMAIN reg = ThreadIds /\ DOMAIN mem = Cells /\ DOMAIN log = ThreadIds
      /\ log[t] = LogAt(x)
  BY <1>4, TwoThreads DEF MutexInv, MemoryOK, PairInv, ThreadAt
<1>8. \/ x = "start" /\ i = <<"call", "printf">> /\ y = "start"
      \/ x = "start" /\ i = <<"call", "__lock_acq">> /\ y = "counted"
      \/ x = "start" /\ i = <<"acquired">> /\ y = "announced"
      \/ x = "announced" /\ i = <<"load", "numLockAcqs">> /\ y = "loaded"
      \/ x = "loaded" /\ i = <<"store", "numLockAcqs", "one">> /\ y = "counted"
      \/ x = "counted" /\ i = <<"call", "pthread_mutex_lock">> /\ y = "held"
      \/ x = "held" /\ i = <<"load", "counter">> /\ y = "held"
      \/ x = "held" /\ i = <<"store", "counter", "one">> /\ y = "held"
      \/ x = "held" /\ i = <<"call", "__lock_rel">> /\ y = "released"
      \/ x = "held" /\ i = <<"released">> /\ y = "released"
      \/ x = "released" /\ i = <<"call", "pthread_mutex_unlock">> /\ y = "out"
      \/ x = "out" /\ i = <<"call", "printf">> /\ y = "out"
      \/ x = "out" /\ i = <<"ret">> /\ y = "out"
  BY <1>5, LockPhasesAre
<1>9. y \in Phases
  BY <1>8 DEF Phases
<1>10. Go(t) => code' = [code EXCEPT ![t] = rest]
  BY DEF Go
<1>11. log' = log => /\ DOMAIN log' = ThreadIds /\ log'[t] = LogAt(x)
                     /\ \A u \in ThreadIds : u # t => log'[u] = log[u]
  BY <1>7
<1> HIDE DEF rest
<1>12. CASE Load(t)
  <2>1. /\ i[1] = "load" /\ reg' = [reg EXCEPT ![t] = mem[i[2]]]
        /\ mem' = mem /\ mutex' = mutex /\ log' = log /\ code' = [code EXCEPT ![t] = rest]
    BY <1>10, <1>12 DEF Load, Ready
  <2>2. \/ x = "announced" /\ i = <<"load", "numLockAcqs">> /\ y = "loaded"
        \/ x = "held" /\ i = <<"load", "counter">> /\ y = "held"
    BY <1>8, <2>1
  <2> HIDE DEF i
  <2>3. reg'[o] = reg[o] /\ reg'[t] = mem[i[2]]
    BY <1>7, <2>1
  <2>4. NumberAt([ph EXCEPT ![t] = y])'
    <3>1. CASE x = "announced"
      <4>1. y = "loaded" /\ reg'[t] = mem["numLockAcqs"] /\ ph[t] = "announced"
        BY <1>3, <2>2, <2>3, <3>1
      <4>2. NumberAt([ph EXCEPT ![t] = "loaded"])'
        BY <1>2, <2>1, <2>3, <4>1, NumberLoaded
      <4>3. QED
        BY <4>1, <4>2
    <3>2. CASE x = "held"
      <4>1. y = "held" /\ Counted(y) = Counted(ph[t]) /\ y # "loaded"
        BY <1>3, <2>2, <3>2
      <4>2. QED
        BY <1>2, <1>9, <2>1, <2>3, <4>1, NumberStays
    <3>3. QED
      BY <2>2, <3>1, <3>2
  <2>5. LogAt(x) = LogAt(y) /\ (x \in {"held", "released"} <=> y \in {"held", "released"})
    BY <2>2 DEF LogAt
  <2>6. /\ mutex' \in {Nobody, 1, 2}
        /\ mutex' = t <=> y \in {"held", "released"}
        /\ mutex' = 3 - t <=> mutex = 3 - t
    BY <1>4, <2>1, <2>5, MutexStays
  <2>7. QED
    BY <1>2, <1>5, <1>6, <1>9, <1>11, <2>1, <2>4, <2>5, <2>6, PairMoves
<1>13. CASE Store(t)
  <2>1. /\ i[1] = "store" /\ reg' = [reg EXCEPT ![t] = 0]
        /\ mutex' = mutex /\ log' = log /\ code' = [code EXCEPT ![t] = rest]
    BY <1>10, <1>13 DEF Store, Ready
  <2>2. PICK n \in Amounts(i[3]) : mem' = [mem EXCEPT ![i[2]] = reg[t] + n]
    BY <1>13 DEF Store
  <2>3. \/ x = "loaded" /\ i = <<"store", "numLockAcqs", "one">> /\ y = "counted"
        \/ x = "held" /\ i = <<"store", "counter", "one">> /\ y = "held"
    BY <1>8, <2>1
  <2>4. n = 1
    <3>1. i[3] = "one"
      BY <2>3
    <3> HIDE DEF i
    <3>2. QED
      BY <2>2, <3>1 DEF Amounts
  <2>5. reg'[o] = reg[o]
    BY <1>7, <2>1
  <2>6. NumberAt([ph EXCEPT ![t] = y])'
    <3>1. CASE x = "loaded"
      <4>1. y = "counted" /\ ph[t] = "loaded" /\ i[2] = "numLockAcqs"
        BY <1>3, <2>3, <3>1
      <4> HIDE DEF i
      <4>2. mem'["numLockAcqs"] = reg[t] + 1
        BY <1>7, <2>2, <2>4, <4>1 DEF Cells
      <4>3. NumberAt([ph EXCEPT ![t] = "counted"])'
        BY <1>2, <1>7, <2>5, <4>1, <4>2, NumberStored
      <4>4. QED
        BY <4>1, <4>3
    <3>2. CASE x = "held"
      <4>1. y = "held" /\ Counted(y) = Counted(ph[t]) /\ y # "loaded" /\ i[2] = "counter"
        BY <1>3, <2>3, <3>2
      <4> HIDE DEF i
      <4>2. mem'["numLockAcqs"] = mem["numLockAcqs"]
        BY <1>7, <2>2, <4>1 DEF Cells
      <4>3. QED
        BY <1>2, <1>9, <2>5, <4>1, <4>2, NumberStays
    <3>3. QED
      BY <2>3, <3>1, <3>2
  <2> HIDE DEF i
  <2>7. LogAt(x) = LogAt(y) /\ (x \in {"held", "released"} <=> y \in {"held", "released"})
    BY <2>3 DEF LogAt
  <2>8. /\ mutex' \in {Nobody, 1, 2}
        /\ mutex' = t <=> y \in {"held", "released"}
        /\ mutex' = 3 - t <=> mutex = 3 - t
    BY <1>4, <2>1, <2>7, MutexStays
  <2>9. QED
    BY <1>2, <1>5, <1>6, <1>9, <1>11, <2>1, <2>6, <2>7, <2>8, PairMoves
<1>14. CASE LockMutex(t)
  <2>1. /\ i = Call("pthread_mutex_lock") /\ mutex = Nobody /\ mutex' = t
        /\ mem' = mem /\ reg' = reg /\ log' = log /\ code' = [code EXCEPT ![t] = rest]
    BY <1>10, <1>14 DEF LockMutex
  <2>2. x = "counted" /\ y = "held"
    BY <1>8, <2>1 DEF Call
  <2> HIDE DEF i
  <2>3. LogAt(x) = LogAt(y) /\ Counted(y) = Counted(x) /\ y # "loaded"
    BY <2>2 DEF LogAt, Counted
  <2>4. NumberAt([ph EXCEPT ![t] = y])'
    BY <1>2, <1>3, <1>9, <2>1, <2>3, NumberStays
  <2>5. /\ mutex' \in {Nobody, 1, 2}
        /\ mutex' = t <=> y \in {"held", "released"}
        /\ mutex' = 3 - t <=> mutex = 3 - t
    BY <1>7, <2>1, <2>2
  <2>6. QED
    BY <1>2, <1>5, <1>6, <1>9, <1>11, <2>1, <2>3, <2>4, <2>5, PairMoves
<1>15. CASE UnlockMutex(t)
  <2>1. /\ i = Call("pthread_mutex_unlock") /\ mutex' = Nobody
        /\ mem' = mem /\ reg' = reg /\ log' = log /\ code' = [code EXCEPT ![t] = rest]
    BY <1>10, <1>15 DEF UnlockMutex
  <2>2. x = "released" /\ y = "out"
    BY <1>8, <2>1 DEF Call
  <2> HIDE DEF i
  <2>3. LogAt(x) = LogAt(y) /\ Counted(y) = Counted(x) /\ y # "loaded"
    BY <2>2 DEF LogAt, Counted
  <2>4. NumberAt([ph EXCEPT ![t] = y])'
    BY <1>2, <1>3, <1>9, <2>1, <2>3, NumberStays
  <2>5. mutex = t
    BY <1>4, <2>2 DEF ThreadAt
  <2>6. /\ mutex' \in {Nobody, 1, 2}
        /\ mutex' = t <=> y \in {"held", "released"}
        /\ mutex' = 3 - t <=> mutex = 3 - t
    BY <1>7, <2>1, <2>2, <2>5
  <2>7. QED
    BY <1>2, <1>5, <1>6, <1>9, <1>11, <2>1, <2>3, <2>4, <2>6, PairMoves
<1>16. CASE CallFunction(t)
  <2>1. PICK body \in Bodies(i[2]) : code' = [code EXCEPT ![t] = body \o rest]
    BY <1>16 DEF CallFunction, rest
  <2>2. /\ i[1] = "call" /\ i[2] \notin {"pthread_mutex_lock", "pthread_mutex_unlock"}
        /\ mem' = mem /\ reg' = reg /\ log' = log /\ mutex' = mutex
    BY <1>16 DEF CallFunction, Ready
  <2>3. \/ i[2] = "printf" /\ x = y /\ (x = "start" \/ x = "out")
        \/ i[2] = "__lock_acq" /\ x = "start" /\ y = "counted"
        \/ i[2] = "__lock_rel" /\ x = "held" /\ y = "released"
    BY <1>8, <2>2
  <2> HIDE DEF i
  <2>4. body \in Seq(LockInstructions) /\ Walk(LockPhases, x, body, y)
    <3>1. CASE i[2] = "printf"
      <4>1. body = <<>> /\ x = y
        BY <2>1, <2>3, <3>1, LockBodiesWalk
      <4>2. QED
        BY <4>1, WalkNothing
    <3>2. CASE i[2] = "__lock_acq"
      BY <2>1, <2>3, <3>2, LockBodiesWalk
    <3>3. CASE i[2] = "__lock_rel"
      BY <2>1, <2>3, <3>3, LockBodiesWalk
    <3>4. QED
      BY <2>3, <3>1, <3>2, <3>3
  <2>5. body \o rest \in Seq(LockInstructions) /\ Walk(LockPhases, x, body \o rest, "out")
    BY <1>5, <1>6, <2>4, WalkConcat, ConcatSeq
  <2>6. x # "loaded"
    BY <2>3
  <2>7. NumberAt([ph EXCEPT ![t] = x])'
    BY <1>2, <1>3, <2>2, <2>6, NumberStays
  <2>8. /\ mutex' \in {Nobody, 1, 2}
        /\ mutex' = t <=> x \in {"held", "released"}
        /\ mutex' = 3 - t <=> mutex = 3 - t
    BY <1>4, <2>2, MutexStays
  <2>9. QED
    BY <1>2, <1>3, <1>11, <2>1, <2>2, <2>5, <2>7, <2>8, PairMoves
<1>17. CASE PrintLine(t)
  <2>1. /\ i[1] \in {"acquired", "released", "entry", "exit", "says"}
        /\ log' = [log EXCEPT ![t] = Append(log[t], i)]
        /\ mem' = mem /\ reg' = reg /\ mutex' = mutex /\ code' = [code EXCEPT ![t] = rest]
    BY <1>10, <1>17 DEF PrintLine, Ready
  <2>2. \/ x = "start" /\ i = <<"acquired">> /\ y = "announced"
        \/ x = "held" /\ i = <<"released">> /\ y = "released"
    BY <1>8, <2>1
  <2> HIDE DEF i
  <2>3. Append(LogAt(x), i) = LogAt(y)
    <3>1. \A u, v : Append(<<>>, u) = <<u>> /\ Append(<<u>>, v) = <<u, v>>
      <4>1. \A u : Append(<<>>, u) = <<u>>
        OBVIOUS
      <4>2. \A u, v : Append(<<u>>, v) = <<u, v>>
        BY AppendTwo
      <4>3. QED
        BY <4>1, <4>2
    <3>2. CASE x = "start"
      <4>1. LogAt(x) = <<>> /\ i = <<"acquired">> /\ LogAt(y) = <<<<"acquired">>>>
        BY <2>2, <3>2 DEF LogAt
      <4>2. QED
        BY <3>1, <4>1, Zenon
    <3>3. CASE x = "held"
      <4>1. /\ LogAt(x) = <<<<"acquired">>>> /\ i = <<"released">>
            /\ LogAt(y) = <<<<"acquired">>, <<"released">>>>
        BY <2>2, <3>3 DEF LogAt
      <4>2. QED
        BY <3>1, <4>1, Zenon
    <3>4. QED
      BY <2>2, <3>2, <3>3
  <2>4. /\ DOMAIN log' = ThreadIds /\ log'[t] = LogAt(y)
        /\ \A u \in ThreadIds : u # t => log'[u] = log[u]
    BY <1>7, <2>1, <2>3
  <2>5. Counted(y) = Counted(x) /\ y # "loaded"
        /\ (x \in {"held", "released"} <=> y \in {"held", "released"})
    BY <2>2 DEF Counted
  <2>6. NumberAt([ph EXCEPT ![t] = y])'
    BY <1>2, <1>3, <1>9, <2>1, <2>5, NumberStays
  <2>7. /\ mutex' \in {Nobody, 1, 2}
        /\ mutex' = t <=> y \in {"held", "released"}
        /\ mutex' = 3 - t <=> mutex = 3 - t
    BY <1>4, <2>1, <2>5, MutexStays
  <2>8. QED
    BY <1>2, <1>5, <1>6, <1>9, <2>1, <2>4, <2>6, <2>7, PairMoves
<1>18. CASE Pass(t)
  <2>1. /\ i[1] \in {"alloca", "br", "ret"}
        /\ mem' = mem /\ reg' = reg /\ mutex' = mutex /\ log' = log
        /\ code' = [code EXCEPT ![t] = rest]
    BY <1>10, <1>18 DEF Pass, Ready
  <2>2. x = "out" /\ y = "out"
    BY <1>8, <2>1
  <2> HIDE DEF i
  <2>3. NumberAt([ph EXCEPT ![t] = y])'
    BY <1>2, <1>3, <1>9, <2>1, <2>2, NumberStays
  <2>4. /\ mutex' \in {Nobody, 1, 2}
        /\ mutex' = t <=> y \in {"held", "released"}
        /\ mutex' = 3 - t <=> mutex = 3 - t
    BY <1>4, <2>1, <2>2, MutexStays
  <2>5. QED
    BY <1>2, <1>5, <1>6, <1>9, <1>11, <2>1, <2>2, <2>3, <2>4, PairMoves
<1>19. ~Create(t) /\ ~Join(t) /\ ~PrintBalance(t)
  <2>1. i[1] \notin {"create", "join", "print"}
    BY <1>8
  <2>2. QED
    BY <2>1 DEF Create, Join, PrintBalance, Ready
<1>20. QED
  BY <1>12, <1>13, <1>14, <1>15, <1>16, <1>17, <1>18, <1>19 DEF Step

\* main and the threads that are not created do nothing of interest.
LEMMA SilentStep ==
    ASSUME PairInv, MutexInv, NEW t \in ThreadIds \ (1 .. 2), Step(t)
    PROVE  PairInv'
<1> DEFINE i == Head(code[t])
           rest == Tail(code[t])
<1>1. code[t] # <<>>
  BY DEF Step, Load, Store, LockMutex, UnlockMutex, CallFunction, Create, Join, PrintLine,
         PrintBalance, Pass, Ready, Ended
<1>2. i \in SilentInstructions /\ rest \in Seq(SilentInstructions)
  BY <1>1 DEF PairInv
<1>3. /\ i[1] \in {"create", "call", "ret"} /\ (i[1] = "call" => i[2] = "sleep")
      /\ i # Call("pthread_mutex_lock") /\ i # Call("pthread_mutex_unlock")
  <2>1. i = <<"create", 1>> \/ i = <<"create", 2>> \/ i = Call("sleep") \/ i = <<"ret">>
    BY <1>2 DEF SilentInstructions
  <2>2. QED
    BY <2>1 DEF Call
<1> HIDE DEF i, rest
<1>4. Create(t) \/ CallFunction(t) \/ Pass(t)
  BY <1>3 DEF Step, Load, Store, LockMutex, UnlockMutex, Join, PrintLine, PrintBalance, Ready, i
<1>5. UNCHANGED <<mem, reg, mutex, log>>
  BY <1>4 DEF Create, CallFunction, Pass
<1>6. code' = [code EXCEPT ![t] = rest]
  <2>1. CASE CallFunction(t)
    <3>1. PICK body \in Bodies(i[2]) : code' = [code EXCEPT ![t] = body \o rest]
      BY <2>1 DEF CallFunction, i, rest
    <3>2. i[2] = "sleep"
      BY <1>3, <2>1 DEF CallFunction, Ready, i
    <3>3. body = <<>>
      BY <3>1, <3>2, LockBodiesWalk
    <3>4. body \o rest = rest
      BY <1>2, <3>3
    <3>5. QED
      BY <3>1, <3>4
  <2>2. QED
    BY <1>4, <2>1 DEF Create, Pass, Go, rest
<1>7. code'[t] = rest /\ \A u \in ThreadIds : u # t => code'[u] = code[u]
  BY <1>6 DEF MutexInv, CodeOK
<1>8. PICK ph \in [1 .. 2 -> Phases] :
             (\A u \in 1 .. 2 : ThreadAt(u, ph[u])) /\ NumberAt(ph)
  BY DEF PairInv
<1>9. ASSUME NEW u \in 1 .. 2 PROVE ThreadAt(u, ph[u])'
  <2>1. code'[u] = code[u] /\ log'[u] = log[u] /\ mutex' = mutex
    BY <1>5, <1>7, TwoThreads
  <2>2. QED
    BY <1>8, <2>1 DEF ThreadAt
<1>10. NumberAt(ph)'
  BY <1>5, <1>8 DEF NumberAt
<1>11. \A u \in ThreadIds \ (1 .. 2) : log'[u] = <<>> /\ code'[u] \in Seq(SilentInstructions)
  BY <1>2, <1>5, <1>7 DEF PairInv
<1>12. QED
  BY <1>5, <1>8, <1>9, <1>10, <1>11 DEF PairInv

LEMMA LinesAt ==
    ASSUME NEW t \in ThreadIds, NEW x \in Phases, log[t] = LogAt(x)
    PROVE  /\ Lines(t, "acquired") = (IF x = "start" THEN 0 ELSE 1)
           /\ Lines(t, "released") = (IF x \in {"released", "out"} THEN 1 ELSE 0)
<1> DEFINE A(w) == {i \in DOMAIN log[t] : log[t][i][1] = w}
<1>1. \A w : Lines(t, w) = Cardinality(A(w))
  BY DEF Lines
<1>2. Cardinality({}) = 0 /\ \A k : Cardinality({k}) = 1
  BY FS_EmptySet, FS_Singleton
<1>3. CASE x = "start"
  <2>1. \A w : A(w) = {}
    BY <1>3 DEF LogAt
  <2>2. QED
    BY <1>1, <1>2, <1>3, <2>1
<1>4. CASE x \in {"released", "out"}
  <2>1. /\ DOMAIN log[t] = {1, 2} /\ log[t][1] = <<"acquired">> /\ log[t][2] = <<"released">>
    BY <1>4 DEF LogAt
  <2>2. A("acquired") = {1} /\ A("released") = {2}
    BY <2>1
  <2> HIDE DEF A
  <2>3. QED
    BY <1>1, <1>2, <1>4, <2>2
<1>5. CASE x \notin {"start", "released", "out"}
  <2>1. DOMAIN log[t] = {1} /\ log[t][1] = <<"acquired">>
    BY <1>5 DEF LogAt
  <2>2. A("acquired") = {1} /\ A("released") = {}
    BY <2>1
  <2> HIDE DEF A
  <2>3. QED
    BY <1>1, <1>2, <1>5, <2>2
<1>6. QED
  BY <1>3, <1>4, <1>5

\* With the lines that InstrumentLocks inserts into prog11: they pair up in
\* every thread, who holds the mutex has announced it, and the number, counted
\* without the lock, may miss one of the two but not both.
THEOREM LocksAreReported == MachineSpec => []LogsPaired
<1>1. MachineInv /\ AnnouncedInv /\ [MachineNext]_machineVars => AnnouncedInv'
  <2> SUFFICES ASSUME MachineInv, AnnouncedInv, [MachineNext]_machineVars,
                      prog' \in prog11, prog'.instrumented
               PROVE  PairInv'
    BY DEF AnnouncedInv
  <2>1. prog' = prog
    BY DEF MachineNext, machineVars, Step, Load, Store, LockMutex, UnlockMutex, CallFunction,
           Create, Join, PrintLine, PrintBalance, Pass
  <2>2. PairInv /\ MutexInv /\ prog \in prog11
    BY <2>1 DEF AnnouncedInv, MachineInv
  <2>3. CASE UNCHANGED machineVars
    BY <2>2, <2>3 DEF machineVars, PairInv, ThreadAt, NumberAt
  <2>4. ASSUME NEW t \in ThreadIds, Step(t) PROVE PairInv'
    BY <2>2, <2>4, PairStep, SilentStep
  <2>5. QED
    BY <2>3, <2>4 DEF MachineNext
<1>2. MachineInv /\ AnnouncedInv => LogsPaired
  <2> SUFFICES ASSUME PairInv, mem["numLockAcqs"] \in Int
               PROVE  /\ \A t \in ThreadIds :
                            /\ Lines(t, "acquired") - Lines(t, "released") \in {0, 1}
                            /\ mutex = t => Lines(t, "acquired") = 1
                            /\ t \in 1 .. 2 /\ Ended(t) =>
                                  Lines(t, "released") = 1 /\ mem["numLockAcqs"] >= 1
                      /\ mem["numLockAcqs"] <= Lines(1, "acquired") + Lines(2, "acquired")
    <3>1. ASSUME MachineInv, prog \in prog11 PROVE mem["numLockAcqs"] \in Int
      BY <3>1 DEF MachineInv, MutexInv, MemoryOK, Cells
    <3>2. QED
      BY <3>1, Zenon DEF AnnouncedInv, LogsPaired
  <2>1. PICK ph \in [1 .. 2 -> Phases] :
               (\A u \in 1 .. 2 : ThreadAt(u, ph[u])) /\ NumberAt(ph)
    BY DEF PairInv
  <2>2. ASSUME NEW t \in ThreadIds \ (1 .. 2)
        PROVE  Lines(t, "acquired") = 0 /\ Lines(t, "released") = 0 /\ mutex # t
    <3>1. log[t] = LogAt("start") /\ "start" \in Phases
      BY DEF PairInv, LogAt, Phases
    <3>2. mutex # t
      BY TwoThreads DEF PairInv
    <3>3. QED
      BY <3>1, <3>2, LinesAt
  <2>3. ASSUME NEW t \in 1 .. 2
        PROVE  /\ Lines(t, "acquired") = (IF ph[t] = "start" THEN 0 ELSE 1)
               /\ Lines(t, "released") = (IF ph[t] \in {"released", "out"} THEN 1 ELSE 0)
               /\ mutex = t => ph[t] # "start"
               /\ Ended(t) => ph[t] = "out" /\ mem["numLockAcqs"] >= 1
               /\ Counted(ph[t]) <= Lines(t, "acquired")
               /\ Counted(ph[t]) \in {0, 1}
    <3>1. PICK x \in Phases : x = ph[t]
      OBVIOUS
    <3>2. ThreadAt(t, x) /\ t \in ThreadIds
      BY <2>1, <3>1, TwoThreads
    <3>3. /\ Lines(t, "acquired") = (IF x = "start" THEN 0 ELSE 1)
          /\ Lines(t, "released") = (IF x \in {"released", "out"} THEN 1 ELSE 0)
      BY <3>2, LinesAt DEF ThreadAt
    <3>4. mutex = t => x # "start"
      BY <3>2 DEF ThreadAt
    <3>5. Ended(t) => x = "out"
      BY <3>2, WalkNothing DEF ThreadAt, Ended
    <3>6. x = "out" => mem["numLockAcqs"] >= 1
      BY <2>1, <3>1 DEF NumberAt, Counted
    <3>7. Counted(x) \in {0, 1} /\ (x = "start" => Counted(x) = 0)
      BY CountedIs DEF Counted
    <3>8. QED
      BY <3>1, <3>3, <3>4, <3>5, <3>6, <3>7
  <2>4. mem["numLockAcqs"] <= Lines(1, "acquired") + Lines(2, "acquired")
    <3>1. mem["numLockAcqs"] <= Counted(ph[1]) + Counted(ph[2])
      BY <2>1 DEF NumberAt
    <3>2. /\ Counted(ph[1]) <= Lines(1, "acquired") /\ Counted(ph[1]) \in {0, 1}
          /\ Counted(ph[2]) <= Lines(2, "acquired") /\ Counted(ph[2]) \in {0, 1}
          /\ Lines(1, "acquired") \in Nat /\ Lines(2, "acquired") \in Nat
      BY <2>3
    <3>3. \A m, a1, a2, b1, b2 \in Int : m <= a1 + a2 /\ a1 <= b1 /\ a2 <= b2 => m <= b1 + b2
      OBVIOUS
    <3>4. QED
      BY <3>1, <3>2, <3>3
  <2>5. QED
    BY <2>2, <2>3, <2>4
<1>3. QED
  BY <1>1, <1>2, PairStart, MachineStart, MachineStep, PTL DEF MachineSpec

=============================================================================
