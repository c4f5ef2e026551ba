------------------------------ MODULE FindMax ------------------------------
(***************************************************************************)
(* day3/practice-exercises/find_max_parallel.c: main divides an array      *)
(* among threads, each finds the first maximum of its share, and main      *)
(* merges what they found as it joins them; then it does it all by itself, *)
(* in find_max_serial.  The value of an element is function(element), of   *)
(* which only the order counts.                                            *)
(***************************************************************************)
EXTENDS Integers

CONSTANTS
    MaxElements,  \* bound of num_elements
    MAX_THREADS,
    Values        \* values of the elements

ASSUME FindMaxAssumption ==
    /\ MaxElements \in Nat \ {0}
    /\ MAX_THREADS \in Nat \ {0}
    /\ Values \subseteq Int

VARIABLES
    a,            \* the array; its length is num_elements
    num_threads,
    mainPc,       \* "create", "join", "print", "serial", "printed", "failed"
                  \* or "aborted"
    ctr,          \* the thread that main deals with
    th_pos,       \* elements handed out
    start_index, size, pmax, max_index,  \* the fields of struct thread_param
    pc,           \* per thread: "none", "start", "scan" or "done"
    pos,          \* ctr of find_max
    best, index,  \* max and max_index of main
    sctr, sindex, \* ctr and index of find_max_serial
    parallel      \* history: max and max_index as printed under PARALLEL

param == <<start_index, size>>
serial == <<sctr, sindex, parallel>>
main == <<mainPc, ctr, th_pos, best, index, serial>>
vars == <<a, num_threads, main, param, pmax, max_index, pc, pos>>

num_elements == CHOOSE n \in 1 .. MaxElements : DOMAIN a = 0 .. n - 1

Threads == 0 .. MAX_THREADS - 1

Zeros == [t \in Threads |-> 0]

\* params is zeroed.
Init ==
    /\ \E n \in 1 .. MaxElements : a \in [0 .. n - 1 -> Values]
    /\ num_threads \in 1 .. MAX_THREADS
    /\ mainPc = "create"
    /\ ctr = 0 /\ th_pos = 0 /\ best = 0 /\ index = 0
    /\ start_index = Zeros /\ size = Zeros /\ pmax = Zeros /\ max_index = Zeros
    /\ pos = Zeros
    /\ sctr = 0 /\ sindex = 0 /\ parallel = [max |-> 0, index |-> 0]
    /\ pc = [t \in Threads |-> "none"]

\* Thread 0 gets the residue.
Share(t) ==
    (num_elements \div num_threads)
        + (IF t = 0 THEN num_elements % num_threads ELSE 0)

\* One round of the loop; after the last one the assert.
CreateThread ==
    /\ mainPc = "create"
    /\ size' = [size EXCEPT ![ctr] = Share(ctr)]
    /\ start_index' = [start_index EXCEPT ![ctr] = th_pos]
    /\ pc' = [pc EXCEPT ![ctr] = "start"]
    /\ IF ctr + 1 < num_threads
       THEN /\ ctr' = ctr + 1
            /\ th_pos' = th_pos + Share(ctr)
            /\ mainPc' = "create"
       ELSE /\ ctr' = 0
            /\ th_pos' = 0
            /\ mainPc' = IF th_pos + Share(ctr) = num_elements
                         THEN "join" ELSE "aborted"
    /\ UNCHANGED <<a, num_threads, pmax, max_index, pos, best, index, serial>>

\* exit(-1)
CreateFails ==
    /\ mainPc = "create"
    /\ mainPc' = "failed"
    /\ UNCHANGED <<a, num_threads, ctr, th_pos, best, index, serial, param, pmax,
                   max_index, pc, pos>>

\* find_max ----------------------------------------------------------------

Alive == mainPc \notin {"printed", "failed", "aborted"}

\* What is found at a place; behind the array anything.
At(i) == IF i < num_elements THEN {a[i]} ELSE Values

\* The element number 0 of the share is read also when there is none.
Start(t) ==
    /\ Alive
    /\ pc[t] = "start"
    /\ \E v \in At(start_index[t]) : pmax' = [pmax EXCEPT ![t] = v]
    /\ max_index' = [max_index EXCEPT ![t] = 0]
    /\ pos' = [pos EXCEPT ![t] = 1]
    /\ pc' = [pc EXCEPT ![t] = "scan"]
    /\ UNCHANGED <<a, num_threads, main, param>>

\* One round of the loop of find_max.
Scan(t) ==
    LET v == a[start_index[t] + pos[t]]
    IN  /\ Alive
        /\ pc[t] = "scan"
        /\ pos[t] < size[t]
        /\ pos' = [pos EXCEPT ![t] = @ + 1]
        /\ IF v > pmax[t]
           THEN /\ pmax' = [pmax EXCEPT ![t] = v]
                /\ max_index' = [max_index EXCEPT ![t] = pos[t]]
           ELSE UNCHANGED <<pmax, max_index>>
        /\ UNCHANGED <<a, num_threads, main, param, pc>>

Return(t) ==
    /\ Alive
    /\ pc[t] = "scan"
    /\ pos[t] >= size[t]
    /\ pc' = [pc EXCEPT ![t] = "done"]
    /\ UNCHANGED <<a, num_threads, main, param, pmax, max_index, pos>>

\* main again --------------------------------------------------------------

\* Slip: the index in the share is taken for the index in the array.
MergeNoStart(t) ==
    IF t = 0 \/ best < pmax[t]
    THEN best' = pmax[t] /\ index' = max_index[t]
    ELSE UNCHANGED <<best, index>>

\* The share of thread 0 begins at 0.
Merge(t) ==
    IF t = 0
    THEN best' = pmax[t] /\ index' = max_index[t]
    ELSE IF best < pmax[t]
         THEN best' = pmax[t] /\ index' = max_index[t] + start_index[t]
         ELSE UNCHANGED <<best, index>>

JoinThread ==
    /\ mainPc = "join"
    /\ pc[ctr] = "done"
    /\ Merge(ctr)
    /\ IF ctr + 1 < num_threads
       THEN ctr' = ctr + 1 /\ mainPc' = "join"
       ELSE ctr' = 0 /\ mainPc' = "print"
    /\ UNCHANGED <<a, num_threads, th_pos, param, pmax, max_index, pc, pos, serial>>

threads == <<param, pmax, max_index, pc, pos>>

\* The parallel result is printed and find_max_serial begins; its maxval is the
\* max of main.
PrintParallel ==
    /\ mainPc = "print"
    /\ mainPc' = "serial"
    /\ parallel' = [max |-> best, index |-> index]
    /\ best' = a[0]
    /\ sindex' = 0
    /\ sctr' = 1
    /\ UNCHANGED <<a, num_threads, ctr, th_pos, index, threads>>

\* One round of the loop of find_max_serial.
ScanSerial ==
    /\ mainPc = "serial"
    /\ sctr < num_elements
    /\ sctr' = sctr + 1
    /\ IF a[sctr] > best
       THEN best' = a[sctr] /\ sindex' = sctr
       ELSE UNCHANGED <<best, sindex>>
    /\ UNCHANGED <<a, num_threads, mainPc, ctr, th_pos, index, parallel, threads>>

\* find_max_serial returns to main, which prints a[ctr] and ctr.
PrintSerial ==
    /\ mainPc = "serial"
    /\ sctr >= num_elements
    /\ mainPc' = "printed"
    /\ ctr' = sindex
    /\ UNCHANGED <<a, num_threads, th_pos, best, index, serial, threads>>

Main ==
    \/ CreateThread \/ CreateFails \/ JoinThread
    \/ PrintParallel \/ ScanSerial \/ PrintSerial

FindMaxThread(t) == Start(t) \/ Scan(t) \/ Return(t)

Gone == ~Alive /\ UNCHANGED vars

Next == Main \/ (\E t \in Threads : FindMaxThread(t)) \/ Gone

Spec == Init /\ [][Next]_vars

-----------------------------------------------------------------------------

TypeOK ==
    /\ \E n \in 1 .. MaxElements : a \in [0 .. n - 1 -> Values]
    /\ num_threads \in 1 .. MAX_THREADS
    /\ mainPc \in {"create", "join", "print", "serial", "printed", "failed",
                   "aborted"}
    /\ IF mainPc = "printed" THEN ctr \in DOMAIN a ELSE ctr \in Threads
    /\ th_pos \in 0 .. MaxElements
    /\ start_index \in [Threads -> 0 .. MaxElements]
    /\ size \in [Threads -> 0 .. MaxElements]
    /\ pmax \in [Threads -> Values \cup {0}]
    /\ max_index \in [Threads -> 0 .. MaxElements - 1]
    /\ pc \in [Threads -> {"none", "start", "scan", "done"}]
    /\ pos \in [Threads -> 0 .. MaxElements]
    /\ best \in Values \cup {0}
    /\ index \in 0 .. MaxElements
    /\ sctr \in 0 .. MaxElements
    /\ sindex \in DOMAIN a
    /\ parallel \in [max : Values \cup {0}, index : 0 .. MaxElements]

\* The index and the maximum printed under PARALLEL are those printed under
\* SERIAL, also for equal maxima in several shares.  Only when there are more
\* threads than elements may it be the place behind the array, which threads
\* with an empty share look at (find_max_parallel.c:55, 127-153); and the
\* assert that the shares cover the array (line 124) holds.
ParallelIsSerial ==
    /\ TypeOK
    /\ mainPc # "aborted"
    /\ mainPc = "printed" =>
          \/ parallel = [max |-> best, index |-> ctr] /\ best = a[ctr]
          \/ parallel.index = num_elements /\ num_threads > num_elements

=============================================================================
