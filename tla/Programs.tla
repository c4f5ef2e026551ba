------------------------------ MODULE Programs ------------------------------
(***************************************************************************)
(* Small C programs whose threads share memory, and those that the passes  *)
(* of day2 instrument, on a machine that executes one instruction of one   *)
(* thread at a time:                                                       *)
(*   day3/other: lock-example.c, thread_example.c, thread_example_2.c,     *)
(*   which move random amounts into and out of one account;                *)
(*   day2/progs: prog9.c, prog10.c, prog11.c.                              *)
(* x += n is a load and a store.  Thread 0 is main.                        *)
(***************************************************************************)
EXTENDS Passes, FiniteSets

CONSTANTS
    MaxThreads,       \* bound of num_threads (32)
    MaxTransactions,  \* bound of the number of transactions asked for
    Deposits,         \* the values of 100 + random() % 100
    Withdrawals       \* the values of random() % 100

ASSUME ProgramsAssumption ==
    /\ MaxThreads \in Nat /\ MaxThreads >= 2
    /\ MaxTransactions \in Nat
    /\ IsFiniteSet(Deposits) /\ Deposits # {} /\ Deposits \subseteq Nat
    /\ IsFiniteSet(Withdrawals) /\ Withdrawals # {} /\ Withdrawals \subseteq Nat

VARIABLES
    prog,      \* the program and its arguments
    code,      \* per thread: the instructions it has still to execute
    started,   \* the threads created
    mem,       \* the shared variables
    reg,       \* per thread: what it loaded last
    mutex,     \* who holds th_mutex or count_mutex
    log,       \* per thread: the lines it printed
    booked     \* history: the sum of the amounts added to each variable

machineVars == <<prog, code, started, mem, reg, mutex, log, booked>>

ThreadIds == 0 .. MaxThreads
Nobody == -1
Cells == {"ac_balance", "counter", "numLockAcqs"}

Amounts(how) ==
    CASE how = "deposit"  -> Deposits
      [] how = "withdraw" -> {-n : n \in Withdrawals}
      [] how = "one"      -> {1}

Times(n, s) == FlattenSeq([i \in 1 .. n |-> s])

-----------------------------------------------------------------------------
(* The account programs.                                                    *)

\* num_threads is even where half of the threads withdraw, and num_transactions
\* is asserted to exceed it.
Account(file, locked, both) ==
    {p \in [file : {file}, locked : {locked}, both : {both},
            num_threads : 1 .. MaxThreads, transactions : 1 .. MaxTransactions] :
        /\ p.transactions > p.num_threads
        /\ both => p.num_threads % 2 = 0}

lock_example == Account("lock-example.c", TRUE, TRUE)
thread_example == Account("thread_example.c", FALSE, FALSE)
thread_example_2 == Account("thread_example_2.c", FALSE, TRUE)

AccountPrograms == lock_example \cup thread_example \cup thread_example_2

num_transactions(p) == p.transactions \div p.num_threads

\* Taken of what is left after the division.
residue(p) == num_transactions(p) % p.num_threads

Update(cell, how) == <<<<"load", cell>>, <<"store", cell, how>>>>

\* Slip: the update is stored after the unlock.
LockedShort(s) ==
    <<Call("pthread_mutex_lock"), Head(s), Call("pthread_mutex_unlock")>>
        \o Tail(s)

Locked(s) ==
    <<Call("pthread_mutex_lock")>> \o s \o <<Call("pthread_mutex_unlock")>>

Transaction(p, how) ==
    IF p.locked THEN Locked(Update("ac_balance", how))
                ELSE Update("ac_balance", how)

\* Slip: i <= num_transactions.
do_depositMore(p) ==
    Times(num_transactions(p) + 1, Transaction(p, "deposit")) \o <<<<"ret">>>>

do_deposit(p) ==
    Times(num_transactions(p), Transaction(p, "deposit")) \o <<<<"ret">>>>

do_withdraw(p) ==
    Times(num_transactions(p), Transaction(p, "withdraw")) \o <<<<"ret">>>>

\* Every second thread withdraws; main does the residue, joins and prints.
AccountCode(p) ==
    LET threads == 1 .. p.num_threads
        main == [t \in threads |-> <<"create", t>>]
                  \o Times(residue(p), Transaction(p, "deposit"))
                  \o When(p.both, Times(residue(p), Transaction(p, "withdraw")))
                  \o [t \in threads |-> <<"join", t>>]
                  \o <<<<"print", "ac_balance">>>>
    IN  [t \in ThreadIds |->
            IF t = 0 THEN main
            ELSE IF t \notin threads THEN <<>>
            ELSE IF p.both /\ t % 2 = 0 THEN do_withdraw(p) ELSE do_deposit(p)]

-----------------------------------------------------------------------------
(* The programs of day2.                                                    *)

\* Both versions of prog11; its increment_count and get_count are not used.
prog11 == [file : {"prog11.c"}, instrumented : BOOLEAN]

thrBody ==
    <<Call("printf")>> \o Locked(Update("counter", "one"))
        \o <<Call("printf"), <<"ret">>>>

\* main sleeps and returns: nobody is joined.
Prog11Code(p) ==
    [t \in ThreadIds |->
        IF t = 0 THEN <<<<"create", 1>>, <<"create", 2>>, Call("sleep"), <<"ret">>>>
        ELSE IF t > 2 THEN <<>>
        ELSE IF p.instrumented THEN InstrumentLocks(thrBody) ELSE thrBody]

\* The example is that of InstrumentFunctions.cpp: main calls fun and ends.
instrfuncs == [file : {"prog9.c", "prog10.c", "example.c"}]

\* Two rounds of the loop are unrolled.
InstrfuncsCode(p) ==
    LET main == IF p.file = "example.c"
                THEN <<Call("fun"), <<"ret">>>>
                ELSE <<<<"alloca">>, <<"br">>>>
                       \o Times(2, <<Call("func1"), <<"br">>>>) \o <<<<"ret">>>>
    IN  [t \in ThreadIds |-> IF t = 0 THEN InstrumentFunctions("main", main) ELSE <<>>]

\* The code that a call executes; a library function has none of interest.
\* func1 of prog10 returns early in its first rounds; -mergereturn makes that
\* a branch to the only ret.
Bodies(f) ==
    CASE f = "__lock_acq" -> {<<<<"acquired">>>> \o Update("numLockAcqs", "one")}
      [] f = "__lock_rel" -> {<<<<"released">>>>}
      [] f \in {"fun", "func1"} ->
            {InstrumentFunctions(f, <<<<"says", f>>, Call("printf"), <<"ret">>>>)}
              \cup (IF prog.file = "prog10.c"
                    THEN {InstrumentFunctions(f, <<<<"br">>, <<"ret">>>>)}
                    ELSE {})
      [] OTHER -> {<<>>}

-----------------------------------------------------------------------------
(* The machine.                                                             *)

MachineInit ==
    /\ \/ prog \in AccountPrograms /\ code = AccountCode(prog)
       \/ prog \in prog11 /\ code = Prog11Code(prog)
       \/ prog \in instrfuncs /\ code = InstrfuncsCode(prog)
    /\ started = {0}
    /\ mem = [c \in Cells |-> 0] /\ booked = mem
    /\ reg = [t \in ThreadIds |-> 0]
    /\ mutex = Nobody
    /\ log = [t \in ThreadIds |-> <<>>]

Ended(t) == code[t] = <<>>

\* t executes an instruction of these; all threads end with main.
Ready(t, ops) ==
    /\ t \in started
    /\ ~Ended(0)
    /\ ~Ended(t)
    /\ Head(code[t])[1] \in ops

Go(t) == code' = [code EXCEPT ![t] = Tail(@)]

Load(t) ==
    /\ Ready(t, {"load"})
    /\ reg' = [reg EXCEPT ![t] = mem[Head(code[t])[2]]]
    /\ Go(t)
    /\ UNCHANGED <<prog, started, mem, mutex, log, booked>>

Store(t) ==
    /\ Ready(t, {"store"})
    /\ LET cell == Head(code[t])[2]
       IN  \E n \in Amounts(Head(code[t])[3]) :
              /\ mem' = [mem EXCEPT ![cell] = reg[t] + n]
              /\ booked' = [booked EXCEPT ![cell] = @ + n]
    /\ reg' = [reg EXCEPT ![t] = 0]
    /\ Go(t)
    /\ UNCHANGED <<prog, started, mutex, log>>

LockMutex(t) ==
    /\ Ready(t, {"call"}) /\ Head(code[t]) = Call("pthread_mutex_lock")
    /\ mutex = Nobody
    /\ mutex' = t
    /\ Go(t)
    /\ UNCHANGED <<prog, started, mem, reg, log, booked>>

UnlockMutex(t) ==
    /\ Ready(t, {"call"}) /\ Head(code[t]) = Call("pthread_mutex_unlock")
    /\ mutex' = Nobody
    /\ Go(t)
    /\ UNCHANGED <<prog, started, mem, reg, log, booked>>

CallFunction(t) ==
    /\ Ready(t, {"call"})
    /\ Head(code[t])[2] \notin {"pthread_mutex_lock", "pthread_mutex_unlock"}
    /\ \E body \in Bodies(Head(code[t])[2]) :
           code' = [code EXCEPT ![t] = body \o Tail(@)]
    /\ UNCHANGED <<prog, started, mem, reg, mutex, log, booked>>

Create(t) ==
    /\ Ready(t, {"create"})
    /\ started' = started \cup {Head(code[t])[2]}
    /\ Go(t)
    /\ UNCHANGED <<prog, mem, reg, mutex, log, booked>>

Join(t) ==
    /\ Ready(t, {"join"})
    /\ Ended(Head(code[t])[2])
    /\ Go(t)
    /\ UNCHANGED <<prog, started, mem, reg, mutex, log, booked>>

\* __lock_acq, __lock_rel, __func_entry, __func_exit and func1.
PrintLine(t) ==
    /\ Ready(t, {"acquired", "released", "entry", "exit", "says"})
    /\ log' = [log EXCEPT ![t] = Append(@, Head(code[t]))]
    /\ Go(t)
    /\ UNCHANGED <<prog, started, mem, reg, mutex, booked>>

PrintBalance(t) ==
    /\ Ready(t, {"print"})
    /\ log' = [log EXCEPT ![t] = Append(@, <<"remaining balance", mem["ac_balance"]>>)]
    /\ Go(t)
    /\ UNCHANGED <<prog, started, mem, reg, mutex, booked>>

Pass(t) ==
    /\ Ready(t, {"alloca", "br", "ret"})
    /\ Go(t)
    /\ UNCHANGED <<prog, started, mem, reg, mutex, log, booked>>

Step(t) ==
    \/ Load(t) \/ Store(t) \/ LockMutex(t) \/ UnlockMutex(t) \/ CallFunction(t)
    \/ Create(t) \/ Join(t) \/ PrintLine(t) \/ PrintBalance(t) \/ Pass(t)

MachineNext == (\E t \in ThreadIds : Step(t)) \/ (Ended(0) /\ UNCHANGED machineVars)

MachineSpec == MachineInit /\ [][MachineNext]_machineVars

-----------------------------------------------------------------------------

\* The balance of lock-example and the counter of prog11, instrumented or not,
\* are at any time exactly the sum of the amounts drawn.
LockedIsExact ==
    prog \in lock_example \cup prog11 =>
        \A cell \in {"ac_balance", "counter"} : mem[cell] = booked[cell]

\* Without the lock updates are lost but none is made up: what is printed lies
\* between all withdrawals and all deposits the program was asked for.  It is
\* printed when every thread has ended.
RemainingIsBounded ==
    (prog \in AccountPrograms /\ Ended(0)) =>
        LET n     == prog.num_threads
            half  == IF prog.both THEN n \div 2 ELSE n
            some  == num_transactions(prog)
            left  == log[0][1][2]
            most  == CHOOSE d \in Deposits : \A e \in Deposits : d >= e
            least == CHOOSE d \in Withdrawals : \A e \in Withdrawals : d >= e
        IN  /\ left <= most * (half * some + residue(prog))
            /\ left >= -least * (IF prog.both THEN half * some + residue(prog) ELSE 0)
            /\ \A t \in 1 .. n : t \in started /\ Ended(t)

Lines(t, what) == Cardinality({i \in DOMAIN log[t] : log[t][i][1] = what})

\* The lines of the instrumented prog11 pair up in every thread; who holds the
\* mutex has announced it, though another thread may have announced as much
\* before it waits; numLockAcqs, which is incremented without the lock, may
\* fall behind the lines but counts somebody.
LogsPaired ==
    (prog \in prog11 /\ prog.instrumented) =>
        /\ \A t \in ThreadIds :
              /\ Lines(t, "acquired") - Lines(t, "released") \in {0, 1}
              /\ mutex = t => Lines(t, "acquired") = 1
              /\ t \in 1 .. 2 /\ Ended(t) =>
                    Lines(t, "released") = 1 /\ mem["numLockAcqs"] >= 1
        /\ mem["numLockAcqs"] <= Lines(1, "acquired") + Lines(2, "acquired")

\* The functions that are open after one more line; marked bad if it closes
\* one that is not the last opened, or a function speaks out of turn.
After(open, line) ==
    IF open = <<"bad">> THEN open
    ELSE CASE line[1] = "entry" -> <<line[2]>> \o open
           [] line[1] = "exit"  -> IF open # <<>> /\ Head(open) = line[2]
                                   THEN Tail(open) ELSE <<"bad">>
           [] line[1] = "says"  -> IF open # <<>> /\ Head(open) = line[2]
                                   THEN open ELSE <<"bad">>

\* The functions that are open after a log.
Open(lines) == FoldLeft(After, <<>>, lines)

\* Every function says what it says between its entry and its exit, and exits
\* come in the reverse order of entries, when no call is the last thing main
\* does; in that case the exit of main is inserted before that of the function
\* (InstrumentFunctions.cpp:121-148).
CallsNested ==
    prog.file \in {"prog9.c", "prog10.c"} =>
        /\ Open(log[0]) # <<"bad">>
        /\ Ended(0) => log[0] # <<>> /\ Open(log[0]) = <<>>

=============================================================================
