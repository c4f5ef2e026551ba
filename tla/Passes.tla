------------------------------- MODULE Passes -------------------------------
(***************************************************************************)
(* The instrumenting passes of day2/functionpass, as operators on the code *)
(* of a function.  Code is a sequence of instructions in the order of the  *)
(* blocks; an instruction is a tuple that begins with its opcode, such as  *)
(*     <<"call", f>>   <<"load", cell>>   <<"br">>   <<"ret">>             *)
(* The passes only insert, and only before the instruction they look at,   *)
(* which they do not visit again.                                          *)
(***************************************************************************)
EXTENDS Integers, Sequences, SequencesExt

Call(f) == <<"call", f>>

IsCall(i) == i[1] = "call"

\* new[n] is inserted before the n-th instruction.
Insert(new, code) ==
    FlattenSeq([n \in DOMAIN code |-> new[n] \o <<code[n]>>])

When(condition, code) == IF condition THEN code ELSE <<>>

\* Slip: the second insertion is a copy of the first.
InstrumentLocksCopied(code) ==
    LET new == [n \in DOMAIN code |->
          When(code[n] \in {Call("pthread_mutex_lock"),
                            Call("pthread_mutex_unlock")},
               <<Call("__lock_acq")>>)]
    IN  Insert(new, code)

\* InstrumentLocks.cpp: both insertions stand before the call.
InstrumentLocks(code) ==
    LET new == [n \in DOMAIN code |->
          When(code[n] = Call("pthread_mutex_lock"), <<Call("__lock_acq")>>)
            \o When(code[n] = Call("pthread_mutex_unlock"), <<Call("__lock_rel")>>)]
    IN  Insert(new, code)

Reported(i) == IsCall(i) /\ i # Call("printf")

\* Slip: the exit of a function is inserted together with its entry.
InstrumentFunctionsEarly(f, code) ==
    LET new == [n \in DOMAIN code |->
          When(f = "main" /\ n = 1, <<<<"entry", f>>>>)
            \o When(f = "main" /\ code[n][1] = "ret", <<<<"exit", f>>>>)
            \o When(Reported(code[n]), <<<<"entry", code[n][2]>>, <<"exit", code[n][2]>>>>)]
    IN  Insert(new, code)

\* InstrumentFunctions.cpp: the entry of a called function before the call,
\* its exit before the next instruction (flag and prev_name); main reports
\* itself before its first instruction and before a ret.
InstrumentFunctions(f, code) ==
    LET new == [n \in DOMAIN code |->
          When(f = "main" /\ n = 1, <<<<"entry", f>>>>)
            \o When(f = "main" /\ code[n][1] = "ret", <<<<"exit", f>>>>)
            \o (IF n > 1 /\ Reported(code[n - 1])
                THEN <<<<"exit", code[n - 1][2]>>>> ELSE <<>>)
            \o When(Reported(code[n]), <<<<"entry", code[n][2]>>>>)]
    IN  Insert(new, code)

=============================================================================
