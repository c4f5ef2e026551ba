---------------------------- MODULE ThreadManager ----------------------------
(***************************************************************************)
(* os::thmgr_t of day3 and day4/challenge-problems/src: a fixed table of   *)
(* slots.  create reserves the first free slot, launch starts a thread in  *)
(* it, wait joins it; wait without a number, which is also what the        *)
(* destructor does first, joins all the running ones in turn.  A failed    *)
(* assert ends the process.  The object is used from one thread, the       *)
(* threads it starts only run and exit.                                    *)
(***************************************************************************)
EXTENDS Integers

CONSTANTS
    NumThreads,   \* slots asked of the constructor
    MAX_THREADS,  \* 32 in os.h
    Secure        \* whether the manager was given a chdev_t

ASSUME ManagerAssumption ==
    /\ NumThreads \in Nat
    /\ MAX_THREADS \in Nat
    /\ Secure \in BOOLEAN

VARIABLES
    slots,        \* threads[tid]: used, running, thfunc # NULL, stack mapped
    life,         \* system thread of a slot: "none", "alive" or "exited"
    phase,        \* "open", in wait() or the destructor, "closed", "aborted"
    cursor,       \* the loop counter of wait()
    result        \* value of the last create, -2 before

managerVars == <<slots, life, phase, cursor, result>>

Tids == 0 .. NumThreads - 1

FreeSlot == [used |-> FALSE, running |-> FALSE, thfunc |-> FALSE,
             stack |-> FALSE]

-----------------------------------------------------------------------------

\* The constructor; its assert refuses no slots and too many.
Init ==
    /\ slots = [t \in Tids |-> FreeSlot]
    /\ life = [t \in Tids |-> "none"]
    /\ phase = IF NumThreads \in 1 .. MAX_THREADS THEN "open" ELSE "aborted"
    /\ cursor = 0
    /\ result = -2

Abort ==
    /\ phase' = "aborted"
    /\ UNCHANGED <<slots, life, cursor, result>>

Free == {t \in Tids : ~slots[t].used}

\* "All threads busy": there is no unused slot.
CreateBusy ==
    /\ phase = "open"
    /\ Free = {}
    /\ result' = -1
    /\ UNCHANGED <<slots, life, phase, cursor>>

\* What create does to the slot.  running is not touched: it is FALSE in a
\* slot that is not used.
Created(slot) ==
    [slot EXCEPT !.used = TRUE, !.thfunc = TRUE, !.stack = Secure]

\* find_free_thread takes the first unused slot.
CreateSlot(tid) ==
    /\ phase = "open"
    /\ \A t \in Free : tid <= t
    /\ result' = tid
    /\ slots' = [slots EXCEPT ![tid] = Created(slots[tid])]
    /\ UNCHANGED <<life, phase, cursor>>

Create == CreateBusy \/ \E tid \in Free : CreateSlot(tid)

\* The stack of a secure thread cannot be mapped: the assert fails.
CreateAborts == phase = "open" /\ Free # {} /\ Secure /\ Abort

MayLaunch(tid) == ~slots[tid].running /\ slots[tid].thfunc

\* Slip: running is not set.
LaunchNotRunning(tid) ==
    /\ phase = "open"
    /\ MayLaunch(tid)
    /\ life' = [life EXCEPT ![tid] = "alive"]
    /\ UNCHANGED <<slots, phase, cursor, result>>

Launch(tid) ==
    /\ phase = "open"
    /\ MayLaunch(tid)
    /\ life' = [life EXCEPT ![tid] = "alive"]
    /\ slots' = [slots EXCEPT ![tid].running = TRUE]
    /\ UNCHANGED <<phase, cursor, result>>

\* launch of a slot that is running or was not created, or pthread_create or
\* register_key fails: an assert fails.
LaunchAborts(tid) == phase = "open" /\ Abort

\* Slip: the function stays, and the slot can be launched again.
JoinedKeepsFunction(slot) == [slot EXCEPT !.running = FALSE, !.stack = FALSE]

\* What wait does to the slot once pthread_join has returned.  used stays.
Joined(slot) ==
    [slot EXCEPT !.running = FALSE, !.thfunc = FALSE, !.stack = FALSE]

\* Slip: the thread is not joined.
WaitNoJoin(tid) ==
    /\ phase = "open"
    /\ slots[tid].running
    /\ slots' = [slots EXCEPT ![tid] = Joined(slots[tid])]
    /\ UNCHANGED <<life, phase, cursor, result>>

Wait(tid) ==
    /\ phase = "open"
    /\ slots[tid].running
    /\ life[tid] = "exited"
    /\ life' = [life EXCEPT ![tid] = "none"]
    /\ slots' = [slots EXCEPT ![tid] = Joined(slots[tid])]
    /\ UNCHANGED <<phase, cursor, result>>

\* wait for a slot that is not running: assert(th->running) fails.
WaitAborts(tid) == phase = "open" /\ ~slots[tid].running /\ Abort

\* wait() -----------------------------------------------------------------

WaitAllStart ==
    /\ phase = "open"
    /\ phase' = "waiting"
    /\ cursor' = 0
    /\ UNCHANGED <<slots, life, result>>

\* ~thmgr_t begins with wait().
Destroy ==
    /\ phase = "open"
    /\ phase' = "destroying"
    /\ cursor' = 0
    /\ UNCHANGED <<slots, life, result>>

\* Slip: the last slot is left out.
WaitAllEndEarly ==
    /\ phase \in {"waiting", "destroying"}
    /\ cursor >= NumThreads - 1
    /\ phase' = IF phase = "waiting" THEN "open" ELSE "closed"
    /\ UNCHANGED <<slots, life, cursor, result>>

WaitAllEnd ==
    /\ phase \in {"waiting", "destroying"}
    /\ cursor = NumThreads
    /\ phase' = IF phase = "waiting" THEN "open" ELSE "closed"
    /\ UNCHANGED <<slots, life, cursor, result>>

\* Slip: the loop does not go on past an idle slot.
WaitAllSkipStuck ==
    /\ phase \in {"waiting", "destroying"}
    /\ cursor \in Tids
    /\ ~slots[cursor].running
    /\ UNCHANGED managerVars

\* One turn of the loop: skip the slot, or join its thread and free it.
WaitAllSkip ==
    /\ phase \in {"waiting", "destroying"}
    /\ cursor \in Tids
    /\ ~slots[cursor].running
    /\ cursor' = cursor + 1
    /\ UNCHANGED <<slots, life, phase, result>>

WaitAllJoin ==
    /\ phase \in {"waiting", "destroying"}
    /\ cursor \in Tids
    /\ slots[cursor].running
    /\ life[cursor] = "exited"
    /\ life' = [life EXCEPT ![cursor] = "none"]
    /\ slots' = [slots EXCEPT ![cursor] =
                     [Joined(slots[cursor]) EXCEPT !.used = FALSE]]
    /\ cursor' = cursor + 1
    /\ UNCHANGED <<phase, result>>

WaitAll == WaitAllSkip \/ WaitAllJoin \/ WaitAllEnd

\* A thread returns or calls pthread_exit.
ThreadExit(tid) ==
    /\ phase # "aborted"
    /\ life[tid] = "alive"
    /\ life' = [life EXCEPT ![tid] = "exited"]
    /\ UNCHANGED <<slots, phase, cursor, result>>

\* The manager is gone, with the process or without it.
Gone == phase \in {"closed", "aborted"} /\ UNCHANGED managerVars

Next ==
    \/ Create
    \/ CreateAborts
    \/ \E tid \in Tids :
          \/ Launch(tid)
          \/ LaunchAborts(tid)
          \/ Wait(tid)
          \/ WaitAborts(tid)
          \/ ThreadExit(tid)
    \/ WaitAllStart
    \/ Destroy
    \/ WaitAll
    \/ Gone

Spec == Init /\ [][Next]_managerVars

\* Threads that run come to an end and the loop of wait() goes on; nobody has
\* to call the manager.
Fairness ==
    /\ \A tid \in Tids : WF_managerVars(ThreadExit(tid))
    /\ WF_managerVars(WaitAll)

FairSpec == Spec /\ Fairness

-----------------------------------------------------------------------------

TypeOK ==
    /\ slots \in [Tids -> [used : BOOLEAN, running : BOOLEAN,
                           thfunc : BOOLEAN, stack : BOOLEAN]]
    /\ life \in [Tids -> {"none", "alive", "exited"}]
    /\ phase \in {"open", "waiting", "destroying", "closed", "aborted"}
    /\ cursor \in 0 .. NumThreads
    /\ result \in {-2, -1} \cup Tids

\* The table and the system agree: a slot is running exactly while it holds a
\* thread that has not been joined, so no thread is joined twice, lost or
\* replaced by another one (os.cpp:232-265).
RunningMeansUnjoined ==
    \A t \in Tids : slots[t].running <=> life[t] # "none"

\* find_free_thread never hands out a slot whose thread still runs, and the
\* assert(th->used) of wait() holds (os.cpp:201-210, 272).
RunningIsUsed == \A t \in Tids : slots[t].running => slots[t].used

\* A secure thread has its own stack as long as it is alive (os.cpp:259-261).
StackOutlivesThread ==
    \A t \in Tids : (Secure /\ life[t] = "alive") => slots[t].stack

\* The destructor leaves no thread behind (os.cpp:280-283).
NoThreadLeft == phase = "closed" => \A t \in Tids : life[t] = "none"

\* Nothing of the slot of a live thread changes: its function and its stack
\* are taken away, and the slot is given to another, only after the join.
LiveSlotsUntouched ==
    [][\A t \in Tids : life[t] = "alive" => slots'[t] = slots[t]]_managerVars

\* A call of wait() or of the destructor returns.
WaitReturns == phase \in {"waiting", "destroying"} ~> phase \in {"open", "closed"}

=============================================================================
