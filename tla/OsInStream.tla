----------------------------- MODULE OsInStream -----------------------------
(***************************************************************************)
(* os::osinstream_t of day4/challenge-problems/src (day3 alike): streams   *)
(* that share one mapping of a file and a usage count.  Each has a         *)
(* position of its own, guarded by a mutex of its own.  Threads read and   *)
(* move streams, also the same one, copy them and destroy them; a stream   *)
(* is destroyed by one thread when no other one uses it, as C++ demands.   *)
(* The stream that falls back on std::ifstream is left out.                *)
(***************************************************************************)
EXTENDS Integers

CONSTANTS
    Threads,     \* threads
    Streams,     \* names of stream objects
    First,       \* the stream that maps the file
    FileSize,    \* bytes of the file
    Sizes,       \* sizes that are asked of read
    Nobody

ASSUME StreamAssumption ==
    /\ First \in Streams
    /\ FileSize \in Nat \ {0}
    /\ Sizes \subseteq Nat \ {0}
    /\ Nobody \notin Threads

VARIABLES
    life,        \* per stream: "none", "live", "dying" or "dead"
    fpos,        \* per stream: the position
    lock,        \* per stream: holder of its mutex, or Nobody
    count,       \* shared usage count
    unmapped,    \* how often the file was unmapped and closed
    pc,          \* where each thread is
    stream,      \* the stream it uses, First between calls
    size, cpos,  \* argument and local of read, 0 between calls; size is the
                 \* argument pos in seek
    given        \* history: bytes a stream gave since it was last moved

threadVars == <<pc, stream, size, cpos>>
streamVars == <<life, fpos, lock, count, unmapped, threadVars, given>>

StreamInit ==
    /\ life = [s \in Streams |-> IF s = First THEN "live" ELSE "none"]
    /\ fpos = [s \in Streams |-> 0]
    /\ lock = [s \in Streams |-> Nobody]
    /\ count = 1
    /\ unmapped = 0
    /\ pc = [t \in Threads |-> "idle"]
    /\ stream = [t \in Threads |-> First]
    /\ size = [t \in Threads |-> 0]
    /\ cpos = [t \in Threads |-> 0]
    /\ given = [s \in Streams |-> {}]

Move(t, from, to) ==
    /\ pc[t] = from
    /\ pc' = [pc EXCEPT ![t] = to]

\* The end of a call.
Return(t, from) ==
    /\ Move(t, from, "idle")
    /\ stream' = [stream EXCEPT ![t] = First]
    /\ size' = [size EXCEPT ![t] = 0]
    /\ cpos' = [cpos EXCEPT ![t] = 0]

Begin(t, s, n, to) ==
    /\ Move(t, "idle", to)
    /\ life[s] = "live"
    /\ stream' = [stream EXCEPT ![t] = s]
    /\ size' = [size EXCEPT ![t] = n]
    /\ UNCHANGED <<life, fpos, lock, count, unmapped, cpos, given>>

BeginRead(t, s, n) == n \in Sizes /\ Begin(t, s, n, "lockRead")

\* seek returns -1 at once for a position outside of the file.
BeginSeek(t, s, pos) == pos \in 0 .. FileSize - 1 /\ Begin(t, s, pos, "lockSeek")

\* Slip: the mutex is not waited for.
LockStreamFree(t, from, to) ==
    /\ Move(t, from, to)
    /\ lock' = [lock EXCEPT ![stream[t]] = t]
    /\ UNCHANGED <<life, fpos, count, unmapped, stream, size, cpos, given>>

LockStream(t, from, to) ==
    /\ Move(t, from, to)
    /\ lock[stream[t]] = Nobody
    /\ lock' = [lock EXCEPT ![stream[t]] = t]
    /\ UNCHANGED <<life, fpos, count, unmapped, stream, size, cpos, given>>

Fits(t) == fpos[stream[t]] + size[t] <= FileSize

\* Slip: the read is tried again instead of refused.
RefuseRetry(t) ==
    /\ Move(t, "check", "lockRead")
    /\ ~Fits(t)
    /\ lock' = [lock EXCEPT ![stream[t]] = Nobody]
    /\ UNCHANGED <<life, fpos, count, unmapped, stream, size, cpos, given>>

\* "reading beyond the file size": unlock and return -1.
Refuse(t) ==
    /\ Return(t, "check")
    /\ ~Fits(t)
    /\ lock' = [lock EXCEPT ![stream[t]] = Nobody]
    /\ UNCHANGED <<life, fpos, count, unmapped, given>>

\* cpos = fpos
TakePos(t) ==
    LET s == stream[t]
    IN  /\ Move(t, "check", "advance")
        /\ Fits(t)
        /\ cpos' = [cpos EXCEPT ![t] = fpos[s]]
        /\ given' = [given EXCEPT ![s] = @ \cup fpos[s] .. fpos[s] + size[t] - 1]
        /\ UNCHANGED <<life, fpos, lock, count, unmapped, stream, size>>

\* fpos += size and unlock.
Advance(t) ==
    LET s == stream[t]
    IN  /\ Move(t, "advance", "copy")
        /\ fpos' = [fpos EXCEPT ![s] = @ + size[t]]
        /\ lock' = [lock EXCEPT ![s] = Nobody]
        /\ UNCHANGED <<life, count, unmapped, stream, size, cpos, given>>

\* memcpy, outside of the mutex.
Copy(t) ==
    /\ Return(t, "copy")
    /\ UNCHANGED <<life, fpos, lock, count, unmapped, given>>

\* fpos = pos and unlock.
Seek(t) ==
    LET s == stream[t]
    IN  /\ Return(t, "seek")
        /\ fpos' = [fpos EXCEPT ![s] = size[t]]
        /\ lock' = [lock EXCEPT ![s] = Nobody]
        /\ given' = [given EXCEPT ![s] = {}]
        /\ UNCHANGED <<life, count, unmapped>>

\* Slip: the copy is not counted.
CopyStreamUncounted(t, s, new) ==
    /\ pc[t] = "idle"
    /\ life[s] = "live"
    /\ life[new] = "none"
    /\ life' = [life EXCEPT ![new] = "live"]
    /\ fpos' = [fpos EXCEPT ![new] = fpos[s]]
    /\ UNCHANGED <<lock, count, unmapped, threadVars, given>>

\* The copy constructor; it reads the position without the mutex.
CopyStream(t, s, new) ==
    /\ pc[t] = "idle"
    /\ life[s] = "live"
    /\ life[new] = "none"
    /\ life' = [life EXCEPT ![new] = "live"]
    /\ fpos' = [fpos EXCEPT ![new] = fpos[s]]
    /\ count' = count + 1
    /\ UNCHANGED <<lock, unmapped, threadVars, given>>

\* The destructor: assert(*count >= 1) and the decrement.
Decrement(t, s) ==
    /\ Move(t, "idle", "test")
    /\ life[s] = "live"
    /\ \A u \in Threads : pc[u] # "idle" => stream[u] # s
    /\ count >= 1
    /\ life' = [life EXCEPT ![s] = "dying"]
    /\ stream' = [stream EXCEPT ![t] = s]
    /\ count' = count - 1
    /\ UNCHANGED <<fpos, lock, unmapped, size, cpos, given>>

IsLast == count = 0

\* The count is read again.
TestCount(t) ==
    /\ Return(t, "test")
    /\ life' = [life EXCEPT ![stream[t]] = "dead"]
    /\ unmapped' = IF IsLast THEN unmapped + 1 ELSE unmapped
    /\ UNCHANGED <<fpos, lock, count, given>>

\* What goes on in a call that has begun.
Step(t) ==
    \/ LockStream(t, "lockRead", "check")
    \/ LockStream(t, "lockSeek", "seek")
    \/ Refuse(t)
    \/ TakePos(t)
    \/ Advance(t)
    \/ Copy(t)
    \/ Seek(t)
    \/ TestCount(t)

Gone == (\A s \in Streams : life[s] \notin {"live", "dying"}) /\ UNCHANGED streamVars

StreamNext ==
    \/ \E t \in Threads :
          \/ Step(t)
          \/ \E s \in Streams :
                \/ \E n \in Sizes : BeginRead(t, s, n)
                \/ \E pos \in 0 .. FileSize : BeginSeek(t, s, pos)
                \/ \E new \in Streams : CopyStream(t, s, new)
                \/ Decrement(t, s)
    \/ Gone

StreamSpec == StreamInit /\ [][StreamNext]_streamVars

\* A call that has begun goes on; a thread that finds the mutex free again
\* and again takes it.  Nobody has to call anything.
Fairness == \A t \in Threads : SF_streamVars(Step(t))

FairSpec == StreamSpec /\ Fairness

-----------------------------------------------------------------------------

StreamTypeOK ==
    /\ life \in [Streams -> {"none", "live", "dying", "dead"}]
    /\ fpos \in [Streams -> 0 .. FileSize]
    /\ lock \in [Streams -> Threads \cup {Nobody}]
    /\ count \in Nat
    /\ unmapped \in Nat
    /\ pc \in [Threads -> {"idle", "lockRead", "lockSeek", "check", "seek",
                           "advance", "copy", "test"}]
    /\ stream \in [Threads -> Streams]
    /\ size \in [Threads -> Nat]
    /\ cpos \in [Threads -> 0 .. FileSize]
    /\ given \in [Streams -> SUBSET (0 .. FileSize - 1)]

\* "Safe (non-overlapping) access is ensured ... for a single object"
\* (os.cpp:62-63): what a read copies, after the mutex was released, are bytes
\* of the file that the stream has not given since it was last moved.
ReadsDisjoint ==
    [][\A t \in Threads : TakePos(t) =>
          fpos[stream[t]] .. fpos[stream[t]] + size[t] - 1
              \subseteq (0 .. FileSize - 1) \ given[stream[t]]]_streamVars

\* The file stays mapped as long as a stream can be read, and when the last
\* destructor has returned it has been unmapped, whatever copies were made
\* and destroyed by whom (os.cpp:65-76, 106-112).
MappingLife ==
    /\ StreamTypeOK
    /\ (\E s \in Streams : life[s] = "live") => unmapped = 0
    /\ (\A s \in Streams : life[s] \in {"none", "dead"}) => unmapped >= 1

\* Every call that waits for a mutex returns, whatever the others do and also
\* by way of the early return (os.cpp:90-98).
CallsReturn ==
    \A t \in Threads : pc[t] \in {"lockRead", "lockSeek"} ~> pc[t] = "idle"

\* The comment above the copy constructor, "Can be used to maintain different
\* streams for different threads" (os.cpp:61): such threads may end together,
\* and the file is unmapped and closed once.
UnmappedOnce == unmapped <= 1

=============================================================================
