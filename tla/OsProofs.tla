------------------------------ MODULE OsProofs ------------------------------
(***************************************************************************)
(* Proofs about the two parts that stand between the programs and the      *)
(* operating system: the mapped stream of OsInStream, for every number of  *)
(* threads, streams and copies of them, every size of the file and all     *)
(* sizes that are read, and the kernel module of Sthreads, for every       *)
(* number of clients, keys and objects.                                    *)
(***************************************************************************)
EXTENDS OsInStream, Sthreads, FiniteSetTheorems, SequenceTheorems, TLAPS

(* The stream.                                                              *)

\* What the arguments of a call have passed when it gets that far.
Arguments ==
    \A t \in Threads :
        /\ pc[t] \in {"lockSeek", "seek"} => size[t] \in 0 .. FileSize - 1
        /\ pc[t] = "advance" => fpos[stream[t]] + size[t] <= FileSize

\* The mutex of a stream is held by the thread that is between lock and unlock.
Holds(t, s) == pc[t] \in {"check", "seek", "advance"} /\ stream[t] = s

MutexOK == \A t \in Threads, s \in Streams : lock[s] = t <=> Holds(t, s)

\* A stream that a call uses is not destroyed, and not before it is made.
UsersOK ==
    \A t \in Threads :
        /\ pc[t] \notin {"idle", "test"} => life[stream[t]] = "live"
        /\ pc[t] = "test" => life[stream[t]] = "dying"

\* The destructor is alone with its stream.
Sole ==
    \A t, u \in Threads :
        t # u /\ pc[t] = "test" /\ pc[u] # "idle" => stream[t] # stream[u]

\* What a stream has given lies below its position, or below the one that the
\* holder of its mutex is about to store.
GivenBelow ==
    \A s \in Streams : \A b \in given[s] :
        \/ b < fpos[s]
        \/ \E t \in Threads :
              pc[t] = "advance" /\ stream[t] = s /\ b < fpos[s] + size[t]

FreshOK == \A s \in Streams : life[s] = "none" => given[s] = {}

Live == {s \in Streams : life[s] = "live"}

\* The usage count is the number of streams nobody has begun to destroy; as
\* long as there is one the file is mapped, and when the last one is gone it
\* has been unmapped.
CountOK ==
    /\ IsFiniteSet(Live) /\ count = Cardinality(Live)
    /\ Live # {} => unmapped = 0
    /\ (\A s \in Streams : life[s] \in {"none", "dead"}) => unmapped >= 1

\* The inductive invariant.
StreamInv ==
    /\ StreamTypeOK /\ Arguments /\ MutexOK /\ UsersOK /\ Sole /\ GivenBelow /\ FreshOK
    /\ CountOK

-----------------------------------------------------------------------------

LEMMA StreamInitInv == StreamInit => StreamInv
<1> SUFFICES ASSUME StreamInit PROVE StreamInv
  OBVIOUS
<1> USE StreamAssumption
<1>1. StreamTypeOK
  BY DEF StreamInit, StreamTypeOK
<1>2. Arguments /\ UsersOK /\ Sole /\ GivenBelow /\ FreshOK
  BY DEF StreamInit, Arguments, UsersOK, Sole, GivenBelow, FreshOK
<1>3. MutexOK
  BY DEF StreamInit, MutexOK, Holds
<1>4. CountOK
  <2>1. Live = {First}
    BY DEF StreamInit, Live
  <2>2. IsFiniteSet(Live) /\ Cardinality(Live) = 1
    BY <2>1, FS_Singleton
  <2>3. QED
    BY <2>1, <2>2 DEF StreamInit, CountOK
<1>5. QED
  BY <1>1, <1>2, <1>3, <1>4 DEF StreamInv

\* The types, action by action.
LEMMA StreamTypeStep == StreamInv /\ [StreamNext]_streamVars => StreamTypeOK'
<1> SUFFICES ASSUME StreamInv, [StreamNext]_streamVars PROVE StreamTypeOK'
  OBVIOUS
<1>0. StreamTypeOK /\ Arguments /\ CountOK
  BY DEF StreamInv
<1> USE <1>0, StreamAssumption DEF StreamTypeOK
<1>1. ASSUME NEW t \in Threads, NEW s \in Streams, NEW n \in Sizes, BeginRead(t, s, n)
      PROVE  StreamTypeOK'
  BY <1>1 DEF BeginRead, Begin, Move
<1>2. ASSUME NEW t \in Threads, NEW s \in Streams, NEW pos \in 0 .. FileSize,
             BeginSeek(t, s, pos)
      PROVE  StreamTypeOK'
  BY <1>2 DEF BeginSeek, Begin, Move
<1>3. ASSUME NEW t \in Threads,
             LockStream(t, "lockRead", "check") \/ LockStream(t, "lockSeek", "seek")
      PROVE  StreamTypeOK'
  BY <1>3 DEF LockStream, Move
<1>4. ASSUME NEW t \in Threads, Refuse(t) PROVE StreamTypeOK'
  BY <1>4 DEF Refuse, Return, Move
<1>5. ASSUME NEW t \in Threads, TakePos(t) PROVE StreamTypeOK'
  <2>1. fpos[stream[t]] .. fpos[stream[t]] + size[t] - 1 \subseteq 0 .. FileSize - 1
    BY <1>5 DEF TakePos, Fits
  <2>2. given' \in [Streams -> SUBSET (0 .. FileSize - 1)]
    BY <1>5, <2>1 DEF TakePos
  <2>3. QED
    BY <1>5, <2>2 DEF TakePos, Move
<1>6. ASSUME NEW t \in Threads, Advance(t) PROVE StreamTypeOK'
  <2>1. fpos[stream[t]] + size[t] \in 0 .. FileSize
    BY <1>6 DEF Advance, Move, Arguments
  <2>2. QED
    BY <1>6, <2>1 DEF Advance, Move
<1>7. ASSUME NEW t \in Threads, Copy(t) PROVE StreamTypeOK'
  BY <1>7 DEF Copy, Return, Move
<1>8. ASSUME NEW t \in Threads, Seek(t) PROVE StreamTypeOK'
  <2>1. size[t] \in 0 .. FileSize
    BY <1>8 DEF Seek, Return, Move, Arguments
  <2>2. QED
    BY <1>8, <2>1 DEF Seek, Return, Move
<1>9. ASSUME NEW t \in Threads, TestCount(t) PROVE StreamTypeOK'
  BY <1>9 DEF TestCount, Return, Move
<1>10. ASSUME NEW t \in Threads, NEW s \in Streams, NEW new \in Streams,
              CopyStream(t, s, new)
       PROVE  StreamTypeOK'
  BY <1>10 DEF CopyStream, threadVars
<1>11. ASSUME NEW t \in Threads, NEW s \in Streams, Decrement(t, s) PROVE StreamTypeOK'
  BY <1>11 DEF Decrement, Move
<1>12. CASE UNCHANGED streamVars
  BY <1>12 DEF streamVars, threadVars
<1>13. QED
  BY <1>1, <1>2, <1>3, <1>4, <1>5, <1>6, <1>7, <1>8, <1>9, <1>10, <1>11, <1>12
  DEF StreamNext, Step, Gone

\* A stream that a call uses stays live until the call returns: a destructor
\* begins on a stream without other users.
LEMMA UsersStep == StreamInv /\ [StreamNext]_streamVars => UsersOK'
<1> DEFINE OK(u) ==
        /\ pc[u] \notin {"idle", "test"} => life[stream[u]] = "live"
        /\ pc[u] = "test" => life[stream[u]] = "dying"
<1> SUFFICES ASSUME StreamInv, [StreamNext]_streamVars, NEW u \in Threads PROVE OK(u)'
  BY DEF UsersOK
<1>0. StreamTypeOK /\ \A t \in Threads : OK(t)
  BY DEF StreamInv, UsersOK
<1> USE <1>0 DEF StreamTypeOK
<1>1. ASSUME NEW t \in Threads, NEW s \in Streams, NEW n, NEW to,
             to \in {"lockRead", "lockSeek"}, Begin(t, s, n, to)
      PROVE  OK(u)'
  BY <1>1 DEF Begin, Move
<1>2. ASSUME NEW t \in Threads, NEW from, NEW to, LockStream(t, from, to),
             from \in {"lockRead", "lockSeek"}, to \in {"check", "seek"}
      PROVE  OK(u)'
  BY <1>2 DEF LockStream, Move
<1>3. ASSUME NEW t \in Threads, TakePos(t) \/ Advance(t) PROVE OK(u)'
  BY <1>3 DEF TakePos, Advance, Move
<1>4. ASSUME NEW t \in Threads, Refuse(t) \/ Copy(t) \/ Seek(t) PROVE OK(u)'
  BY <1>4 DEF Refuse, Copy, Seek, Return, Move
<1>5. ASSUME NEW t \in Threads, TestCount(t) PROVE OK(u)'
  <2>1. CASE u = t
    BY <1>5, <2>1 DEF TestCount, Return, Move
  <2>2. CASE u # t /\ (pc[u] = "idle" \/ stream[u] # stream[t])
    BY <1>5, <2>2 DEF TestCount, Return, Move
  <2>3. pc[u] = "idle" \/ u = t \/ stream[u] # stream[t]
    BY <1>5 DEF TestCount, Return, Move, StreamInv, Sole
  <2>4. QED
    BY <2>1, <2>2, <2>3
<1>6. ASSUME NEW t \in Threads, NEW s \in Streams, NEW new \in Streams,
             CopyStream(t, s, new)
      PROVE  OK(u)'
  BY <1>6 DEF CopyStream, threadVars
<1>7. ASSUME NEW t \in Threads, NEW s \in Streams, Decrement(t, s) PROVE OK(u)'
  BY <1>7 DEF Decrement, Move
<1>8. CASE UNCHANGED streamVars
  BY <1>8 DEF streamVars, threadVars
<1>9. QED
  BY <1>1, <1>2, <1>3, <1>4, <1>5, <1>6, <1>7, <1>8
  DEF StreamNext, Step, Gone, BeginRead, BeginSeek

\* The destructor is alone with its stream.
LEMMA SoleStep == StreamInv /\ [StreamNext]_streamVars => Sole'
<1> DEFINE OK(x, y) ==
        x # y /\ pc[x] = "test" /\ pc[y] # "idle" => stream[x] # stream[y]
<1> SUFFICES ASSUME StreamInv, [StreamNext]_streamVars, NEW v \in Threads, NEW w \in Threads
             PROVE  OK(v, w)'
  BY DEF Sole
<1>0. StreamTypeOK /\ OK(v, w) /\ UsersOK
  BY DEF StreamInv, Sole
<1> USE <1>0 DEF StreamTypeOK
<1>1. ASSUME NEW t \in Threads, NEW s \in Streams, NEW n, NEW to,
             to \in {"lockRead", "lockSeek"}, Begin(t, s, n, to)
      PROVE  OK(v, w)'
  BY <1>1 DEF Begin, Move, UsersOK
<1>2. ASSUME NEW t \in Threads, NEW from, NEW to, LockStream(t, from, to),
             from \in {"lockRead", "lockSeek"}, to \in {"check", "seek"}
      PROVE  OK(v, w)'
  BY <1>2 DEF LockStream, Move
<1>3. ASSUME NEW t \in Threads, TakePos(t) \/ Advance(t) PROVE OK(v, w)'
  BY <1>3 DEF TakePos, Advance, Move
<1>4. ASSUME NEW t \in Threads, Refuse(t) \/ Copy(t) \/ Seek(t) \/ TestCount(t)
      PROVE  OK(v, w)'
  BY <1>4 DEF Refuse, Copy, Seek, TestCount, Return, Move
<1>5. ASSUME NEW t \in Threads, NEW s \in Streams, Decrement(t, s) PROVE OK(v, w)'
  BY <1>5 DEF Decrement, Move, UsersOK
<1>6. CASE UNCHANGED <<pc, stream>>
  BY <1>6
<1>7. QED
  BY <1>1, <1>2, <1>3, <1>4, <1>5, <1>6
  DEF StreamNext, Step, Gone, BeginRead, BeginSeek, CopyStream, streamVars, threadVars

\* The mutex of a stream has one holder at a time.
LEMMA MutexStep == StreamInv /\ [StreamNext]_streamVars => MutexOK'
<1> DEFINE OK(u, r) == lock[r] = u <=> Holds(u, r)
<1> SUFFICES ASSUME StreamInv, [StreamNext]_streamVars, NEW u \in Threads, NEW r \in Streams
             PROVE  OK(u, r)'
  BY DEF MutexOK
<1>0. StreamTypeOK /\ \A t \in Threads, s \in Streams : OK(t, s)
  BY DEF StreamInv, MutexOK
<1> USE <1>0, StreamAssumption DEF StreamTypeOK, Holds
<1>1. ASSUME NEW t \in Threads, NEW s \in Streams, NEW n, NEW to,
             to \in {"lockRead", "lockSeek"}, Begin(t, s, n, to)
      PROVE  OK(u, r)'
  BY <1>1 DEF Begin, Move
<1>2. ASSUME NEW t \in Threads, NEW from, NEW to, LockStream(t, from, to),
             from \in {"lockRead", "lockSeek"}, to \in {"check", "seek"}
      PROVE  OK(u, r)'
  BY <1>2 DEF LockStream, Move
<1>3. ASSUME NEW t \in Threads, TakePos(t) PROVE OK(u, r)'
  BY <1>3 DEF TakePos, Move
<1>4. ASSUME NEW t \in Threads, Advance(t) PROVE OK(u, r)'
  BY <1>4 DEF Advance, Move
<1>5. ASSUME NEW t \in Threads, Refuse(t) \/ Seek(t) PROVE OK(u, r)'
  BY <1>5 DEF Refuse, Seek, Return, Move
<1>6. ASSUME NEW t \in Threads, Copy(t) \/ TestCount(t) PROVE OK(u, r)'
  BY <1>6 DEF Copy, TestCount, Return, Move
<1>7. ASSUME NEW t \in Threads, NEW s \in Streams, Decrement(t, s) PROVE OK(u, r)'
  BY <1>7 DEF Decrement, Move
<1>8. CASE UNCHANGED <<pc, stream, lock>>
  BY <1>8
<1>9. QED
  BY <1>1, <1>2, <1>3, <1>4, <1>5, <1>6, <1>7, <1>8
  DEF StreamNext, Step, Gone, BeginRead, BeginSeek, CopyStream, streamVars, threadVars

\* The check of a read still holds when the position is moved: nobody else
\* moves it while the mutex is held.
LEMMA ArgumentsStep == StreamInv /\ [StreamNext]_streamVars => Arguments'
<1> DEFINE OK(u) ==
        /\ pc[u] \in {"lockSeek", "seek"} => size[u] \in 0 .. FileSize - 1
        /\ pc[u] = "advance" => fpos[stream[u]] + size[u] <= FileSize
<1> SUFFICES ASSUME StreamInv, [StreamNext]_streamVars, NEW u \in Threads PROVE OK(u)'
  BY DEF Arguments
<1>0. StreamTypeOK /\ MutexOK /\ OK(u)
  BY DEF StreamInv, Arguments
<1> USE <1>0, StreamAssumption DEF StreamTypeOK
<1>1. ASSUME NEW t \in Threads, NEW s \in Streams, NEW n \in Sizes, BeginRead(t, s, n)
      PROVE  OK(u)'
  BY <1>1 DEF BeginRead, Begin, Move
<1>2. ASSUME NEW t \in Threads, NEW s \in Streams, NEW pos \in 0 .. FileSize,
             BeginSeek(t, s, pos)
      PROVE  OK(u)'
  BY <1>2 DEF BeginSeek, Begin, Move
<1>3. ASSUME NEW t \in Threads,
             LockStream(t, "lockRead", "check") \/ LockStream(t, "lockSeek", "seek")
      PROVE  OK(u)'
  BY <1>3 DEF LockStream, Move
<1>4. ASSUME NEW t \in Threads, TakePos(t) PROVE OK(u)'
  BY <1>4 DEF TakePos, Fits, Move
<1>5. ASSUME NEW t \in Threads, Advance(t) PROVE OK(u)'
  <2>1. u # t /\ pc[u] = "advance" => stream[u] # stream[t]
    BY <1>5 DEF Advance, Move, MutexOK, Holds
  <2>2. QED
    BY <1>5, <2>1 DEF Advance, Move
<1>6. ASSUME NEW t \in Threads, Seek(t) PROVE OK(u)'
  <2>1. u # t /\ pc[u] = "advance" => stream[u] # stream[t]
    BY <1>6 DEF Seek, Return, Move, MutexOK, Holds
  <2>2. QED
    BY <1>6, <2>1 DEF Seek, Return, Move
<1>7. ASSUME NEW t \in Threads, Refuse(t) \/ Copy(t) \/ TestCount(t) PROVE OK(u)'
  BY <1>7 DEF Refuse, Copy, TestCount, Return, Move
<1>8. ASSUME NEW t \in Threads, NEW s \in Streams, NEW new \in Streams,
             CopyStream(t, s, new)
      PROVE  OK(u)'
  <2>1. pc[u] = "advance" => stream[u] # new
    BY <1>8 DEF CopyStream, StreamInv, UsersOK
  <2>2. QED
    BY <1>8, <2>1 DEF CopyStream, threadVars
<1>9. ASSUME NEW t \in Threads, NEW s \in Streams, Decrement(t, s) PROVE OK(u)'
  BY <1>9 DEF Decrement, Move
<1>10. CASE UNCHANGED streamVars
  BY <1>10 DEF streamVars, threadVars
<1>11. QED
  BY <1>1, <1>2, <1>3, <1>4, <1>5, <1>6, <1>7, <1>8, <1>9, <1>10
  DEF StreamNext, Step, Gone

\* A stream that was not made has given nothing.
LEMMA FreshStep == StreamInv /\ [StreamNext]_streamVars => FreshOK'
<1> SUFFICES ASSUME StreamInv, [StreamNext]_streamVars, NEW r \in Streams, life'[r] = "none"
             PROVE  given'[r] = {}
  BY DEF FreshOK
<1>0. StreamTypeOK /\ (life[r] = "none" => given[r] = {})
  BY DEF StreamInv, FreshOK
<1> USE <1>0 DEF StreamTypeOK
<1>1. ASSUME NEW t \in Threads, TakePos(t) PROVE given'[r] = {}
  <2>1. life[stream[t]] = "live"
    BY <1>1 DEF TakePos, Move, StreamInv, UsersOK
  <2>2. QED
    BY <1>1, <2>1 DEF TakePos
<1>2. ASSUME NEW t \in Threads, Seek(t) PROVE given'[r] = {}
  BY <1>2 DEF Seek
<1>3. ASSUME NEW t \in Threads, TestCount(t) PROVE given'[r] = {}
  BY <1>3 DEF TestCount, Return, Move
<1>4. ASSUME NEW t \in Threads, NEW s \in Streams, NEW new \in Streams,
             CopyStream(t, s, new)
      PROVE  given'[r] = {}
  BY <1>4 DEF CopyStream
<1>5. ASSUME NEW t \in Threads, NEW s \in Streams, Decrement(t, s)
      PROVE  given'[r] = {}
  BY <1>5 DEF Decrement
<1>6. CASE UNCHANGED <<life, given>>
  BY <1>6
<1>7. QED
  BY <1>1, <1>2, <1>3, <1>4, <1>5, <1>6
  DEF StreamNext, Step, Gone, BeginRead, BeginSeek, Begin, LockStream, Refuse, Advance,
      Copy, streamVars

\* TakePos gives bytes below the position that Advance then stores.
LEMMA GivenStep == StreamInv /\ [StreamNext]_streamVars => GivenBelow'
<1> DEFINE OK(r, b) ==
        \/ b < fpos[r]
        \/ \E t \in Threads :
              pc[t] = "advance" /\ stream[t] = r /\ b < fpos[r] + size[t]
<1> SUFFICES ASSUME StreamInv, [StreamNext]_streamVars, NEW r \in Streams, NEW b \in given'[r]
             PROVE  OK(r, b)'
  BY DEF GivenBelow
<1>0. StreamTypeOK /\ (b \in given[r] => OK(r, b))
  BY DEF StreamInv, GivenBelow
<1> USE <1>0, StreamAssumption DEF StreamTypeOK
<1>1. ASSUME NEW t \in Threads, NEW s \in Streams, NEW n, NEW to, Begin(t, s, n, to)
      PROVE  OK(r, b)'
  <2>1. \A u \in Threads : pc[u] = "advance" =>
            pc'[u] = "advance" /\ stream'[u] = stream[u] /\ size'[u] = size[u]
    BY <1>1 DEF Begin, Move
  <2>2. QED
    BY <1>1, <2>1 DEF Begin
<1>2. ASSUME NEW t \in Threads, NEW from, NEW to, LockStream(t, from, to),
             from \in {"lockRead", "lockSeek"}
      PROVE  OK(r, b)'
  <2>1. \A u \in Threads : pc[u] = "advance" => pc'[u] = "advance"
    BY <1>2 DEF LockStream, Move
  <2>2. QED
    BY <1>2, <2>1 DEF LockStream
<1>3. ASSUME NEW t \in Threads, Refuse(t) \/ Copy(t) \/ TestCount(t)
      PROVE  OK(r, b)'
  <2>1. \A u \in Threads : pc[u] = "advance" =>
            pc'[u] = "advance" /\ stream'[u] = stream[u] /\ size'[u] = size[u]
    BY <1>3 DEF Refuse, Copy, TestCount, Return, Move
  <2>2. QED
    BY <1>3, <2>1 DEF Refuse, Copy, TestCount
<1>4. ASSUME NEW t \in Threads, TakePos(t) PROVE OK(r, b)'
  <2>1. \A u \in Threads : pc[u] = "advance" => pc'[u] = "advance"
    BY <1>4 DEF TakePos, Move
  <2>2. CASE b \in given[r]
    BY <1>4, <2>1, <2>2 DEF TakePos
  <2>3. CASE b \notin given[r]
    <3>1. r = stream[t] /\ b \in fpos[r] .. fpos[r] + size[t] - 1
      BY <1>4, <2>3 DEF TakePos
    <3>2. pc'[t] = "advance" /\ stream'[t] = r /\ b < fpos'[r] + size'[t]
      BY <1>4, <3>1 DEF TakePos, Move
    <3>3. QED
      BY <3>2
  <2>4. QED
    BY <2>2, <2>3
<1>5. ASSUME NEW t \in Threads, Advance(t) PROVE OK(r, b)'
  <2>1. b \in given[r] /\ b \in 0 .. FileSize - 1
    BY <1>5 DEF Advance
  <2>2. CASE r = stream[t]
    <3>1. \A u \in Threads : pc[u] = "advance" /\ stream[u] = r => u = t
      BY <1>5, <2>2 DEF Advance, Move, StreamInv, MutexOK, Holds
    <3>2. b < fpos[r] + size[t]
      BY <2>1, <3>1
    <3>3. QED
      BY <1>5, <2>2, <3>2 DEF Advance
  <2>3. CASE r # stream[t]
    <3>1. \A u \in Threads : pc[u] = "advance" /\ stream[u] = r => pc'[u] = "advance"
      BY <1>5, <2>3 DEF Advance, Move
    <3>2. fpos'[r] = fpos[r]
      BY <1>5, <2>3 DEF Advance
    <3>3. QED
      BY <1>5, <2>1, <3>1, <3>2 DEF Advance
  <2>4. QED
    BY <2>2, <2>3
<1>6. ASSUME NEW t \in Threads, Seek(t) PROVE OK(r, b)'
  <2>1. r # stream[t] /\ b \in given[r] /\ fpos'[r] = fpos[r]
    BY <1>6 DEF Seek
  <2>2. \A u \in Threads : pc[u] = "advance" =>
            pc'[u] = "advance" /\ stream'[u] = stream[u] /\ size'[u] = size[u]
    BY <1>6 DEF Seek, Return, Move
  <2>3. QED
    BY <2>1, <2>2
<1>7. ASSUME NEW t \in Threads, NEW s \in Streams, NEW new \in Streams,
             CopyStream(t, s, new)
      PROVE  OK(r, b)'
  <2>1. given[new] = {}
    BY <1>7 DEF CopyStream, StreamInv, FreshOK
  <2>2. b \in given[r] /\ r # new /\ fpos'[r] = fpos[r]
    BY <1>7, <2>1 DEF CopyStream
  <2>3. QED
    BY <1>7, <2>2 DEF CopyStream, threadVars
<1>8. ASSUME NEW t \in Threads, NEW s \in Streams, Decrement(t, s) PROVE OK(r, b)'
  <2>1. \A u \in Threads : pc[u] = "advance" =>
            pc'[u] = "advance" /\ stream'[u] = stream[u] /\ size'[u] = size[u]
    BY <1>8 DEF Decrement, Move
  <2>2. QED
    BY <1>8, <2>1 DEF Decrement
<1>9. CASE UNCHANGED streamVars
  BY <1>9 DEF streamVars, threadVars
<1>10. QED
  BY <1>1, <1>2, <1>3, <1>4, <1>5, <1>6, <1>7, <1>8, <1>9
  DEF StreamNext, Step, Gone, BeginRead, BeginSeek

\* Copies and destructors change the count with the set of live streams; the
\* destructor that finds it at zero unmaps.
LEMMA CountStep == StreamInv /\ [StreamNext]_streamVars => CountOK'
<1> SUFFICES ASSUME StreamInv, [StreamNext]_streamVars PROVE CountOK'
  OBVIOUS
<1>0. StreamTypeOK /\ CountOK
  BY DEF StreamInv
<1> USE <1>0 DEF StreamTypeOK
<1>1. CASE UNCHANGED <<life, count, unmapped>>
  BY <1>1 DEF CountOK, Live
<1>2. ASSUME NEW t \in Threads, NEW s \in Streams, NEW new \in Streams,
             CopyStream(t, s, new)
      PROVE  CountOK'
  <2>1. s \in Live /\ new \notin Live /\ Live' = Live \cup {new}
    BY <1>2 DEF CopyStream, Live
  <2>2. IsFiniteSet(Live') /\ Cardinality(Live') = Cardinality(Live) + 1
    BY <2>1, FS_AddElement DEF CountOK
  <2>3. life'[new] = "live" /\ unmapped' = 0
    BY <1>2, <2>1 DEF CopyStream, CountOK
  <2>4. QED
    BY <1>2, <2>2, <2>3 DEF CopyStream, CountOK
<1>3. ASSUME NEW t \in Threads, NEW s \in Streams, Decrement(t, s) PROVE CountOK'
  <2>1. s \in Live /\ Live' = Live \ {s}
    BY <1>3 DEF Decrement, Live
  <2>2. IsFiniteSet(Live') /\ Cardinality(Live') = Cardinality(Live) - 1
    BY <2>1, FS_RemoveElement DEF CountOK
  <2>3. life'[s] = "dying" /\ unmapped' = 0
    BY <1>3, <2>1 DEF Decrement, CountOK
  <2>4. QED
    BY <1>3, <2>2, <2>3 DEF Decrement, CountOK
<1>4. ASSUME NEW t \in Threads, TestCount(t) PROVE CountOK'
  <2>1. life[stream[t]] = "dying"
    BY <1>4 DEF TestCount, Return, Move, StreamInv, UsersOK
  <2>2. Live' = Live
    BY <1>4, <2>1 DEF TestCount, Live
  <2>3. count = 0 <=> Live = {}
    BY FS_EmptySet DEF CountOK
  <2>4. CASE Live = {}
    <3>1. unmapped' >= 1
      BY <1>4, <2>3, <2>4 DEF TestCount, IsLast
    <3>2. QED
      BY <1>4, <2>2, <2>4, <3>1 DEF TestCount, CountOK
  <2>5. CASE Live # {}
    <3>1. unmapped' = 0
      BY <1>4, <2>3, <2>5 DEF TestCount, IsLast, CountOK
    <3>2. ~ \A s \in Streams : life'[s] \in {"none", "dead"}
      BY <2>2, <2>5 DEF Live
    <3>3. QED
      BY <1>4, <2>2, <3>1, <3>2 DEF TestCount, CountOK
  <2>6. QED
    BY <2>4, <2>5
<1>5. QED
  BY <1>1, <1>2, <1>3, <1>4
  DEF StreamNext, Step, Gone, BeginRead, BeginSeek, Begin, LockStream, Refuse, TakePos,
      Advance, Copy, Seek, streamVars

\* The invariant holds in every reachable state.
THEOREM StreamInvariance == StreamSpec => []StreamInv
<1>1. StreamInv /\ [StreamNext]_streamVars => StreamInv'
  BY StreamTypeStep, ArgumentsStep, MutexStep, UsersStep, SoleStep, GivenStep, FreshStep,
     CountStep
  DEF StreamInv
<1>2. QED
  BY StreamInitInv, <1>1, PTL DEF StreamSpec

-----------------------------------------------------------------------------

\* The file stays mapped as long as a stream can be read and is unmapped when
\* the last destructor has returned (os.cpp:65-76, 106-112).
THEOREM MappingLives == StreamSpec => []MappingLife
<1>1. StreamInv => MappingLife
  BY DEF StreamInv, CountOK, Live, MappingLife
<1>2. QED
  BY StreamInvariance, <1>1, PTL

\* At most one thread is between lock and unlock of a stream (os.cpp:78-104).
THEOREM MutexExcludes ==
    StreamSpec => [](\A t, u \in Threads, s \in Streams : Holds(t, s) /\ Holds(u, s) => t = u)
<1>1. StreamInv => \A t, u \in Threads, s \in Streams : Holds(t, s) /\ Holds(u, s) => t = u
  BY DEF StreamInv, MutexOK
<1>2. QED
  BY StreamInvariance, <1>1, PTL

\* A read gives bytes of the file that the stream has not given since it was
\* last moved, whoever reads it (os.cpp:62-63, 90-104).
THEOREM ReadsAreDisjoint == StreamSpec => ReadsDisjoint
<1> DEFINE Disjoint ==
        \A t \in Threads : TakePos(t) =>
            fpos[stream[t]] .. fpos[stream[t]] + size[t] - 1
                \subseteq (0 .. FileSize - 1) \ given[stream[t]]
<1>1. StreamInv /\ [StreamNext]_streamVars => [Disjoint]_streamVars
  <2> SUFFICES ASSUME StreamInv, NEW t \in Threads, TakePos(t)
               PROVE  fpos[stream[t]] .. fpos[stream[t]] + size[t] - 1
                          \subseteq (0 .. FileSize - 1) \ given[stream[t]]
    OBVIOUS
  <2> DEFINE s == stream[t]
  <2>0. StreamTypeOK
    BY DEF StreamInv
  <2>1. s \in Streams /\ fpos[s] \in 0 .. FileSize /\ size[t] \in Nat
    BY <2>0 DEF StreamTypeOK
  <2>2. fpos[s] .. fpos[s] + size[t] - 1 \subseteq 0 .. FileSize - 1
    BY <2>1, StreamAssumption DEF TakePos, Fits
  <2>3. Holds(t, s)
    BY DEF TakePos, Move, Holds
  <2>4. ~ \E u \in Threads : pc[u] = "advance" /\ stream[u] = s
    BY <2>0, <2>1, <2>3 DEF StreamInv, MutexOK, Holds, TakePos, Move
  <2>5. \A b \in given[s] : b < fpos[s]
    BY <2>1, <2>4 DEF StreamInv, GivenBelow
  <2>6. QED
    BY <2>1, <2>2, <2>5
<1>2. QED
  BY <1>1, StreamInvariance, PTL DEF StreamSpec, ReadsDisjoint

-----------------------------------------------------------------------------
(* The kernel module.                                                       *)

ForkKinds == {"secure", "child", "plain"}

\* The steps of the clients of either driver.
Steps ==
    IF driver = "challenge"
    THEN {"test", "alloc", "fill", "enable", "count", "ref", "regfn", "regkey", "uncount",
          "unref", "disable", "free", "callback", "gone"} \cup ForkKinds
    ELSE {"test", "count", "ref", "alloc", "fill", "read", "regkey", "regfn", "uncount",
          "unref", "free", "gone"}

\* What may follow what in the code of a client.
Follows(x, y) ==
    IF driver = "challenge"
    THEN \/ <<x, y>> \in {<<"test", "alloc">>, <<"alloc", "fill">>,
                <<"fill", "enable">>, <<"enable", "count">>, <<"count", "ref">>,
                <<"ref", "regfn">>,
                <<"regfn", "regkey">>, <<"regkey", "regkey">>, <<"regkey", "secure">>,
                <<"secure", "regkey">>, <<"secure", "child">>, <<"child", "plain">>,
                <<"plain", "uncount">>, <<"uncount", "unref">>, <<"unref", "disable">>,
                <<"disable", "free">>}
         \/ x = "callback" /\ y \in ForkKinds
    ELSE <<x, y>> \in {<<"test", "count">>, <<"count", "ref">>, <<"ref", "alloc">>,
                <<"alloc", "fill">>,
                <<"fill", "read">>, <<"read", "regkey">>, <<"regkey", "regfn">>,
                <<"regfn", "read">>, <<"read", "uncount">>, <<"uncount", "unref">>,
                <<"unref", "free">>}

Chained(c) ==
    /\ c \in Seq(Steps)
    /\ \A i \in 1 .. Len(c) - 1 : Follows(c[i], c[i + 1])

\* The code of a client: it goes as far as the close of the device, if the
\* module is not unloaded before.
Final == {"free", "gone"}

Sequenced(c) == Chained(c) /\ (c # <<>> => c[Len(c)] \in Final)

StepOf(p) == IF code[p] = <<>> THEN "idle" ELSE Head(code[p])

\* Where it is; the callback interrupts a fork.
Where(p) == IF StepOf(p) = "callback" THEN Head(Tail(code[p])) ELSE StepOf(p)

\* Behind the test of demo_open and not yet done with demo_release.
Active(p) == StepOf(p) \notin {"idle", "test"}

Fields == [state : {"free", "junk", "set"}, pid : Clients \cup {None},
           key : Keys \cup {None}, callback : BOOLEAN]

TypeOK ==
    /\ driver \in {"challenge", "basic"}
    /\ loading \in Seq({"chrdev", "class", "device", "reset", "jprobe", "disable"})
    /\ device_opened \in Int /\ refs \in Nat
    /\ probe \in BOOLEAN
    /\ pinfo \in Objects \cup {None}
    /\ heap \in [Objects -> Fields]
    /\ key \in [Clients -> Keys \cup {None}]
    /\ overlapped \in BOOLEAN

CodeOK ==
    /\ DOMAIN code = Processes
    /\ \A p \in Clients : Sequenced(code[p])
    /\ \/ code[Other] = <<>>
       \/ \E kind \in ForkKinds : code[Other] \in {<<kind>>, <<"callback", kind>>}

\* Only a client fills in pinfo.
PidsOK == \A o \in Objects : heap[o].state = "set" => heap[o].pid \in Clients

\* The basic driver has no probe; the loading of the other one ends with the
\* probe disabled.
LoadingOK ==
    /\ driver = "basic" =>
          /\ ~probe /\ "jprobe" \notin made
          /\ \A i \in 1 .. Len(loading) : loading[i] # "jprobe"
    /\ driver = "challenge" /\ loading # <<>> => loading[Len(loading)] = "disable"

Owns(p) ==
    /\ pinfo \in Objects
    /\ heap[pinfo].state = "set" /\ heap[pinfo].pid = p

\* Steps at which the device is counted.
Counted ==
    IF driver = "challenge" THEN {"ref", "regfn", "regkey", "uncount"} \cup ForkKinds
    ELSE {"ref", "alloc", "fill", "read", "regkey", "regfn", "uncount"}

\* Steps at which open has taken its reference to the module.
Referenced ==
    IF driver = "challenge" THEN {"regfn", "regkey", "uncount", "unref"} \cup ForkKinds
    ELSE {"alloc", "fill", "read", "regkey", "regfn", "uncount", "unref"}

\* Steps at which pinfo is filled in.
Filled ==
    {"enable", "regfn", "regkey", "read", "uncount", "unref", "disable", "free"}
        \cup ForkKinds \cup (IF driver = "challenge" THEN {"count", "ref"} ELSE {})

\* What holds of the device at each step of the one client in open, session or
\* release.
Good(p) ==
    /\ Where(p) # "gone"
    /\ device_opened = IF Where(p) \in Counted THEN 1 ELSE 0
    /\ refs = IF Where(p) \in Referenced THEN 1 ELSE 0
    /\ Where(p) \in {"alloc", "fill", "enable", "free"} => ~probe
    /\ Where(p) \in {"count", "ref", "regfn", "regkey", "uncount", "unref"}
                    \cup ForkKinds =>
          (probe <=> "jprobe" \in made)
    /\ StepOf(p) = "callback" => probe
    /\ Where(p) = "fill" => pinfo \in Objects /\ heap[pinfo].state = "junk"
    /\ Where(p) \in Filled => Owns(p)
    /\ driver = "challenge" /\ Where(p) \in {"regkey"} \cup ForkKinds =>
          heap[pinfo].callback
    /\ Where(p) \in ForkKinds => key[p] # None
    /\ \/ Where(p) \in ForkKinds
       \/ driver = "basic" /\ Where(p) = "regfn"
       \/ Where(p) = "read" /\ heap[pinfo].callback
       => heap[pinfo].key = key[p]

\* When no client is at it.
Unused ==
    /\ loading = <<>> => ~probe
    /\ \/ device_opened = 0 /\ refs = 0
       \/ /\ driver = "basic" /\ loading = <<>>
          /\ device_opened = 1 /\ refs = 1 /\ pinfo = None

SessionOK ==
    ~overlapped =>
        /\ \A p, q \in Clients : Active(p) /\ Active(q) => p = q
        /\ \A p \in Clients : Active(p) => loading = <<>> /\ Good(p)
        /\ unloading # <<>> => \A p \in Clients : code[p] = <<>>
        /\ (\A p \in Clients : ~Active(p)) => Unused

\* The inductive invariant.
IInv ==
    /\ TypeOK /\ CodeOK /\ PidsOK /\ LoadingOK /\ SessionOK
    /\ PinfoIsGood /\ ClientIsServed

-----------------------------------------------------------------------------

\* Two pieces of code that fit together.
LEMMA ChainedConcat ==
    ASSUME NEW c, NEW d, Chained(c), Chained(d), c # <<>>, d # <<>>,
           Follows(c[Len(c)], d[1])
    PROVE  Chained(c \o d) /\ c \o d # <<>> /\ (c \o d)[Len(c \o d)] = d[Len(d)]
           /\ (c \o d)[1] = c[1]
<1>1. /\ c \in Seq(Steps) /\ d \in Seq(Steps)
      /\ Len(c) \in Nat \ {0} /\ Len(d) \in Nat \ {0}
  BY DEF Chained
<1>2. /\ c \o d \in Seq(Steps) /\ Len(c \o d) = Len(c) + Len(d)
      /\ \A i \in 1 .. Len(c) : (c \o d)[i] = c[i]
      /\ \A i \in Len(c) + 1 .. Len(c) + Len(d) : (c \o d)[i] = d[i - Len(c)]
  BY <1>1
<1>3. ASSUME NEW i \in 1 .. Len(c \o d) - 1
      PROVE  Follows((c \o d)[i], (c \o d)[i + 1])
  <2>1. CASE i < Len(c)
    <3>1. (c \o d)[i] = c[i] /\ (c \o d)[i + 1] = c[i + 1] /\ i \in 1 .. Len(c) - 1
      BY <1>1, <1>2, <2>1
    <3>2. QED
      BY <3>1 DEF Chained
  <2>2. CASE i = Len(c)
    BY <1>1, <1>2, <2>2
  <2>3. CASE i > Len(c)
    <3>1. /\ i - Len(c) \in 1 .. Len(d) - 1
          /\ (c \o d)[i] = d[i - Len(c)] /\ (c \o d)[i + 1] = d[(i - Len(c)) + 1]
      BY <1>1, <1>2, <2>3
    <3>2. QED
      BY <3>1 DEF Chained
  <2>4. QED
    BY <1>1, <1>2, <2>1, <2>2, <2>3
<1>4. QED
  BY <1>1, <1>2, <1>3 DEF Chained

\* The rest of a piece of code.
LEMMA SequencedTail ==
    ASSUME NEW c, Sequenced(c), c # <<>>
    PROVE  /\ Sequenced(Tail(c))
           /\ IF Tail(c) = <<>> THEN Head(c) \in Final ELSE Follows(Head(c), Head(Tail(c)))
<1>1. /\ c \in Seq(Steps) /\ Len(c) \in Nat \ {0}
      /\ \A i \in 1 .. Len(c) - 1 : Follows(c[i], c[i + 1])
      /\ c[Len(c)] \in Final /\ Head(c) = c[1]
  BY DEF Sequenced, Chained
<1>2. /\ Tail(c) \in Seq(Steps) /\ Len(Tail(c)) = Len(c) - 1
      /\ \A i \in 1 .. Len(c) - 1 : Tail(c)[i] = c[i + 1]
  BY <1>1
<1>3. ASSUME NEW i \in 1 .. Len(Tail(c)) - 1
      PROVE  Follows(Tail(c)[i], Tail(c)[i + 1])
  <2>1. /\ i + 1 \in 1 .. Len(c) - 1
        /\ Tail(c)[i] = c[i + 1] /\ Tail(c)[i + 1] = c[(i + 1) + 1]
    BY <1>1, <1>2
  <2>2. QED
    BY <1>1, <2>1
<1>4. CASE Len(c) = 1
  <2>1. Len(Tail(c)) = 0
    BY <1>2, <1>4
  <2>2. Tail(c) = <<>>
    BY <1>2, <2>1, EmptySeq
  <2>3. QED
    BY <1>1, <1>2, <1>3, <1>4, <2>2 DEF Sequenced, Chained
<1>5. CASE Len(c) > 1
  <2>0. Len(Tail(c)) \in Nat \ {0} /\ Len(Tail(c)) = Len(c) - 1 /\ 1 \in 1 .. Len(c) - 1
        /\ Len(Tail(c)) \in 1 .. Len(c) - 1 /\ Len(c) - 1 + 1 = Len(c)
    BY <1>1, <1>2, <1>5
  <2>1. Tail(c) # <<>> /\ Head(Tail(c)) = c[2] /\ Tail(c)[Len(Tail(c))] \in Final
    <3>1. Tail(c) # <<>>
      BY <2>0, EmptySeq
    <3>2. Tail(c)[1] = c[2]
      BY <1>2, <2>0
    <3>3. Tail(c)[Len(Tail(c))] = c[Len(c)]
      BY <1>2, <2>0
    <3>4. QED
      BY <1>1, <1>2, <3>1, <3>2, <3>3
  <2>2. Follows(c[1], c[2])
    BY <1>1, <1>5
  <2>3. QED
    BY <1>1, <1>2, <1>3, <2>1, <2>2 DEF Sequenced, Chained
<1>6. Len(c) = 1 \/ Len(c) > 1
  <2>1. \A n \in Nat \ {0} : n = 1 \/ n > 1
    OBVIOUS
  <2>2. QED
    BY <1>1, <2>1
<1>7. QED
  BY <1>4, <1>5, <1>6

LEMMA ProgramsSequenced ==
    ASSUME driver \in {"challenge", "basic"}
    PROVE  /\ Sequenced(ClientSteps) /\ ClientSteps # <<>> /\ Head(ClientSteps) = "test"
           /\ Sequenced(ReleaseSteps) /\ ReleaseSteps # <<>>
           /\ Head(ReleaseSteps) = "uncount"
<1>1. CASE driver = "challenge"
  <2> DEFINE use == <<"regfn", "regkey", "regkey", "secure", "regkey", "secure",
                      "child", "plain">>
  <2>1. Chained(OpenSteps) /\ OpenSteps # <<>> /\ OpenSteps[1] = "test"
        /\ OpenSteps[Len(OpenSteps)] = "ref"
    BY <1>1 DEF OpenSteps, Chained, Steps, Follows
  <2>2. Chained(use) /\ use # <<>> /\ use[1] = "regfn" /\ use[Len(use)] = "plain"
    BY <1>1 DEF Chained, Steps, Follows, ForkKinds
  <2>3. Chained(ReleaseSteps) /\ ReleaseSteps # <<>> /\ ReleaseSteps[1] = "uncount"
        /\ ReleaseSteps[Len(ReleaseSteps)] = "free"
    BY <1>1 DEF ReleaseSteps, Chained, Steps, Follows
  <2>4. Chained(OpenSteps \o use) /\ OpenSteps \o use # <<>>
        /\ (OpenSteps \o use)[Len(OpenSteps \o use)] = "plain"
        /\ (OpenSteps \o use)[1] = "test"
    <3>1. Follows("ref", "regfn")
      BY <1>1 DEF Follows
    <3> HIDE DEF use
    <3>2. QED
      BY <2>1, <2>2, <3>1, ChainedConcat
  <2>5. Follows("plain", "uncount")
    BY <1>1 DEF Follows
  <2>6. /\ Chained((OpenSteps \o use) \o ReleaseSteps)
        /\ (OpenSteps \o use) \o ReleaseSteps # <<>>
        /\ ((OpenSteps \o use) \o ReleaseSteps)[1] = "test"
        /\ ((OpenSteps \o use) \o ReleaseSteps)
               [Len((OpenSteps \o use) \o ReleaseSteps)] = "free"
    <3> DEFINE start == OpenSteps \o use
    <3> HIDE DEF start
    <3>1. QED
      BY <2>3, <2>4, <2>5, ChainedConcat DEF start
  <2>7. ClientSteps = (OpenSteps \o use) \o ReleaseSteps
    BY <1>1 DEF ClientSteps
  <2> HIDE DEF use
  <2>8. QED
    BY <2>3, <2>6, <2>7 DEF Sequenced, Final
<1>2. CASE driver = "basic"
  <2> DEFINE use == <<"read", "regkey", "regfn", "read">>
  <2>1. Chained(OpenSteps) /\ OpenSteps # <<>> /\ OpenSteps[1] = "test"
        /\ OpenSteps[Len(OpenSteps)] = "fill"
    BY <1>2 DEF OpenSteps, Chained, Steps, Follows
  <2>2. Chained(use) /\ use # <<>> /\ use[1] = "read" /\ use[Len(use)] = "read"
    BY <1>2 DEF Chained, Steps, Follows
  <2>3. Chained(ReleaseSteps) /\ ReleaseSteps # <<>> /\ ReleaseSteps[1] = "uncount"
        /\ ReleaseSteps[Len(ReleaseSteps)] = "free"
    BY <1>2 DEF ReleaseSteps, Chained, Steps, Follows
  <2>4. Chained(OpenSteps \o use) /\ OpenSteps \o use # <<>>
        /\ (OpenSteps \o use)[Len(OpenSteps \o use)] = "read"
        /\ (OpenSteps \o use)[1] = "test"
    <3>1. Follows("fill", "read")
      BY <1>2 DEF Follows
    <3> HIDE DEF use
    <3>2. QED
      BY <2>1, <2>2, <3>1, ChainedConcat
  <2>5. Follows("read", "uncount")
    BY <1>2 DEF Follows
  <2>6. /\ Chained((OpenSteps \o use) \o ReleaseSteps)
        /\ (OpenSteps \o use) \o ReleaseSteps # <<>>
        /\ ((OpenSteps \o use) \o ReleaseSteps)[1] = "test"
        /\ ((OpenSteps \o use) \o ReleaseSteps)
               [Len((OpenSteps \o use) \o ReleaseSteps)] = "free"
    <3> DEFINE start == OpenSteps \o use
    <3> HIDE DEF start
    <3>1. QED
      BY <2>3, <2>4, <2>5, ChainedConcat DEF start
  <2>7. ClientSteps = (OpenSteps \o use) \o ReleaseSteps
    BY <1>2 DEF ClientSteps
  <2> HIDE DEF use
  <2>8. QED
    BY <2>3, <2>6, <2>7 DEF Sequenced, Final
<1>3. QED
  BY <1>1, <1>2

\* A fork that hits the probe.
LEMMA SequencedFork ==
    ASSUME driver = "challenge", NEW c, Sequenced(c), c # <<>>, Head(c) \in ForkKinds
    PROVE  /\ Sequenced(<<"callback", Head(c)>> \o Tail(c))
           /\ <<"callback", Head(c)>> \o Tail(c) # <<>>
           /\ Head(<<"callback", Head(c)>> \o Tail(c)) = "callback"
           /\ Head(Tail(<<"callback", Head(c)>> \o Tail(c))) = Head(c)
<1> DEFINE hit == <<"callback", Head(c)>>
           rest == Tail(c)
           whole == hit \o rest
<1>1. Sequenced(rest) /\ rest # <<>> /\ Follows(Head(c), Head(rest))
  BY SequencedTail DEF ForkKinds, Final
<1>2. Chained(hit) /\ hit # <<>> /\ hit[Len(hit)] = Head(c) /\ hit[1] = "callback"
      /\ Len(hit) = 2 /\ hit[2] = Head(c)
  BY DEF Chained, Steps, Follows, ForkKinds
<1>3. rest \in Seq(Steps) /\ hit \in Seq(Steps) /\ rest[1] = Head(rest)
  BY <1>1, <1>2 DEF Sequenced, Chained
<1> HIDE DEF hit, rest
<1>4. Sequenced(whole) /\ whole # <<>> /\ whole[1] = "callback"
  BY <1>1, <1>2, <1>3, ChainedConcat DEF Sequenced
<1>5. whole[2] = Head(c) /\ Len(whole) = 2 + Len(rest) /\ Len(rest) \in Nat
      /\ whole \in Seq(Steps)
  <2>1. Len(rest) \in Nat
    BY <1>3, LenProperties
  <2>2. /\ whole \in Seq(Steps) /\ Len(whole) = Len(hit) + Len(rest)
        /\ \A i \in 1 .. Len(hit) + Len(rest) :
              whole[i] = IF i <= Len(hit) THEN hit[i] ELSE rest[i - Len(hit)]
    BY <1>3, ConcatProperties
  <2>3. QED
    BY <1>2, <2>1, <2>2
<1> HIDE DEF whole
<1>6. Tail(whole)[1] = whole[2] /\ Head(whole) = whole[1] /\ Head(Tail(whole)) = Tail(whole)[1]
  BY <1>5
<1>7. QED
  BY <1>4, <1>5, <1>6 DEF whole, hit, rest

-----------------------------------------------------------------------------
(* What the steps do to the code of a client.                               *)

LEMMA DriverFixed == [Next]_vars => driver' = driver
BY DEF Next, LoadStep, LoadFails, Rmmod, UnloadStep, Unloaded, OtherForks, Start, Open,
       Release, Use, Stray, Test, Allocate, Fill, Enable, Count, Ref, Uncount, Unref,
       Disable, FreePinfo, RegisterKey, RegisterErrorFunction, Read, Callback, Fork,
       module, vars

\* It goes to the next step, and from one that is no callback to no callback.
LEMMA GoStep ==
    ASSUME CodeOK, driver \in {"challenge", "basic"},
           NEW p \in Clients, code[p] # <<>>, StepOf(p) # "callback", Go(p)
    PROVE  /\ Sequenced(code'[p])
           /\ IF StepOf(p) \in Final THEN code'[p] = <<>>
              ELSE code'[p] # <<>> /\ Follows(StepOf(p), Head(code'[p]))
           /\ StepOf(p)' # "callback"
           /\ Where(p)' = StepOf(p)'
<1>1. code'[p] = Tail(code[p]) /\ StepOf(p) = Head(code[p])
  BY DEF CodeOK, Go, Processes, StepOf
<1>2. /\ Sequenced(Tail(code[p]))
      /\ IF Tail(code[p]) = <<>> THEN Head(code[p]) \in Final
         ELSE Follows(Head(code[p]), Head(Tail(code[p])))
  BY SequencedTail DEF CodeOK
<1>3. \A x : ~Follows("free", x) /\ ~Follows("gone", x)
  BY DEF Follows, ForkKinds
<1>4. \A x : ~Follows(x, "callback")
  BY DEF Follows, ForkKinds
<1>5. QED
  BY <1>1, <1>2, <1>3, <1>4 DEF StepOf, Where, Final

\* The end of a callback of a client goes to the next step.
LEMMA CallbackStep ==
    ASSUME CodeOK, driver \in {"challenge", "basic"},
           NEW p \in Clients, At(p, "callback"),
           code' = [code EXCEPT ![p] = Tail(Tail(@))]
    PROVE  /\ driver = "challenge" /\ StepOf(p) = "callback"
           /\ Where(p) = Head(Tail(code[p])) /\ Where(p) \in ForkKinds
           /\ Sequenced(code'[p]) /\ code'[p] # <<>>
           /\ Follows(Where(p), Head(code'[p]))
           /\ StepOf(p)' # "callback"
           /\ Where(p)' = StepOf(p)'
<1>1. /\ code'[p] = Tail(Tail(code[p])) /\ code[p] # <<>>
      /\ Head(code[p]) = "callback"
  BY DEF CodeOK, At, Processes
<1>2. /\ Sequenced(Tail(code[p])) /\ Tail(code[p]) # <<>>
      /\ Follows("callback", Head(Tail(code[p])))
  BY <1>1, SequencedTail DEF CodeOK, Final
<1>3. driver = "challenge" /\ Head(Tail(code[p])) \in ForkKinds
  BY <1>2 DEF Follows
<1>4. /\ Sequenced(Tail(Tail(code[p]))) /\ Tail(Tail(code[p])) # <<>>
      /\ Follows(Head(Tail(code[p])), Head(Tail(Tail(code[p]))))
  BY <1>2, <1>3, SequencedTail DEF ForkKinds, Final
<1>5. \A x : ~Follows(x, "callback")
  BY DEF Follows, ForkKinds
<1>6. QED
  BY <1>1, <1>3, <1>4, <1>5 DEF StepOf, Where

\* A client of the basic driver does not fork.
LEMMA ForkStep ==
    ASSUME CodeOK, driver \in {"challenge", "basic"},
           NEW p \in Clients, NEW kind \in ForkKinds, At(p, kind)
    PROVE  /\ driver = "challenge"
           /\ StepOf(p) = kind /\ Where(p) = kind
           /\ code' = [code EXCEPT ![p] = <<"callback", kind>> \o Tail(@)] =>
                 /\ Sequenced(code'[p]) /\ code'[p] # <<>>
                 /\ StepOf(p)' = "callback" /\ Where(p)' = kind
<1>1. code[p] # <<>> /\ Head(code[p]) = kind /\ Sequenced(code[p]) /\ p \in DOMAIN code
  BY DEF At, CodeOK, Processes
<1>2. Head(code[p]) \in Steps
  <2>1. code[p] \in Seq(Steps)
    BY <1>1 DEF Sequenced, Chained
  <2>2. QED
    BY <1>1, <2>1, HeadTailProperties
<1>3. driver = "challenge"
  BY <1>1, <1>2 DEF Steps, ForkKinds
<1>4. kind # "callback"
  BY DEF ForkKinds
<1>5. ASSUME code' = [code EXCEPT ![p] = <<"callback", kind>> \o Tail(@)]
      PROVE  /\ Sequenced(code'[p]) /\ code'[p] # <<>>
             /\ StepOf(p)' = "callback" /\ Where(p)' = kind
  <2>1. code'[p] = <<"callback", Head(code[p])>> \o Tail(code[p])
    BY <1>1, <1>5
  <2>2. /\ Sequenced(code'[p]) /\ code'[p] # <<>> /\ Head(code'[p]) = "callback"
        /\ Head(Tail(code'[p])) = kind
    BY <1>1, <1>3, <2>1, SequencedFork
  <2>3. QED
    BY <2>2 DEF StepOf, Where
<1>6. QED
  BY <1>1, <1>3, <1>4, <1>5 DEF StepOf, Where

-----------------------------------------------------------------------------
(* The invariant, part by part.                                             *)

LEMMA LoadType ==
    Load \in Seq({"chrdev", "class", "device", "reset", "jprobe", "disable"})
<1>1. CASE driver = "challenge"
  BY <1>1 DEF Load
<1>2. CASE driver # "challenge"
  BY <1>2 DEF Load
<1>3. QED
  BY <1>1, <1>2

LEMMA InitInv == Init => IInv
<1> SUFFICES ASSUME Init PROVE IInv
  OBVIOUS
<1> USE SthreadsAssumption
<1>1. loading \in Seq({"chrdev", "class", "device", "reset", "jprobe", "disable"})
  BY LoadType DEF Init
<1>2. TypeOK
  <2>1. Free \in Fields
    BY DEF Free, Fields
  <2>2. heap \in [Objects -> Fields] /\ key \in [Clients -> Keys \cup {None}]
    BY <2>1 DEF Init
  <2>3. driver \in {"challenge", "basic"} /\ device_opened \in Int /\ refs \in Nat
        /\ pinfo \in Objects \cup {None}
    BY DEF Init
  <2>4. probe \in BOOLEAN /\ overlapped \in BOOLEAN
    BY Zenon DEF Init
  <2>5. QED
    BY <1>1, <2>2, <2>3, <2>4 DEF TypeOK
<1>3. CodeOK
  BY DEF Init, CodeOK, Processes, Sequenced, Chained
<1>4. PidsOK /\ PinfoIsGood /\ ClientIsServed
  BY DEF Init, PidsOK, Free, PinfoIsGood, ClientIsServed, Nothing
<1>5. LoadingOK
  BY DEF Init, LoadingOK, Load
<1>6. SessionOK
  <2>1. \A p \in Clients : ~Active(p)
    BY DEF Init, Active, StepOf, Processes
  <2>2. Unused
    BY DEF Init, Unused
  <2>3. unloading = <<>>
    BY DEF Init
  <2>4. QED
    BY <2>1, <2>2, <2>3 DEF SessionOK
<1>7. QED
  BY <1>2, <1>3, <1>4, <1>5, <1>6 DEF IInv

LEMMA PinfoFacts ==
    ASSUME TypeOK
    PROVE  /\ Pinfo \in Fields /\ Free \in Fields
           /\ pinfo # None => pinfo \in Objects /\ Pinfo = heap[pinfo]
           /\ Pinfo.state # "free" => pinfo # None
BY DEF TypeOK, Pinfo, Free, Fields

LEMMA UsingType ==
    ASSUME TypeOK, NEW p, NEW change \in Fields, NEW good \in SUBSET {"junk", "set"},
           Using(p, change, good)
    PROVE  heap' \in [Objects -> Fields]
<1>1. CASE Pinfo.state \in good
  <2>1. heap' = [heap EXCEPT ![pinfo] = change]
    BY <1>1 DEF Using
  <2>2. QED
    BY <2>1 DEF TypeOK
<1>2. CASE Pinfo.state \notin good
  BY <1>2 DEF Using, TypeOK
<1>3. QED
  BY <1>1, <1>2

LEMMA TypeStep == IInv /\ [Next]_vars => TypeOK'
<1> SUFFICES ASSUME TypeOK, CodeOK, [Next]_vars PROVE TypeOK'
  BY DEF IInv
<1> DEFINE LoadSteps == {"chrdev", "class", "device", "reset", "jprobe", "disable"}
<1>a. Load \in Seq(LoadSteps)
  BY LoadType
<1>b. \A k \in Keys : [Pinfo EXCEPT !.key = k] \in Fields
  BY PinfoFacts DEF Fields
<1>c. [Pinfo EXCEPT !.callback = TRUE] \in Fields
  BY PinfoFacts DEF Fields
<1> USE DEF module, device
<1>1. CASE LoadStep
  <2>1. loading' \in Seq(LoadSteps)
    BY <1>1, HeadTailProperties DEF LoadStep, TypeOK
  <2>2. device_opened' \in Int
    BY <1>1 DEF LoadStep, TypeOK
  <2>3. probe' \in BOOLEAN
    <3>1. \/ probe' = ("jprobe" \in made')
          \/ probe' = FALSE
          \/ probe' = probe
      BY <1>1 DEF LoadStep
    <3>2. ("jprobe" \in made') \in BOOLEAN
      BY SMT
    <3>3. probe \in BOOLEAN
      BY DEF TypeOK
    <3>4. QED
      BY <3>1, <3>2, <3>3, Zenon
  <2>4. QED
    BY <1>1, <2>1, <2>2, <2>3 DEF LoadStep, TypeOK
<1>2. CASE LoadFails
  BY <1>2, <1>a DEF LoadFails, TypeOK
<1>l. CASE Unloaded
  <2>1. /\ driver' = driver /\ loading' = Load /\ refs' = 0 /\ device_opened' = 0
        /\ pinfo' = None /\ probe' = FALSE /\ UNCHANGED <<heap, key, overlapped>>
    BY <1>l DEF Unloaded
  <2>2. loading' \in Seq(LoadSteps)
    BY <1>a, <2>1
  <2>3. probe' \in BOOLEAN /\ overlapped' \in BOOLEAN
    BY <2>1, Zenon DEF TypeOK
  <2>4. QED
    BY <2>1, <2>2, <2>3 DEF TypeOK
<1>r. CASE Rmmod \/ UnloadStep
  <2>1. overlapped' \in BOOLEAN /\ probe' \in BOOLEAN
    BY <1>r DEF Rmmod, UnloadStep, TypeOK
  <2>2. QED
    BY <1>r, <2>1 DEF Rmmod, UnloadStep, TypeOK
<1>g. ASSUME NEW p \in Clients, Ref(p) \/ Unref(p) \/ Stray(p) PROVE TypeOK'
  BY <1>g DEF Ref, Unref, Stray, TypeOK
<1>3. CASE OtherForks
  BY <1>3 DEF OtherForks, TypeOK
<1>4. ASSUME NEW p \in Clients, Start(p) PROVE TypeOK'
  <2>1. overlapped' \in BOOLEAN
    BY <1>4 DEF Start, TypeOK
  <2>2. QED
    BY <1>4, <2>1 DEF Start, TypeOK
<1>5. ASSUME NEW p \in Clients, Test(p) PROVE TypeOK'
  <2>1. overlapped' \in BOOLEAN
    BY <1>5 DEF Test, TypeOK
  <2>2. QED
    BY <1>5, <2>1 DEF Test, TypeOK
<1>6. ASSUME NEW p \in Clients, Allocate(p) PROVE TypeOK'
  <2>1. [Free EXCEPT !.state = "junk"] \in Fields
    BY DEF Free, Fields
  <2>2. heap' \in [Objects -> Fields] /\ pinfo' \in Objects \cup {None}
    BY <1>6, <2>1 DEF Allocate, TypeOK
  <2>3. QED
    BY <1>6, <2>2 DEF Allocate, TypeOK
<1>7. ASSUME NEW p \in Clients, Fill(p) PROVE TypeOK'
  <2>1. [state |-> "set", pid |-> p, key |-> None, callback |-> FALSE] \in Fields
    BY DEF Fields
  <2>2. heap' \in [Objects -> Fields]
    BY <1>7, <2>1, UsingType DEF Fill
  <2>3. QED
    BY <1>7, <2>2 DEF Fill, TypeOK
<1>8. ASSUME NEW p \in Clients, Enable(p) \/ Count(p) \/ Uncount(p) \/ Disable(p)
      PROVE  TypeOK'
  <2>1. CASE Count(p) \/ Uncount(p)
    BY <2>1 DEF Count, Uncount, TypeOK
  <2>2. CASE Enable(p)
    <3>1. probe' \in BOOLEAN
      BY <2>2 DEF Enable
    <3>2. QED
      BY <2>2, <3>1 DEF Enable, TypeOK
  <2>3. CASE Disable(p)
    BY <2>3 DEF Disable, TypeOK
  <2>4. QED
    BY <1>8, <2>1, <2>2, <2>3
<1>9. ASSUME NEW p \in Clients, FreePinfo(p) PROVE TypeOK'
  <2>1. heap' \in [Objects -> Fields]
    BY <1>9, PinfoFacts, UsingType DEF FreePinfo, TypeOK
  <2>2. QED
    BY <1>9, <2>1 DEF FreePinfo, TypeOK
<1>10. ASSUME NEW p \in Clients, NEW change \in Fields, Command(p, change)
       PROVE  heap' \in [Objects -> Fields]
  BY <1>10, UsingType DEF Command, TypeOK
<1>11. ASSUME NEW p \in Clients, RegisterKey(p) PROVE TypeOK'
  <2>1. PICK k \in Keys : key' = [key EXCEPT ![p] = k] /\ Command(p, [Pinfo EXCEPT !.key = k])
    BY <1>11 DEF RegisterKey
  <2>2. heap' \in [Objects -> Fields] /\ key' \in [Clients -> Keys \cup {None}]
    BY <1>b, <1>10, <2>1 DEF TypeOK
  <2>3. QED
    BY <1>11, <2>2 DEF RegisterKey, TypeOK
<1>12. ASSUME NEW p \in Clients, RegisterErrorFunction(p) PROVE TypeOK'
  <2>1. heap' \in [Objects -> Fields]
    BY <1>c, <1>10, <1>12 DEF RegisterErrorFunction
  <2>2. QED
    BY <1>12, <2>1 DEF RegisterErrorFunction, TypeOK
<1>13. ASSUME NEW p \in Clients, Read(p) PROVE TypeOK'
  <2>1. heap' \in [Objects -> Fields]
    BY <1>13, PinfoFacts, UsingType DEF Read
  <2>2. QED
    BY <1>13, <2>1 DEF Read, TypeOK
<1>14. ASSUME NEW p \in Processes, Callback(p) PROVE TypeOK'
  <2>1. heap' \in [Objects -> Fields]
    BY <1>14, PinfoFacts, UsingType DEF Callback
  <2>2. QED
    BY <1>14, <2>1 DEF Callback, TypeOK
<1>15. ASSUME NEW p \in Processes, NEW kind, Fork(p, kind) PROVE TypeOK'
  BY <1>15 DEF Fork, TypeOK
<1>16. CASE UNCHANGED vars
  BY <1>16 DEF vars, TypeOK
<1>17. QED
  BY <1>1, <1>2, <1>3, <1>4, <1>5, <1>6, <1>7, <1>8, <1>9, <1>11, <1>12, <1>13, <1>14,
     <1>15, <1>16, <1>l, <1>r, <1>g
  DEF Next, Open, Release, Use

LEMMA SequencedPrime ==
    ASSUME driver' = driver, NEW p, Sequenced(code'[p])
    PROVE  Sequenced(code[p])'
BY DEF Sequenced, Chained, Steps, Follows, Final

\* A step of a client leaves the code of the others alone.
LEMMA ClientCode ==
    ASSUME CodeOK, driver' = driver, NEW p \in Clients, NEW c, Sequenced(c),
           code' = [code EXCEPT ![p] = c]
    PROVE  CodeOK'
<1>1. DOMAIN code' = Processes /\ code'[Other] = code[Other]
  BY SthreadsAssumption DEF CodeOK, Processes
<1>2. \A q \in Clients : Sequenced(code'[q])
  BY DEF CodeOK, Processes
<1>3. \A q \in Clients : Sequenced(code[q])'
  BY <1>2, SequencedPrime
<1>4. Processes' = Processes
  BY DEF Processes
<1>5. QED
  BY <1>1, <1>3 DEF CodeOK, Processes, ForkKinds

LEMMA CodeStep == IInv /\ [Next]_vars => CodeOK'
<1> SUFFICES ASSUME TypeOK, CodeOK, [Next]_vars PROVE CodeOK'
  BY DEF IInv
<1>a. driver' = driver /\ driver \in {"challenge", "basic"}
  BY DriverFixed DEF TypeOK
<1>1. CASE UNCHANGED code
  <2>1. \A q \in Clients : Sequenced(code[q])'
    BY <1>1, <1>a, SequencedPrime DEF CodeOK
  <2>2. QED
    BY <1>1, <2>1 DEF CodeOK, Processes, ForkKinds
<1>2. CASE OtherForks
  <2>1. PICK kind \in {"child", "plain"} : code' = [code EXCEPT ![Other] = <<kind>>]
    BY <1>2 DEF OtherForks
  <2>2. code'[Other] = <<kind>> /\ kind \in ForkKinds /\ DOMAIN code' = Processes
    BY <2>1 DEF CodeOK, Processes, ForkKinds
  <2>3. \A q \in Clients : Sequenced(code'[q])
    BY <2>1, SthreadsAssumption DEF CodeOK, Processes
  <2>4. \A q \in Clients : Sequenced(code[q])'
    BY <1>a, <2>3, SequencedPrime
  <2>5. QED
    BY <2>2, <2>4 DEF CodeOK, Processes, ForkKinds
<1>3. Sequenced(<<>>)
  BY DEF Sequenced, Chained
<1>4. Sequenced(ClientSteps) /\ Sequenced(ReleaseSteps)
  BY <1>a, ProgramsSequenced
<1>5. ASSUME NEW p \in Clients,
             \/ code[p] # <<>> /\ Go(p)
             \/ Leave(p)
             \/ code' = [code EXCEPT ![p] = ClientSteps]
             \/ code' = [code EXCEPT ![p] = ReleaseSteps]
      PROVE  CodeOK'
  <2>1. code[p] # <<>> => Sequenced(Tail(code[p]))
    BY SequencedTail DEF CodeOK
  <2>2. QED
    BY <1>a, <1>3, <1>4, <1>5, <2>1, ClientCode DEF Go, Leave
<1>6. ASSUME NEW p \in Clients, Start(p) \/ Open(p) \/ Release(p) \/ Use(p) \/ Stray(p)
      PROVE  CodeOK'
  BY <1>1, <1>5, <1>6
  DEF Start, Open, Release, Use, Stray, Test, Allocate, Fill, Enable, Count, Ref, Uncount,
      Unref, Disable, FreePinfo, RegisterKey, RegisterErrorFunction, Read, Command, At
<1>7. ASSUME NEW p \in Clients, Callback(p) PROVE CodeOK'
  <2>1. At(p, "callback") /\ code' = [code EXCEPT ![p] = Tail(Tail(@))]
    BY <1>7 DEF Callback
  <2>2. Sequenced(Tail(Tail(code[p])))
    <3>1. Sequenced(code'[p])
      BY <1>a, <2>1, CallbackStep
    <3>2. code'[p] = Tail(Tail(code[p]))
      BY <2>1 DEF CodeOK, Processes
    <3>3. QED
      BY <3>1, <3>2
  <2>3. code' = [code EXCEPT ![p] = Tail(Tail(code[p]))]
    BY <2>1
  <2>4. QED
    BY <1>a, <2>2, <2>3, ClientCode
<1>8. ASSUME NEW p \in Clients, NEW kind \in ForkKinds, Fork(p, kind) PROVE CodeOK'
  <2>1. CASE probe
    <3>1. At(p, kind) /\ code' = [code EXCEPT ![p] = <<"callback", kind>> \o Tail(@)]
      BY <1>8, <2>1 DEF Fork
    <3>2. Sequenced(code'[p])
      BY <1>a, <3>1, ForkStep
    <3>3. code'[p] = <<"callback", kind>> \o Tail(code[p])
      BY <3>1 DEF CodeOK, Processes
    <3>4. code' = [code EXCEPT ![p] = <<"callback", kind>> \o Tail(code[p])]
      BY <3>1
    <3>5. QED
      BY <1>a, <3>2, <3>3, <3>4, ClientCode
  <2>2. CASE ~probe
    BY <1>5, <1>8, <2>2 DEF Fork, At
  <2>3. QED
    BY <2>1, <2>2
<1>9. ASSUME \/ Callback(Other)
             \/ \E kind \in ForkKinds : Fork(Other, kind)
      PROVE  CodeOK'
  <2>1. PICK k \in ForkKinds : code[Other] \in {<<k>>, <<"callback", k>>}
    BY <1>9 DEF CodeOK, Callback, Fork, At
  <2>2. /\ Head(<<k>>) = k /\ Tail(<<k>>) = <<>>
        /\ Head(<<"callback", k>>) = "callback" /\ Tail(<<"callback", k>>) = <<k>>
        /\ <<"callback", k>> \o <<>> = <<"callback", k>>
    OBVIOUS
  <2>3. k # "callback"
    BY DEF ForkKinds
  <2>4. DOMAIN code' = Processes /\ \A q \in Clients : code'[q] = code[q]
    BY <1>9, SthreadsAssumption DEF Callback, Fork, Go, CodeOK, Processes
  <2>5. code'[Other] = <<>> \/ code'[Other] = <<"callback", k>>
    <3>1. CASE Callback(Other)
      <4>1. code[Other] = <<"callback", k>>
        BY <2>1, <2>2, <2>3, <3>1 DEF Callback, At
      <4>2. code'[Other] = Tail(Tail(code[Other]))
        BY <3>1 DEF Callback, CodeOK, Processes
      <4>3. QED
        BY <2>2, <4>1, <4>2
    <3>2. ASSUME NEW kind \in ForkKinds, Fork(Other, kind)
          PROVE  code'[Other] = <<>> \/ code'[Other] = <<"callback", k>>
      <4>1. code[Other] = <<k>> /\ kind = k
        BY <2>1, <2>2, <3>2 DEF Fork, At, ForkKinds
      <4>2. \/ code'[Other] = <<"callback", k>> \o Tail(code[Other])
            \/ code'[Other] = Tail(code[Other])
        BY <3>2, <4>1 DEF Fork, Go, CodeOK, Processes
      <4>3. QED
        BY <2>2, <4>1, <4>2
    <3>3. QED
      BY <1>9, <3>1, <3>2
  <2>6. \A q \in Clients : Sequenced(code[q])'
    BY <1>a, <2>4, SequencedPrime DEF CodeOK
  <2>7. QED
    BY <2>4, <2>5, <2>6 DEF CodeOK, Processes, ForkKinds
<1>u. CASE Unloaded
  <2>1. code' = [p \in Processes |->
                   IF p \in Clients /\ code[p] # <<>> THEN <<"gone">> ELSE code[p]]
    BY <1>u DEF Unloaded
  <2>2. Sequenced(<<"gone">>)
    <3>1. "gone" \in Steps /\ "gone" \in Final
      BY DEF Steps, Final
    <3>2. /\ <<"gone">> \in Seq(Steps) /\ Len(<<"gone">>) = 1
          /\ <<"gone">>[1] \in Final
      BY <3>1
    <3>3. QED
      BY <3>2 DEF Sequenced, Chained
  <2>3. DOMAIN code' = Processes /\ code'[Other] = code[Other]
    BY <2>1, SthreadsAssumption DEF Processes
  <2>4. \A q \in Clients : Sequenced(code'[q])
    BY <2>1, <2>2 DEF CodeOK, Processes
  <2>5. \A q \in Clients : Sequenced(code[q])'
    BY <1>a, <2>4, SequencedPrime
  <2>6. QED
    BY <2>3, <2>5 DEF CodeOK, Processes, ForkKinds
<1>10. QED
  BY <1>1, <1>2, <1>6, <1>7, <1>8, <1>9, <1>u
  DEF Next, LoadStep, LoadFails, Rmmod, UnloadStep, Processes, ForkKinds, vars

\* Fields are filled in by clients, and commands keep the pid.
LEMMA PidsStep == IInv /\ [Next]_vars => PidsOK'
<1> SUFFICES ASSUME TypeOK, PidsOK, [Next]_vars PROVE PidsOK'
  BY DEF IInv
<1>1. CASE UNCHANGED heap
  BY <1>1 DEF PidsOK
<1>2. ASSUME NEW p, NEW change, NEW good \in SUBSET {"junk", "set"},
             Using(p, change, good),
             change.state = "set" /\ Pinfo.state \in good => change.pid \in Clients
      PROVE  PidsOK'
  <2>1. CASE Pinfo.state \notin good
    BY <1>1, <1>2, <2>1 DEF Using
  <2>2. CASE Pinfo.state \in good
    <3>1. heap' = [heap EXCEPT ![pinfo] = change] /\ pinfo \in Objects
      BY <1>2, <2>2, PinfoFacts DEF Using
    <3>2. QED
      BY <1>2, <2>2, <3>1 DEF PidsOK, TypeOK
  <2>3. QED
    BY <2>1, <2>2
<1>3. /\ Pinfo \in Fields
      /\ Pinfo.state = "set" => Pinfo.pid \in Clients
  BY PinfoFacts DEF PidsOK
<1>4. ASSUME NEW p \in Clients, Allocate(p) PROVE PidsOK'
  <2>1. \A o \in Objects : heap'[o].state = "set" => heap'[o] = heap[o]
    BY <1>4 DEF Allocate, TypeOK, Free
  <2>2. QED
    BY <2>1 DEF PidsOK
<1>5. ASSUME NEW p \in Clients, Fill(p) PROVE PidsOK'
  BY <1>2, <1>5 DEF Fill
<1>6. ASSUME NEW p \in Clients, FreePinfo(p) PROVE PidsOK'
  <2>1. Free.state # "set"
    BY DEF Free
  <2>2. QED
    BY <1>1, <1>2, <1>6, <2>1 DEF FreePinfo
<1>7. ASSUME NEW p, NEW change, Command(p, change),
             Pinfo.state = "set" => change.pid = Pinfo.pid
      PROVE  PidsOK'
  BY <1>1, <1>2, <1>3, <1>7 DEF Command
<1>8. ASSUME NEW p \in Clients, RegisterKey(p) \/ RegisterErrorFunction(p) PROVE PidsOK'
  <2>1. /\ \A k : [Pinfo EXCEPT !.key = k].pid = Pinfo.pid
        /\ [Pinfo EXCEPT !.callback = TRUE].pid = Pinfo.pid
    BY <1>3 DEF Fields
  <2>2. QED
    BY <1>7, <1>8, <2>1 DEF RegisterKey, RegisterErrorFunction
<1>9. ASSUME NEW p, Using(p, Pinfo, {"set"}) PROVE PidsOK'
  BY <1>2, <1>3, <1>9
<1>10. QED
  BY <1>1, <1>4, <1>5, <1>6, <1>8, <1>9
  DEF Next, LoadStep, LoadFails, Rmmod, UnloadStep, Unloaded, Stray, OtherForks, Start,
      Open, Release, Use, Test, Enable, Count, Ref, Uncount, Unref, Disable, Read,
      Callback, Fork, vars

\* The loading goes on in its order.
LEMMA LoadingStep == IInv /\ [Next]_vars => LoadingOK'
<1> SUFFICES ASSUME TypeOK, LoadingOK, [Next]_vars PROVE LoadingOK'
  BY DEF IInv
<1>a. driver' = driver /\ driver \in {"challenge", "basic"}
  BY DriverFixed DEF TypeOK
<1>1. CASE UNCHANGED <<loading, made, probe>>
  BY <1>1, <1>a DEF LoadingOK
<1>2. /\ driver = "challenge" => Load # <<>> /\ Load[Len(Load)] = "disable"
      /\ driver = "basic" => \A i \in 1 .. Len(Load) : Load[i] # "jprobe"
  BY DEF Load
<1>3. CASE LoadFails \/ Unloaded
  <2>1. loading' = Load /\ made' = {} /\ (driver = "basic" => ~probe')
    BY <1>3 DEF LoadFails, Unloaded, LoadingOK, device
  <2>2. QED
    BY <1>a, <1>2, <2>1 DEF LoadingOK, Load
<1>4. CASE LoadStep
  <2>1. /\ loading # <<>> /\ loading' = Tail(loading)
        /\ Len(loading) \in Nat \ {0} /\ Head(loading) = loading[1]
        /\ Len(loading') = Len(loading) - 1
        /\ \A i \in 1 .. Len(loading) - 1 : loading'[i] = loading[i + 1]
    BY <1>4 DEF LoadStep, TypeOK
  <2>2. CASE driver = "basic"
    <3>1. Head(loading) # "jprobe"
      BY <2>1, <2>2 DEF LoadingOK
    <3>2. ~probe' /\ "jprobe" \notin made'
      BY <1>4, <2>2, <3>1 DEF LoadStep, LoadingOK
    <3>3. \A i \in 1 .. Len(loading') : loading'[i] # "jprobe"
      BY <2>1, <2>2 DEF LoadingOK
    <3>4. QED
      BY <1>a, <2>2, <3>2, <3>3 DEF LoadingOK
  <2>3. CASE driver = "challenge"
    <3>1. loading' # <<>> => loading'[Len(loading')] = "disable"
      <4>1. CASE Len(loading) = 1
        <5>1. Len(loading') = 0
          BY <2>1, <4>1
        <5>2. loading' = <<>>
          BY <1>4, <2>1, <5>1, EmptySeq, HeadTailProperties DEF TypeOK
        <5>3. QED
          BY <5>2
      <4>2. CASE Len(loading) # 1
        BY <2>1, <2>3, <4>2 DEF LoadingOK
      <4>3. QED
        BY <4>1, <4>2
    <3>2. QED
      BY <1>a, <2>3, <3>1 DEF LoadingOK
  <2>4. QED
    BY <1>a, <2>2, <2>3
<1>5. CASE driver = "challenge" /\ UNCHANGED loading
  BY <1>5, <1>a DEF LoadingOK
<1>6. ASSUME NEW p \in Clients, driver = "basic", Enable(p) \/ Disable(p)
      PROVE  LoadingOK'
  BY <1>6, <1>a DEF Enable, Disable, LoadingOK, module
<1>7. CASE UnloadStep
  BY <1>7, <1>a DEF UnloadStep, LoadingOK
<1>8. ASSUME NEW p \in Clients, \/ Start(p) \/ Open(p) \/ Release(p) \/ Use(p) \/ Stray(p)
      PROVE  LoadingOK'
  BY <1>1, <1>5, <1>6, <1>8, <1>a
  DEF Start, Open, Release, Use, Stray, Test, Allocate, Fill, Enable, Count, Ref, Uncount,
      Unref, Disable, FreePinfo, RegisterKey, RegisterErrorFunction, Read, module, device
<1>9. ASSUME \/ Rmmod \/ OtherForks \/ UNCHANGED vars
             \/ \E p \in Processes :
                   Callback(p) \/ \E kind \in {"secure", "plain", "child"} : Fork(p, kind)
      PROVE  LoadingOK'
  BY <1>1, <1>9 DEF Rmmod, OtherForks, Callback, Fork, module, device, vars
<1>10. QED
  BY <1>3, <1>4, <1>7, <1>8, <1>9 DEF Next

-----------------------------------------------------------------------------
(* The session.                                                             *)

\* Where a client is after a step.
LEMMA GoWhere ==
    ASSUME TypeOK, CodeOK, NEW p \in Clients, NEW x, At(p, x), x # "callback", Go(p)
    PROVE  /\ Where(p) = x /\ StepOf(p) = x
           /\ Where(p)' = StepOf(p)' /\ StepOf(p)' # "callback"
           /\ IF x \in Final THEN StepOf(p)' = "idle" ELSE Follows(x, Where(p)')
<1>1. StepOf(p) = x /\ Where(p) = x /\ code[p] # <<>>
  BY DEF At, StepOf, Where
<1>2. /\ IF StepOf(p) \in Final THEN code'[p] = <<>>
         ELSE code'[p] # <<>> /\ Follows(StepOf(p), Head(code'[p]))
      /\ StepOf(p)' # "callback" /\ Where(p)' = StepOf(p)'
  BY <1>1, GoStep DEF TypeOK
<1>3. StepOf(p)' = IF code'[p] = <<>> THEN "idle" ELSE Head(code'[p])
  BY DEF StepOf
<1>4. QED
  BY <1>1, <1>2, <1>3

\* A step of the one client in open, session or release.
LEMMA OneActive ==
    ASSUME SessionOK, ~overlapped, loading' = loading, unloading' = unloading,
           NEW p \in Clients, Active(p),
           \A q \in Clients : q # p => code'[q] = code[q],
           Active(p)' => Good(p)',
           ~Active(p)' => Unused'
    PROVE  SessionOK'
<1>1. \A q \in Clients : Active(q) => q = p
  BY DEF SessionOK
<1>2. \A q \in Clients : q # p => ~Active(q)'
  BY <1>1 DEF Active, StepOf
<1>3. loading' = <<>>
  BY DEF SessionOK
<1>4. \A q \in Clients : Active(q)' => q = p
  BY <1>2
<1>5. \A q \in Clients : Active(q)' => Good(q)'
  BY <1>4
<1>6. unloading' = <<>>
  BY DEF SessionOK, Active, StepOf
<1>7. QED
  BY <1>3, <1>4, <1>5, <1>6 DEF SessionOK

\* A step that no client takes and that changes nothing they see.
LEMMA NoneActs ==
    ASSUME SessionOK, UNCHANGED <<module, device, pinfo, heap, key, overlapped>>,
           \A q \in Clients : code'[q] = code[q]
    PROVE  SessionOK'
<1> USE DEF module, device
<1>1. ASSUME NEW q \in Clients PROVE StepOf(q)' = StepOf(q) /\ Where(q)' = Where(q)
  <2>1. StepOf(q)' = StepOf(q)
    BY DEF StepOf
  <2>2. QED
    BY <2>1 DEF Where
<1>2. \A q \in Clients : Active(q)' <=> Active(q)
  BY <1>1 DEF Active
<1>3. \A q \in Clients : Good(q)' <=> Good(q)
  BY <1>1 DEF Good, Owns, Counted, Referenced, Filled
<1>4. Unused' <=> Unused
  BY DEF Unused
<1>5. QED
  BY <1>2, <1>3, <1>4 DEF SessionOK

\* A client that owns pinfo is answered.
LEMMA OwnCommand ==
    ASSUME TypeOK, NEW p, NEW change, Owns(p), Command(p, change)
    PROVE  /\ heap' = [heap EXCEPT ![pinfo] = change] /\ heap'[pinfo] = change
           /\ Pinfo = heap[pinfo] /\ pinfo \in Objects
           /\ Go(p) /\ UNCHANGED misused
BY SthreadsAssumption DEF TypeOK, Owns, Command, Using, Pinfo

\* What is known of a client that does a step.
LEMMA ActiveAt ==
    ASSUME SessionOK, ~overlapped, NEW p \in Clients,
           NEW x, At(p, x), x \notin {"idle", "test"}
    PROVE  /\ Active(p) /\ Good(p) /\ StepOf(p) = x
           /\ loading = <<>> /\ unloading = <<>>
BY DEF SessionOK, Active, StepOf, At

\* A step that goes on in the code of a client.
LEMMA GoesOn ==
    ASSUME TypeOK, CodeOK, SessionOK, ~overlapped,
           loading' = loading, unloading' = unloading,
           NEW p \in Clients, NEW x, At(p, x), Go(p),
           x \notin {"test", "idle", "callback", "gone"},
           x # "free" => Good(p)',
           x = "free" => Unused'
    PROVE  SessionOK'
<1>1. Active(p)
  BY ActiveAt
<1>2. \A q \in Clients : q # p => code'[q] = code[q]
  BY DEF Go, CodeOK, Processes
<1>3. IF x = "free" THEN StepOf(p)' = "idle"
      ELSE Follows(x, Where(p)') /\ Where(p)' = StepOf(p)'
  BY GoWhere DEF Final
<1>4. x = "free" => ~Active(p)'
  BY <1>3 DEF Active
<1>5. x # "free" => Active(p)'
  <2>1. x # "free" => Where(p)' \notin {"test", "idle"}
    BY <1>3 DEF Follows, ForkKinds
  <2>2. QED
    BY <1>3, <2>1 DEF Active
<1>6. QED
  BY <1>1, <1>2, <1>4, <1>5, OneActive

LEMMA AllocateSession ==
    ASSUME TypeOK, CodeOK, SessionOK, ~overlapped, driver' = driver,
           NEW p \in Clients, Allocate(p)
    PROVE  SessionOK'
<1>1. /\ At(p, "alloc") /\ Active(p) /\ Good(p) /\ StepOf(p) = "alloc" /\ Where(p) = "alloc"
      /\ driver \in {"challenge", "basic"} /\ device_opened' = device_opened
      /\ probe' = probe /\ UNCHANGED <<loading, unloading, refs, made>>
  BY ActiveAt DEF Allocate, Where, TypeOK, module, device
<1>2. CASE Go(p) /\ heap'[pinfo'].state = "junk" /\ pinfo' \in Objects
  <2>1. Where(p)' = "fill" /\ StepOf(p)' = "fill"
    BY <1>1, <1>2, GoWhere DEF Follows, Final
  <2>2. Good(p)'
    BY <1>1, <1>2, <2>1 DEF Good, Counted, Referenced, Filled, ForkKinds
  <2>3. QED
    BY <1>1, <1>2, <2>2, GoesOn
<1>3. CASE Leave(p) /\ pinfo' = None
  <2>1. code'[p] = <<>> /\ \A q \in Clients : q # p => code'[q] = code[q]
    BY <1>3 DEF Leave, CodeOK, Processes
  <2>2. ~Active(p)'
    BY <2>1 DEF Active, StepOf
  <2>3. Unused'
    <3>1. IF driver = "basic" THEN device_opened = 1 /\ refs = 1
                              ELSE device_opened = 0 /\ refs = 0
      BY <1>1 DEF Good, Counted, Referenced, ForkKinds
    <3>2. ~probe /\ loading = <<>>
      BY <1>1, ActiveAt DEF Good
    <3>3. QED
      BY <1>1, <1>3, <3>1, <3>2 DEF Unused
  <2>4. QED
    BY <1>1, <2>1, <2>2, <2>3, OneActive
<1>4. QED
  <2>1. \/ Leave(p) /\ pinfo' = None
        \/ \E o \in Objects :
              /\ heap' = [heap EXCEPT ![o] = [Free EXCEPT !.state = "junk"]]
              /\ pinfo' = o /\ Go(p)
    BY DEF Allocate
  <2>2. ASSUME NEW o \in Objects, pinfo' = o,
               heap' = [heap EXCEPT ![o] = [Free EXCEPT !.state = "junk"]]
        PROVE  heap'[pinfo'].state = "junk"
    BY <2>2 DEF TypeOK, Free
  <2>3. QED
    BY <1>2, <1>3, <2>1, <2>2

LEMMA FillSession ==
    ASSUME TypeOK, CodeOK, SessionOK, ~overlapped, driver' = driver,
           NEW p \in Clients, Fill(p)
    PROVE  SessionOK' /\ misused' = misused
<1>1. /\ At(p, "fill") /\ Active(p) /\ Good(p) /\ StepOf(p) = "fill" /\ Where(p) = "fill"
      /\ driver \in {"challenge", "basic"} /\ device_opened' = device_opened
      /\ probe' = probe /\ UNCHANGED <<loading, unloading, refs, made, pinfo>> /\ Go(p)
  BY ActiveAt DEF Fill, Where, TypeOK, module, device
<1>2. pinfo \in Objects /\ Pinfo.state = "junk"
  BY <1>1, SthreadsAssumption DEF Good, Pinfo
<1>3. /\ heap' = [heap EXCEPT ![pinfo] = [state |-> "set", pid |-> p, key |-> None,
                                          callback |-> FALSE]]
      /\ misused' = misused
  BY <1>2 DEF Fill, Using
<1>4. heap'[pinfo'] = [state |-> "set", pid |-> p, key |-> None, callback |-> FALSE]
  BY <1>1, <1>2, <1>3 DEF TypeOK
<1>5. Owns(p)' /\ heap'[pinfo'].callback = FALSE
  BY <1>1, <1>2, <1>4 DEF Owns
<1>6. StepOf(p)' # "callback" /\ Where(p)' = IF driver = "challenge" THEN "enable" ELSE "read"
  BY <1>1, GoWhere DEF Follows, Final
<1>7. Good(p)'
  BY <1>1, <1>5, <1>6 DEF Good, Counted, Referenced, Filled, ForkKinds
<1>8. QED
  BY <1>1, <1>3, <1>7, GoesOn

LEMMA EnableSession ==
    ASSUME TypeOK, CodeOK, SessionOK, ~overlapped, driver' = driver,
           NEW p \in Clients, Enable(p)
    PROVE  SessionOK'
<1>1. /\ At(p, "enable") /\ Active(p) /\ Good(p) /\ StepOf(p) = "enable" /\ Where(p) = "enable"
      /\ driver \in {"challenge", "basic"} /\ device_opened' = device_opened
      /\ UNCHANGED <<loading, unloading, refs, made, pinfo, heap>> /\ Go(p)
      /\ probe' = ("jprobe" \in made) /\ key' = key
  BY ActiveAt DEF Enable, Where, TypeOK, module
<1>2. StepOf(p)' # "callback" /\ Where(p)' = "count" /\ driver = "challenge"
  BY <1>1, GoWhere DEF Follows, Final
<1>3. Owns(p)'
  BY <1>1 DEF Good, Filled, Owns
<1>4. Good(p)'
  BY <1>1, <1>2, <1>3 DEF Good, Counted, Referenced, Filled, ForkKinds
<1>5. QED
  BY <1>1, <1>4, GoesOn

LEMMA CountSession ==
    ASSUME TypeOK, CodeOK, LoadingOK, SessionOK, ~overlapped, driver' = driver,
           NEW p \in Clients, Count(p)
    PROVE  SessionOK'
<1>1. /\ At(p, "count") /\ Active(p) /\ Good(p) /\ StepOf(p) = "count" /\ Where(p) = "count"
      /\ driver \in {"challenge", "basic"} /\ device_opened' = device_opened + 1
      /\ UNCHANGED <<loading, unloading, refs, made, pinfo, heap>> /\ Go(p)
      /\ probe' = probe /\ key' = key
  BY ActiveAt DEF Count, Where, TypeOK, module
<1>2. StepOf(p)' # "callback" /\ Where(p)' = "ref"
  BY <1>1, GoWhere DEF Follows, Final
<1>3. device_opened' = 1
  BY <1>1 DEF Good, Counted, ForkKinds
<1>4. QED
  <2>1. CASE driver = "challenge"
    <3>1. Owns(p)' /\ (probe <=> "jprobe" \in made)
      BY <1>1, <2>1 DEF Good, Filled, Owns
    <3>2. Good(p)'
      BY <1>1, <1>2, <1>3, <2>1, <3>1 DEF Good, Counted, Referenced, Filled, ForkKinds
    <3>3. QED
      BY <1>1, <3>2, GoesOn
  <2>2. CASE driver = "basic"
    <3>1. ~probe
      BY <2>2 DEF LoadingOK
    <3>2. Good(p)'
      BY <1>1, <1>2, <1>3, <2>2, <3>1 DEF Good, Counted, Referenced, Filled, ForkKinds
    <3>3. QED
      BY <1>1, <3>2, GoesOn
  <2>3. QED
    BY <1>1, <2>1, <2>2

LEMMA RefSession ==
    ASSUME TypeOK, CodeOK, LoadingOK, SessionOK, ~overlapped, driver' = driver,
           NEW p \in Clients, Ref(p)
    PROVE  SessionOK'
<1>1. /\ At(p, "ref") /\ Active(p) /\ Good(p) /\ StepOf(p) = "ref" /\ Where(p) = "ref"
      /\ driver \in {"challenge", "basic"} /\ UNCHANGED <<loading, unloading, made>>
      /\ refs' = refs + 1 /\ Go(p) /\ pinfo' = pinfo /\ heap' = heap
      /\ device_opened' = device_opened /\ probe' = probe /\ key' = key
  BY ActiveAt DEF Ref, Where, TypeOK, device
<1>2. /\ StepOf(p)' # "callback"
      /\ Where(p)' = IF driver = "challenge" THEN "regfn" ELSE "alloc"
  BY <1>1, GoWhere DEF Follows, Final
<1>3. refs' = 1 /\ device_opened' = 1 /\ (driver = "challenge" => Owns(p)')
      /\ (driver = "basic" => ~probe)
      /\ (driver = "challenge" => (probe <=> "jprobe" \in made))
  BY <1>1 DEF Good, Counted, Referenced, Filled, ForkKinds, Owns, LoadingOK
<1>4. Good(p)'
  BY <1>1, <1>2, <1>3 DEF Good, Counted, Referenced, Filled, ForkKinds
<1>5. QED
  BY <1>1, <1>4, GoesOn

LEMMA UncountSession ==
    ASSUME TypeOK, CodeOK, LoadingOK, SessionOK, ~overlapped, driver' = driver,
           NEW p \in Clients, Uncount(p)
    PROVE  SessionOK'
<1>1. /\ At(p, "uncount") /\ Active(p) /\ Good(p) /\ StepOf(p) = "uncount"
      /\ Where(p) = "uncount"
      /\ driver \in {"challenge", "basic"} /\ device_opened' = device_opened - 1
      /\ UNCHANGED <<loading, unloading, refs, made, pinfo, heap>> /\ Go(p)
      /\ probe' = probe /\ key' = key
  BY ActiveAt DEF Uncount, Where, TypeOK, module
<1>2. StepOf(p)' # "callback" /\ Where(p)' = "unref"
  BY <1>1, GoWhere DEF Follows, Final
<1>3. /\ device_opened' = 0 /\ refs' = 1 /\ Owns(p)' /\ (driver = "basic" => ~probe)
      /\ (probe <=> "jprobe" \in made)
  BY <1>1 DEF Good, Counted, Referenced, Filled, ForkKinds, Owns, LoadingOK
<1>4. Good(p)'
  BY <1>1, <1>2, <1>3 DEF Good, Counted, Referenced, Filled, ForkKinds
<1>5. QED
  BY <1>1, <1>4, GoesOn

LEMMA UnrefSession ==
    ASSUME TypeOK, CodeOK, LoadingOK, SessionOK, ~overlapped, driver' = driver,
           NEW p \in Clients, Unref(p)
    PROVE  SessionOK'
<1>1. /\ At(p, "unref") /\ Active(p) /\ Good(p) /\ StepOf(p) = "unref"
      /\ Where(p) = "unref"
      /\ driver \in {"challenge", "basic"} /\ UNCHANGED <<loading, unloading, made>>
      /\ refs' = (IF refs > 0 THEN refs - 1 ELSE 0) /\ Go(p) /\ UNCHANGED <<pinfo, heap>>
      /\ device_opened' = device_opened /\ probe' = probe /\ key' = key
  BY ActiveAt DEF Unref, Where, TypeOK, device
<1>2. /\ StepOf(p)' # "callback"
      /\ Where(p)' = IF driver = "challenge" THEN "disable" ELSE "free"
  BY <1>1, GoWhere DEF Follows, Final
<1>3. /\ device_opened' = 0 /\ refs' = 0 /\ Owns(p)' /\ (driver = "basic" => ~probe)
  BY <1>1 DEF Good, Counted, Referenced, Filled, ForkKinds, Owns, LoadingOK
<1>4. Good(p)'
  BY <1>1, <1>2, <1>3 DEF Good, Counted, Referenced, Filled, ForkKinds
<1>5. QED
  BY <1>1, <1>4, GoesOn

LEMMA DisableSession ==
    ASSUME TypeOK, CodeOK, SessionOK, ~overlapped, driver' = driver,
           NEW p \in Clients, Disable(p)
    PROVE  SessionOK'
<1>1. /\ At(p, "disable") /\ Active(p) /\ Good(p) /\ StepOf(p) = "disable"
      /\ Where(p) = "disable"
      /\ driver \in {"challenge", "basic"} /\ device_opened' = device_opened
      /\ UNCHANGED <<loading, unloading, refs, made, pinfo, heap>> /\ Go(p)
      /\ probe' = FALSE /\ key' = key
  BY ActiveAt DEF Disable, Where, TypeOK, module
<1>2. StepOf(p)' # "callback" /\ Where(p)' = "free"
  BY <1>1, GoWhere DEF Follows, Final
<1>3. device_opened = 0 /\ refs = 0 /\ Owns(p)'
  BY <1>1 DEF Good, Counted, Referenced, Filled, ForkKinds, Owns
<1>4. Good(p)'
  BY <1>1, <1>2, <1>3 DEF Good, Counted, Referenced, Filled, ForkKinds
<1>5. QED
  BY <1>1, <1>4, GoesOn

LEMMA FreeSession ==
    ASSUME TypeOK, CodeOK, SessionOK, ~overlapped, driver' = driver,
           NEW p \in Clients, FreePinfo(p)
    PROVE  SessionOK' /\ misused' = misused
<1>1. /\ At(p, "free") /\ Active(p) /\ Good(p) /\ StepOf(p) = "free" /\ Where(p) = "free"
      /\ driver \in {"challenge", "basic"} /\ device_opened' = device_opened
      /\ UNCHANGED <<loading, unloading, refs>> /\ Go(p) /\ probe' = probe
  BY ActiveAt DEF FreePinfo, Where, TypeOK, module, device
<1>2. device_opened = 0 /\ refs = 0 /\ Owns(p) /\ ~probe
  BY <1>1 DEF Good, Counted, Referenced, Filled, ForkKinds
<1>3. misused' = misused
  BY <1>2, SthreadsAssumption DEF FreePinfo, Using, Pinfo, Owns
<1>4. Unused'
  BY <1>1, <1>2 DEF Unused
<1>5. QED
  BY <1>1, <1>3, <1>4, GoesOn

LEMMA RegisterKeySession ==
    ASSUME TypeOK, CodeOK, LoadingOK, SessionOK, ~overlapped, driver' = driver,
           NEW p \in Clients, RegisterKey(p)
    PROVE  SessionOK' /\ misused' = misused
<1>1. /\ At(p, "regkey") /\ Active(p) /\ Good(p) /\ StepOf(p) = "regkey"
      /\ Where(p) = "regkey" /\ driver \in {"challenge", "basic"}
      /\ device_opened' = device_opened /\ UNCHANGED <<loading, unloading, refs, made>>
      /\ pinfo' = pinfo /\ probe' = probe
  BY ActiveAt DEF RegisterKey, Where, TypeOK, module, device
<1>2. Owns(p) /\ device_opened = 1 /\ refs = 1 /\ (probe <=> "jprobe" \in made)
      /\ (driver = "challenge" => heap[pinfo].callback)
  BY <1>1 DEF Good, Counted, Referenced, Filled, ForkKinds
<1>3. PICK k \in Keys : key' = [key EXCEPT ![p] = k] /\ Command(p, [Pinfo EXCEPT !.key = k])
  BY DEF RegisterKey
<1>4. /\ heap'[pinfo] = [Pinfo EXCEPT !.key = k] /\ Pinfo = heap[pinfo] /\ pinfo \in Objects
      /\ Go(p) /\ misused' = misused
  BY <1>2, <1>3, OwnCommand
<1>5. key'[p] = k /\ k # None
  BY <1>3, SthreadsAssumption DEF TypeOK
<1>6. /\ heap'[pinfo].key = k /\ heap'[pinfo].callback = heap[pinfo].callback
      /\ heap'[pinfo].state = "set" /\ heap'[pinfo].pid = p
  BY <1>2, <1>4, PinfoFacts DEF Fields, Owns
<1>7. Owns(p)'
  BY <1>1, <1>4, <1>6 DEF Owns
<1>8. /\ StepOf(p)' # "callback"
      /\ IF driver = "challenge" THEN Where(p)' \in {"regkey", "secure"}
         ELSE Where(p)' = "regfn"
  BY <1>1, <1>4, GoWhere DEF Follows, Final
<1>9. Good(p)'
  BY <1>1, <1>2, <1>5, <1>6, <1>7, <1>8 DEF Good, Counted, Referenced, Filled, ForkKinds
<1>10. QED
  BY <1>1, <1>4, <1>9, GoesOn

LEMMA RegisterErrorFunctionSession ==
    ASSUME TypeOK, CodeOK, LoadingOK, SessionOK, ~overlapped, driver' = driver,
           NEW p \in Clients, RegisterErrorFunction(p)
    PROVE  SessionOK' /\ misused' = misused
<1>1. /\ At(p, "regfn") /\ Active(p) /\ Good(p) /\ StepOf(p) = "regfn"
      /\ Where(p) = "regfn" /\ driver \in {"challenge", "basic"} /\ key' = key
      /\ device_opened' = device_opened /\ UNCHANGED <<loading, unloading, refs, made>>
      /\ pinfo' = pinfo /\ probe' = probe /\ Command(p, [Pinfo EXCEPT !.callback = TRUE])
  BY ActiveAt DEF RegisterErrorFunction, Where, TypeOK, module, device
<1>2. Owns(p) /\ device_opened = 1 /\ refs = 1 /\ (probe <=> "jprobe" \in made)
      /\ (driver = "basic" => heap[pinfo].key = key[p])
  BY <1>1 DEF Good, Counted, Referenced, Filled, ForkKinds
<1>3. /\ heap'[pinfo] = [Pinfo EXCEPT !.callback = TRUE] /\ Pinfo = heap[pinfo]
      /\ pinfo \in Objects /\ Go(p) /\ misused' = misused
  BY <1>1, <1>2, OwnCommand
<1>4. /\ heap'[pinfo].key = heap[pinfo].key /\ heap'[pinfo].callback = TRUE
      /\ heap'[pinfo].state = "set" /\ heap'[pinfo].pid = p
  BY <1>2, <1>3, PinfoFacts DEF Fields, Owns
<1>5. Owns(p)'
  BY <1>1, <1>3, <1>4 DEF Owns
<1>6. /\ StepOf(p)' # "callback"
      /\ Where(p)' = IF driver = "challenge" THEN "regkey" ELSE "read"
  BY <1>1, <1>3, GoWhere DEF Follows, Final
<1>7. Good(p)'
  BY <1>1, <1>2, <1>4, <1>5, <1>6 DEF Good, Counted, Referenced, Filled, ForkKinds
<1>8. QED
  BY <1>1, <1>3, <1>7, GoesOn

LEMMA ReadSession ==
    ASSUME TypeOK, CodeOK, LoadingOK, SessionOK, ~overlapped, driver' = driver,
           NEW p \in Clients, Read(p)
    PROVE  /\ SessionOK' /\ misused' = misused
           /\ Pinfo.pid = p /\ (Pinfo.callback => Pinfo.key = key[p])
<1>1. /\ At(p, "read") /\ Active(p) /\ Good(p) /\ StepOf(p) = "read"
      /\ Where(p) = "read" /\ driver \in {"challenge", "basic"} /\ key' = key
      /\ device_opened' = device_opened /\ UNCHANGED <<loading, unloading, refs, made>>
      /\ pinfo' = pinfo /\ probe' = probe /\ Go(p)
  BY ActiveAt DEF Read, Where, TypeOK, module, device
<1>2. StepOf(p)' # "callback" /\ Where(p)' \in {"regkey", "uncount"} /\ driver = "basic"
  BY <1>1, GoWhere DEF Follows, Final
<1>3. Owns(p) /\ device_opened = 1 /\ refs = 1 /\ ~probe /\ "jprobe" \notin made
      /\ (heap[pinfo].callback => heap[pinfo].key = key[p])
  BY <1>1, <1>2 DEF Good, Counted, Referenced, Filled, ForkKinds, LoadingOK
<1>4. Pinfo = heap[pinfo] /\ heap' = heap /\ misused' = misused
  <2>1. Pinfo = heap[pinfo] /\ Pinfo.state = "set" /\ pinfo \in Objects
    BY <1>3, SthreadsAssumption DEF Owns, Pinfo
  <2>2. heap' = [heap EXCEPT ![pinfo] = heap[pinfo]] /\ misused' = misused
    BY <2>1 DEF Read, Using
  <2>3. QED
    BY <2>1, <2>2 DEF TypeOK
<1>5. Owns(p)'
  BY <1>1, <1>3, <1>4 DEF Owns
<1>6. Good(p)'
  BY <1>1, <1>2, <1>3, <1>4, <1>5 DEF Good, Counted, Referenced, Filled, ForkKinds
<1>7. QED
  BY <1>1, <1>3, <1>4, <1>6, GoesOn DEF Owns

LEMMA ForkSession ==
    ASSUME TypeOK, CodeOK, LoadingOK, SessionOK, ~overlapped, driver' = driver,
           NEW p \in Clients, NEW kind \in ForkKinds, Fork(p, kind)
    PROVE  SessionOK'
<1>1. /\ At(p, kind) /\ driver = "challenge" /\ StepOf(p) = kind /\ Where(p) = kind
      /\ device_opened' = device_opened /\ UNCHANGED <<loading, unloading, refs, made>>
      /\ pinfo' = pinfo /\ heap' = heap /\ probe' = probe /\ key' = key
  BY ForkStep DEF Fork, TypeOK, module, device
<1>2. Active(p) /\ Good(p)
  BY <1>1, ActiveAt DEF ForkKinds
<1>3. Owns(p)'
  BY <1>1, <1>2 DEF Good, Filled, Owns
<1>4. CASE probe
  <2>1. code' = [code EXCEPT ![p] = <<"callback", kind>> \o Tail(@)]
    BY <1>4 DEF Fork
  <2>2. StepOf(p)' = "callback" /\ Where(p)' = kind
    BY <1>1, <2>1, ForkStep DEF TypeOK
  <2>3. Good(p)'
    BY <1>1, <1>2, <1>3, <1>4, <2>2 DEF Good, Counted, Referenced, Filled, ForkKinds
  <2>4. \A q \in Clients : q # p => code'[q] = code[q]
    BY <2>1 DEF CodeOK, Processes
  <2>5. Active(p)'
    BY <2>2 DEF Active
  <2>6. QED
    BY <1>1, <1>2, <2>3, <2>4, <2>5, OneActive
<1>5. CASE ~probe
  <2>1. Go(p)
    BY <1>5 DEF Fork
  <2>2. StepOf(p)' # "callback" /\ Where(p)' \in {"regkey", "child", "plain", "uncount"}
    BY <1>1, <2>1, GoWhere DEF Follows, Final, ForkKinds
  <2>3. Where(p)' = "regkey" \/ Where(p)' \in ForkKinds \/ Where(p)' = "uncount"
    BY <2>2 DEF ForkKinds
  <2>4. Good(p)'
    BY <1>1, <1>2, <1>3, <2>2, <2>3 DEF Good, Counted, Referenced, Filled, ForkKinds
  <2>5. kind \notin {"test", "idle", "callback", "free", "gone"}
    BY DEF ForkKinds
  <2>6. QED
    BY <1>1, <2>1, <2>4, <2>5, GoesOn
<1>6. QED
  BY <1>4, <1>5

\* The callback of a client, which owns pinfo.
LEMMA CallbackSession ==
    ASSUME TypeOK, CodeOK, LoadingOK, SessionOK, ~overlapped, driver' = driver,
           NEW p \in Clients, Callback(p)
    PROVE  /\ SessionOK' /\ misused' = misused
           /\ Head(Tail(code[p])) \in ForkKinds
           /\ Owns(p) /\ Pinfo = heap[pinfo] /\ heap[pinfo].callback
           /\ key[p] # None /\ heap[pinfo].key = key[p] /\ "jprobe" \in made
<1>1. /\ At(p, "callback") /\ driver = "challenge" /\ StepOf(p) = "callback"
      /\ Where(p) = Head(Tail(code[p])) /\ Where(p) \in ForkKinds
      /\ code'[p] # <<>> /\ Follows(Where(p), Head(code'[p]))
      /\ StepOf(p)' # "callback" /\ Where(p)' = StepOf(p)'
      /\ device_opened' = device_opened /\ UNCHANGED <<loading, unloading, refs, made>>
      /\ pinfo' = pinfo /\ probe' = probe /\ key' = key
  BY CallbackStep DEF Callback, TypeOK, module, device
<1>2. Active(p) /\ Good(p)
  BY <1>1, ActiveAt
<1>3. /\ Owns(p) /\ heap[pinfo].callback /\ key[p] # None /\ heap[pinfo].key = key[p]
      /\ probe /\ "jprobe" \in made /\ device_opened = 1 /\ refs = 1
  BY <1>1, <1>2 DEF Good, Filled, Counted, Referenced, ForkKinds
<1>4. Pinfo = heap[pinfo] /\ heap' = heap /\ misused' = misused
  <2>1. Pinfo = heap[pinfo] /\ Pinfo.state = "set" /\ pinfo \in Objects
    BY <1>3, SthreadsAssumption DEF Owns, Pinfo
  <2>2. heap' = [heap EXCEPT ![pinfo] = heap[pinfo]] /\ misused' = misused
    BY <2>1 DEF Callback, Using
  <2>3. QED
    BY <2>1, <2>2 DEF TypeOK
<1>5. Owns(p)'
  BY <1>1, <1>3, <1>4 DEF Owns
<1>6. Where(p)' = Head(code'[p])
  BY <1>1 DEF StepOf
<1>7. Where(p)' \in {"regkey", "uncount"} \cup ForkKinds
  BY <1>1, <1>6 DEF Follows, ForkKinds
<1>8. Good(p)'
  BY <1>1, <1>3, <1>4, <1>5, <1>7 DEF Good, Counted, Referenced, Filled, ForkKinds
<1>9. Active(p)'
  BY <1>1, <1>7 DEF Active, ForkKinds
<1>10. \A q \in Clients : q # p => code'[q] = code[q]
  BY DEF Callback, CodeOK, Processes
<1>11. SessionOK'
  BY <1>1, <1>2, <1>8, <1>9, <1>10, OneActive
<1>12. QED
  BY <1>1, <1>3, <1>4, <1>11

\* What the other process does changes nothing for the clients.
LEMMA OtherSession ==
    ASSUME TypeOK, CodeOK, SessionOK, driver' = driver,
           \/ OtherForks
           \/ Callback(Other)
           \/ \E kind \in ForkKinds : Fork(Other, kind)
    PROVE  SessionOK'
<1>1. \A q \in Clients : code'[q] = code[q]
  BY SthreadsAssumption DEF OtherForks, Callback, Fork, Go, CodeOK, Processes
<1>2. UNCHANGED <<module, device, pinfo, key, overlapped>>
  BY DEF OtherForks, Callback, Fork
<1>3. heap' = heap
  <2>1. CASE Callback(Other) /\ Pinfo.state = "set"
    <3>1. heap' = [heap EXCEPT ![pinfo] = Pinfo]
      BY <2>1 DEF Callback, Using
    <3>2. pinfo \in Objects /\ Pinfo = heap[pinfo]
      BY <2>1, PinfoFacts
    <3>3. QED
      BY <3>1, <3>2 DEF TypeOK
  <2>2. CASE Callback(Other) /\ Pinfo.state # "set"
    BY <2>2 DEF Callback, Using
  <2>3. QED
    BY <2>1, <2>2 DEF OtherForks, Fork
<1>4. QED
  BY <1>1, <1>2, <1>3, NoneActs

LEMMA NotIdle ==
    ASSUME CodeOK, NEW p \in Clients, code[p] # <<>>
    PROVE  StepOf(p) = Head(code[p]) /\ StepOf(p) \in Steps /\ StepOf(p) # "idle"
<1>1. code[p] \in Seq(Steps)
  BY DEF CodeOK, Sequenced, Chained
<1>2. StepOf(p) = Head(code[p]) /\ StepOf(p) \in Steps
  BY <1>1, HeadTailProperties DEF StepOf
<1>3. QED
  BY <1>2 DEF Steps, ForkKinds

\* Between open and release the device is counted and the module referenced.
LEMMA CountedBetween ==
    ASSUME CodeOK, driver \in {"challenge", "basic"}, NEW q \in Clients,
           Active(q), ~InCall(q)
    PROVE  /\ Where(q) \in Counted /\ Where(q) \in Referenced
           /\ \/ driver = "challenge" /\ Where(q) \in {"regfn", "regkey"} \cup ForkKinds
              \/ driver = "basic" /\ Where(q) \in {"regfn", "regkey", "read"}
<1>1. code[q] # <<>> /\ StepOf(q) = Head(code[q]) /\ StepOf(q) # "test"
  BY DEF Active, StepOf
<1>2. StepOf(q) \in Steps
  BY <1>1, NotIdle
<1>3. StepOf(q) \notin {"alloc", "fill", "enable", "count", "ref", "uncount", "unref",
                       "disable", "free", "gone"}
  BY <1>1 DEF InCall
<1>4. CASE StepOf(q) = "callback"
  <2>1. Sequenced(code[q]) /\ Head(code[q]) = "callback"
    BY <1>1, <1>4 DEF CodeOK
  <2>2. Follows("callback", Head(Tail(code[q])))
    BY <1>1, <2>1, SequencedTail DEF Final
  <2>3. Where(q) \in ForkKinds /\ driver = "challenge"
    BY <1>4, <2>2 DEF Follows, Where
  <2>4. QED
    BY <2>3 DEF Counted, Referenced
<1>5. CASE StepOf(q) # "callback"
  <2>1. Where(q) = StepOf(q)
    BY <1>5 DEF Where
  <2>2. \/ driver = "challenge" /\ Where(q) \in {"regfn", "regkey"} \cup ForkKinds
        \/ driver = "basic" /\ Where(q) \in {"regfn", "regkey", "read"}
    BY <1>1, <1>2, <1>3, <1>5, <2>1 DEF Steps
  <2>3. QED
    BY <2>2 DEF Counted, Referenced
<1>6. QED
  BY <1>4, <1>5

\* An open that finds the device free, and no call under way, is alone.
LEMMA TestSession ==
    ASSUME TypeOK, CodeOK, LoadingOK, SessionOK, ~overlapped', driver' = driver,
           NEW p \in Clients, Test(p)
    PROVE  SessionOK'
<1>1. /\ At(p, "test") /\ code[p] # <<>> /\ StepOf(p) = "test" /\ Where(p) = "test"
      /\ driver \in {"challenge", "basic"} /\ device_opened' = device_opened
      /\ UNCHANGED <<loading, unloading, refs, made>> /\ pinfo' = pinfo /\ heap' = heap
      /\ probe' = probe /\ key' = key /\ device_opened \in Int
  BY DEF Test, At, StepOf, Where, TypeOK, module, device
<1>2. ~overlapped /\ ~Active(p)
  BY <1>1 DEF Test, Active
<1>n. unloading = <<>>
  BY <1>1, <1>2 DEF SessionOK
<1>3. \A q \in Clients : q # p => code'[q] = code[q]
  BY DEF Test, Go, Leave, CodeOK, Processes
<1>4. ASSUME NEW q \in Clients, q # p
      PROVE  /\ StepOf(q)' = StepOf(q) /\ Where(q)' = Where(q)
             /\ Active(q)' <=> Active(q)
             /\ Good(q)' <=> Good(q)
  <2>1. StepOf(q)' = StepOf(q)
    BY <1>3, <1>4 DEF StepOf
  <2>2. Where(q)' = Where(q)
    BY <1>3, <1>4, <2>1 DEF Where
  <2>3. QED
    BY <1>1, <2>1, <2>2 DEF Active, Good, Owns, Counted, Referenced, Filled
<1>5. Unused' <=> Unused
  BY <1>1 DEF Unused
<1>6. CASE Leave(p)
  <2>1. ~Active(p)'
    BY <1>6 DEF Leave, CodeOK, Processes, Active, StepOf
  <2>2. QED
    BY <1>1, <1>2, <1>4, <1>5, <1>n, <2>1 DEF SessionOK
<1>7. CASE Go(p) /\ device_opened = 0 /\ loading = <<>>
           /\ \A q \in Clients \ {p} : ~InCall(q)
  <2>1. ASSUME NEW q \in Clients PROVE ~Active(q)
    <3>1. CASE q = p
      BY <1>2, <3>1
    <3>2. CASE q # p /\ Active(q)
      <4>1. Good(q) /\ ~InCall(q) /\ code[q] # <<>>
        BY <1>2, <1>7, <3>2 DEF SessionOK, Active, StepOf
      <4>2. Where(q) \in Counted
        BY <1>1, <3>2, <4>1, CountedBetween
      <4>3. QED
        BY <1>7, <4>1, <4>2 DEF Good
    <3>3. QED
      BY <3>1, <3>2
  <2>2. ~probe /\ refs = 0
    BY <1>2, <1>7, <2>1 DEF SessionOK, Unused
  <2>3. StepOf(p)' # "callback" /\ Where(p)' = StepOf(p)'
        /\ Where(p)' = IF driver = "challenge" THEN "alloc" ELSE "count"
    BY <1>1, <1>7, GoWhere DEF Follows, Final
  <2>4. driver = "basic" => "jprobe" \notin made
    BY DEF LoadingOK
  <2>5. Good(p)' /\ Active(p)'
    BY <1>1, <1>7, <2>2, <2>3, <2>4 DEF Good, Counted, Referenced, Filled, ForkKinds, Active
  <2>6. \A q \in Clients : Active(q)' => q = p
    BY <1>4, <2>1
  <2>7. QED
    BY <1>1, <1>7, <1>n, <2>5, <2>6 DEF SessionOK
<1>8. QED
  BY <1>1, <1>6, <1>7 DEF Test

LEMMA StartSession ==
    ASSUME TypeOK, CodeOK, SessionOK, ~overlapped', driver' = driver,
           NEW p \in Clients, Start(p)
    PROVE  SessionOK'
<1>1. /\ code[p] = <<>> /\ code' = [code EXCEPT ![p] = ClientSteps]
      /\ key' = [key EXCEPT ![p] = None] /\ driver \in {"challenge", "basic"}
      /\ device_opened' = device_opened /\ UNCHANGED <<loading, unloading, refs, made>>
      /\ pinfo' = pinfo /\ heap' = heap /\ probe' = probe
      /\ ~overlapped /\ unloading = <<>>
  BY DEF Start, TypeOK, module, device
<1>2. code'[p] = ClientSteps
  BY <1>1 DEF CodeOK, Processes
<1>3. ~Active(p) /\ ~Active(p)'
  BY <1>1, <1>2, ProgramsSequenced DEF Active, StepOf
<1>4. ASSUME NEW q \in Clients, q # p
      PROVE  (Active(q)' <=> Active(q)) /\ (Good(q)' <=> Good(q))
  <2>1. code'[q] = code[q] /\ key'[q] = key[q]
    BY <1>1, <1>4 DEF CodeOK, TypeOK, Processes
  <2>2. StepOf(q)' = StepOf(q)
    BY <2>1 DEF StepOf
  <2>3. Where(q)' = Where(q)
    BY <2>1, <2>2 DEF Where
  <2>4. QED
    BY <1>1, <2>1, <2>2, <2>3 DEF Active, Good, Owns, Counted, Referenced, Filled
<1>5. Unused' <=> Unused
  BY <1>1 DEF Unused
<1>6. QED
  BY <1>1, <1>3, <1>4, <1>5 DEF SessionOK

\* While the module is loaded nobody has the device.
LEMMA LoadingSession ==
    ASSUME TypeOK, CodeOK, LoadingOK, LoadingOK', SessionOK, driver' = driver,
           LoadStep \/ LoadFails
    PROVE  SessionOK'
<1>1. /\ code' = code /\ overlapped' = overlapped /\ UNCHANGED <<unloading, refs, pinfo>>
  BY DEF LoadStep, LoadFails
<1>2. \A q \in Clients : Active(q)' <=> Active(q)
  BY <1>1 DEF Active, StepOf
<1>3. ~overlapped => \A q \in Clients : ~Active(q)
  BY DEF LoadStep, LoadFails, SessionOK, Active, StepOf, Processes
<1>4. ~overlapped => Unused
  BY <1>3 DEF SessionOK
<1>5. ASSUME ~overlapped PROVE Unused'
  <2>1. /\ device_opened = 0 /\ refs = 0
        /\ device_opened' = 0 \/ device_opened' = device_opened
    BY <1>4, <1>5 DEF Unused, LoadStep, LoadFails, device
  <2>2. loading' = <<>> => ~probe'
    <3>1. CASE LoadFails
      BY <3>1 DEF LoadFails, Load
    <3>2. CASE LoadStep /\ driver = "basic"
      BY <3>2 DEF LoadingOK
    <3>3. CASE LoadStep /\ driver = "challenge" /\ loading' = <<>>
      <4>1. /\ loading # <<>> /\ loading' = Tail(loading)
            /\ Len(loading) \in Nat \ {0} /\ Head(loading) = loading[1]
            /\ Len(loading') = Len(loading) - 1
        BY <3>3 DEF LoadStep, TypeOK
      <4>2. Len(loading') = 0
        BY <3>3
      <4>3. Len(loading) = 1
        <5>1. \A n \in Nat \ {0} : n - 1 = 0 => n = 1
          OBVIOUS
        <5>2. Len(loading) - 1 = 0
          BY <4>1, <4>2, Zenon
        <5>3. QED
          BY <4>1, <5>1, <5>2, Zenon
      <4>4. Head(loading) = "disable"
        BY <3>3, <4>1, <4>3 DEF LoadingOK
      <4>5. QED
        BY <3>3, <4>4 DEF LoadStep
    <3>4. QED
      BY <3>1, <3>2, <3>3 DEF TypeOK
  <2>3. QED
    BY <1>1, <2>1, <2>2 DEF Unused
<1>6. QED
  BY <1>1, <1>2, <1>3, <1>5 DEF SessionOK

\* rmmod finds nobody at it if no call is under way, and leaves the device as it
\* was before the module was loaded.
LEMMA UnloadingSession ==
    ASSUME TypeOK, CodeOK, SessionOK, ~overlapped', driver' = driver,
           Rmmod \/ UnloadStep \/ Unloaded
    PROVE  SessionOK'
<1>1. ~overlapped /\ driver \in {"challenge", "basic"}
  BY DEF Rmmod, UnloadStep, Unloaded, TypeOK
<1>2. ASSUME NEW q \in Clients PROVE code[q] = <<>>
  <2>1. CASE UnloadStep \/ Unloaded
    BY <1>1, <2>1 DEF UnloadStep, Unloaded, SessionOK
  <2>2. CASE Rmmod
    <3>1. refs = 0 /\ ~Opening(q) /\ ~InCall(q)
      BY <2>2 DEF Rmmod
    <3>2. ~Active(q)
      <4>1. Active(q) => Good(q) /\ Where(q) \in Referenced
        BY <1>1, <3>1, CountedBetween DEF SessionOK
      <4>2. QED
        BY <3>1, <4>1 DEF Good
    <3>3. QED
      BY <3>1, <3>2, NotIdle DEF Active, StepOf, Opening
  <2>3. QED
    BY <2>1, <2>2
<1>3. \A q \in Clients : code'[q] = <<>>
  <2>1. CASE Rmmod \/ UnloadStep
    BY <1>2, <2>1 DEF Rmmod, UnloadStep
  <2>2. CASE Unloaded
    <3>1. code' = [p \in Processes |->
                     IF p \in Clients /\ code[p] # <<>> THEN <<"gone">> ELSE code[p]]
      BY <2>2 DEF Unloaded
    <3>2. QED
      BY <1>2, <3>1 DEF Processes
  <2>3. QED
    BY <2>1, <2>2
<1>4. \A q \in Clients : ~Active(q) /\ ~Active(q)'
  BY <1>2, <1>3 DEF Active, StepOf
<1>5. Unused
  BY <1>1, <1>4 DEF SessionOK
<1>6. Unused'
  <2>1. CASE Rmmod \/ UnloadStep
    <3>1. UNCHANGED <<loading, device_opened, refs, pinfo>>
      BY <2>1 DEF Rmmod, UnloadStep, device
    <3>2. probe' => probe
      BY <2>1, Zenon DEF Rmmod, UnloadStep, device
    <3>3. QED
      BY <1>5, <3>1, <3>2 DEF Unused
  <2>2. CASE Unloaded
    BY <2>2 DEF Unloaded, Unused
  <2>3. QED
    BY <2>1, <2>2
<1>7. QED
  BY <1>3, <1>4, <1>6 DEF SessionOK

\* Unless calls overlap, the module is not unloaded under a client.
LEMMA NotGone ==
    ASSUME SessionOK, ~overlapped', NEW p \in Clients, Stray(p)
    PROVE  FALSE
<1>1. At(p, "gone") /\ ~overlapped
  BY DEF Stray
<1>2. Good(p) /\ StepOf(p) = "gone"
  BY <1>1, ActiveAt
<1>3. QED
  BY <1>2 DEF Good, Where

LEMMA SessionStep == IInv /\ [Next]_vars => SessionOK'
<1> SUFFICES ASSUME IInv, [Next]_vars, ~overlapped' PROVE SessionOK'
  BY DEF SessionOK
<1>1. /\ TypeOK /\ CodeOK /\ LoadingOK /\ SessionOK /\ LoadingOK' /\ driver' = driver
  BY LoadingStep, DriverFixed DEF IInv
<1>2. ASSUME NEW p \in Clients, Start(p) PROVE SessionOK'
  BY <1>1, <1>2, StartSession
<1>3. ASSUME NEW p \in Clients, Test(p) PROVE SessionOK'
  BY <1>1, <1>3, TestSession
<1>4. ASSUME NEW p \in Clients,
             \/ Allocate(p) \/ Fill(p) \/ Enable(p) \/ Count(p) \/ Ref(p)
             \/ Release(p) \/ Use(p)
      PROVE  SessionOK'
  <2>1. ~overlapped
    BY <1>4 DEF Allocate, Fill, Enable, Count, Ref, Release, Use, Uncount, Unref, Disable,
                FreePinfo, RegisterKey, RegisterErrorFunction, Read
  <2>2. QED
    BY <1>1, <1>4, <2>1, AllocateSession, FillSession, EnableSession, CountSession,
       RefSession, UncountSession, UnrefSession, DisableSession, FreeSession,
       RegisterKeySession, RegisterErrorFunctionSession, ReadSession DEF Release, Use
<1>5. ASSUME NEW p \in Clients,
             Callback(p) \/ \E kind \in {"secure", "plain", "child"} : Fork(p, kind)
      PROVE  SessionOK'
  <2>1. ~overlapped
    BY <1>5 DEF Callback, Fork
  <2>2. QED
    BY <1>1, <1>5, <2>1, CallbackSession, ForkSession DEF ForkKinds
<1>6. ASSUME \/ OtherForks
             \/ Callback(Other)
             \/ \E kind \in {"secure", "plain", "child"} : Fork(Other, kind)
      PROVE  SessionOK'
  BY <1>1, <1>6, OtherSession DEF ForkKinds
<1>7. ASSUME LoadStep \/ LoadFails PROVE SessionOK'
  BY <1>1, <1>7, LoadingSession
<1>10. ASSUME Rmmod \/ UnloadStep \/ Unloaded PROVE SessionOK'
  BY <1>1, <1>10, UnloadingSession
<1>11. ASSUME NEW p \in Clients, Stray(p) PROVE FALSE
  BY <1>1, <1>11, NotGone
<1>8. ASSUME UNCHANGED vars PROVE SessionOK'
  BY <1>1, <1>8, NoneActs DEF vars
<1>9. QED
  BY <1>2, <1>3, <1>4, <1>5, <1>6, <1>7, <1>8, <1>10, <1>11 DEF Next, Open, Processes

\* While the probe is on, a client that has the device owns pinfo.
LEMMA ProbedOwns ==
    ASSUME TypeOK, CodeOK, LoadingOK, NEW p \in Clients, Active(p), Good(p), probe
    PROVE  Owns(p)
<1>1. driver = "challenge"
  BY DEF TypeOK, LoadingOK
<1>2. CASE InCall(p)
  <2>1. StepOf(p) \in {"alloc", "fill", "enable", "count", "ref", "uncount", "unref",
                      "disable", "free", "gone"}
        /\ Where(p) = StepOf(p)
    BY <1>2 DEF InCall, StepOf, Where
  <2>2. QED
    BY <1>1, <2>1 DEF Good, Filled
<1>3. CASE ~InCall(p)
  <2>1. Where(p) \in {"regfn", "regkey"} \cup ForkKinds
    BY <1>1, <1>3, CountedBetween
  <2>2. QED
    BY <2>1 DEF Good, Filled
<1>4. QED
  BY <1>2, <1>3

\* A client that uses pinfo owns it, or fills it in; who else does is Other, in
\* a callback that has outlived the probe.
LEMMA PinfoStep == IInv /\ [Next]_vars => PinfoIsGood'
<1> SUFFICES ASSUME IInv, [Next]_vars, ~overlapped' PROVE PinfoIsGood'
  BY DEF PinfoIsGood
<1>1. /\ TypeOK /\ CodeOK /\ LoadingOK /\ SessionOK /\ driver' = driver
  BY DriverFixed DEF IInv
<1>2. CASE misused' = misused /\ Alive
  BY <1>2 DEF Alive, PinfoIsGood
<1>7. CASE UNCHANGED vars
  BY <1>7 DEF vars, module, device, IInv, PinfoIsGood
<1>3. ASSUME NEW p \in Clients,
             \/ Fill(p) \/ FreePinfo(p)
             \/ RegisterKey(p) \/ RegisterErrorFunction(p) \/ Read(p)
      PROVE  PinfoIsGood'
  <2>1. ~overlapped
    BY <1>3 DEF Fill, FreePinfo, RegisterKey, RegisterErrorFunction, Read
  <2>2. misused' = misused
    BY <1>1, <1>3, <2>1, FillSession, FreeSession, RegisterKeySession,
       RegisterErrorFunctionSession, ReadSession
  <2>3. QED
    BY <1>2, <1>3, <2>2 DEF Fill, FreePinfo, RegisterKey, RegisterErrorFunction, Read, At
<1>4. ASSUME NEW p \in Clients, Callback(p) PROVE PinfoIsGood'
  <2>1. ~overlapped
    BY <1>4 DEF Callback
  <2>2. misused' = misused
    BY <1>1, <1>4, <2>1, CallbackSession
  <2>3. QED
    BY <1>2, <1>4, <2>2 DEF Callback, At
<1>5. CASE Callback(Other)
  <2>1. ~overlapped /\ Alive /\ UNCHANGED <<probe, loading>>
    BY <1>5 DEF Callback, At, module, device
  <2>2. CASE Pinfo.state = "set"
    BY <1>2, <1>5, <2>1, <2>2 DEF Callback, Using
  <2>3. CASE Pinfo.state # "set"
    <3>1. misused' = {Other}
      BY <1>5, <2>3 DEF Callback, Using
    <3>2. ASSUME NEW p \in Clients, Active(p) PROVE ~probe
      <4>1. Good(p)
        BY <1>1, <2>1, <3>2 DEF SessionOK
      <4>2. probe => Owns(p)
        BY <1>1, <3>2, <4>1, ProbedOwns
      <4>3. ~Owns(p)
        BY <2>3, SthreadsAssumption DEF Owns, Pinfo
      <4>4. QED
        BY <4>2, <4>3
    <3>3. ~probe \/ loading # <<>>
      BY <1>1, <2>1, <3>2 DEF SessionOK, Unused
    <3>4. QED
      BY <2>1, <3>1, <3>3 DEF PinfoIsGood
  <2>4. QED
    BY <2>2, <2>3
<1>8. ASSUME NEW p \in Clients, Stray(p) PROVE FALSE
  BY <1>1, <1>8, NotGone
<1>6. QED
  BY <1>2, <1>3, <1>4, <1>5, <1>7, <1>8
  DEF Next, LoadStep, LoadFails, Rmmod, UnloadStep, Unloaded, OtherForks, Start, Open,
      Test, Allocate, Enable, Count, Ref, Release, Uncount, Unref, Disable, Use, Fork,
      Processes, At

\* Only a read, a fork without the probe and a callback are looked at.
LEMMA ServedStep == IInv /\ [Next]_vars => ClientIsServed'
<1> SUFFICES ASSUME IInv, [Next]_vars, ~overlapped' PROVE ClientIsServed'
  BY DEF ClientIsServed
<1>1. /\ TypeOK /\ CodeOK /\ PidsOK /\ LoadingOK /\ SessionOK /\ driver' = driver
      /\ ClientIsServed
  BY DriverFixed DEF IInv
<1>2. CASE last' = Nothing
  BY <1>2 DEF ClientIsServed, Nothing
<1>3. ASSUME NEW p \in Clients, Read(p) PROVE ClientIsServed'
  <2>1. ~overlapped /\ key' = key
        /\ last' = [proc |-> p, kind |-> "read", diverted |-> FALSE, fields |-> Pinfo]
    BY <1>3 DEF Read
  <2>2. Pinfo.pid = p /\ (Pinfo.callback => Pinfo.key = key[p])
    BY <1>1, <1>3, <2>1, ReadSession
  <2>3. QED
    BY <2>1, <2>2 DEF ClientIsServed
<1>4. ASSUME NEW p \in Processes, NEW kind \in {"secure", "plain", "child"}, Fork(p, kind)
      PROVE  ClientIsServed'
  <2>1. CASE probe
    BY <1>2, <1>4, <2>1 DEF Fork
  <2>2. CASE ~probe
    <3>1. last'.kind = kind /\ last'.diverted = FALSE /\ last'.proc = p /\ kind # "read"
          /\ made' = made /\ ~overlapped
      BY <1>4, <2>2 DEF Fork, Forked, module
    <3>2. CASE p = Other
      BY <3>1, <3>2 DEF ClientIsServed
    <3>3. CASE p \in Clients
      <4>1. /\ At(p, kind) /\ StepOf(p) = kind /\ Where(p) = kind
        BY <1>1, <1>4, <3>3, ForkStep DEF Fork, ForkKinds, TypeOK
      <4>2. Good(p)
        BY <1>1, <3>1, <3>3, <4>1, ActiveAt
      <4>3. "jprobe" \notin made
        BY <2>2, <4>1, <4>2 DEF Good, ForkKinds
      <4>4. QED
        BY <3>1, <4>3 DEF ClientIsServed
    <3>4. QED
      BY <3>2, <3>3 DEF Processes
  <2>3. QED
    BY <2>1, <2>2
<1>5. ASSUME NEW p \in Clients, Callback(p) PROVE ClientIsServed'
  <2>1. ~overlapped /\ made' = made /\ p # Other
    BY <1>5, SthreadsAssumption DEF Callback, module
  <2>2. /\ Head(Tail(code[p])) \in ForkKinds
        /\ Owns(p) /\ Pinfo = heap[pinfo] /\ heap[pinfo].callback
        /\ key[p] # None /\ heap[pinfo].key = key[p] /\ "jprobe" \in made
    BY <1>1, <1>5, <2>1, CallbackSession
  <2>3. /\ last'.kind = Head(Tail(code[p])) /\ last'.proc = p
        /\ last'.diverted = Diverts(p, Head(Tail(code[p])))
    <3>1. Forked(p, Head(Tail(code[p])), Diverts(p, Head(Tail(code[p]))))
      BY <1>5, <2>2, Zenon DEF Callback, Owns
    <3>2. QED
      BY <3>1, Zenon DEF Forked
  <2>4. Diverts(p, Head(Tail(code[p]))) <=> Head(Tail(code[p])) # "secure"
    BY <2>2 DEF Diverts, KeyFound, Owns, ForkKinds
  <2>5. QED
    BY <2>1, <2>2, <2>3, <2>4 DEF ClientIsServed, ForkKinds
<1>6. CASE Callback(Other)
  <2>1. CASE Pinfo.state # "set"
    BY <1>2, <1>6, <2>1 DEF Callback, Silent
  <2>2. CASE Pinfo.state = "set"
    <3>1. Pinfo = heap[pinfo] /\ heap[pinfo].pid # Other
      BY <1>1, <2>2, PinfoFacts, SthreadsAssumption DEF PidsOK
    <3>2. /\ last'.kind = Head(Tail(code[Other])) /\ last'.proc = Other
          /\ last'.diverted = Diverts(Other, Head(Tail(code[Other])))
      <4>1. Forked(Other, Head(Tail(code[Other])), Diverts(Other, Head(Tail(code[Other]))))
        BY <1>6, <2>2, Zenon DEF Callback
      <4>2. QED
        BY <4>1, Zenon DEF Forked
    <3>3. ~last'.diverted
      BY <3>1, <3>2 DEF Diverts
    <3>4. last'.kind \in ForkKinds
      <4>1. PICK k \in ForkKinds : code[Other] \in {<<k>>, <<"callback", k>>}
        BY <1>1, <1>6 DEF Callback, At, CodeOK
      <4>2. code[Other] = <<"callback", k>>
        BY <1>6, <4>1 DEF Callback, At, ForkKinds
      <4>3. QED
        BY <3>2, <4>1, <4>2
    <3>5. QED
      BY <3>2, <3>3, <3>4 DEF ClientIsServed, ForkKinds
  <2>3. QED
    BY <2>1, <2>2
<1>7. CASE UNCHANGED vars
  BY <1>1, <1>7 DEF vars, module, ClientIsServed
<1>8. QED
  BY <1>2, <1>3, <1>4, <1>5, <1>6, <1>7
  DEF Next, LoadStep, LoadFails, Rmmod, UnloadStep, Unloaded, Stray, OtherForks, Start,
      Open, Release, Test, Allocate, Fill, Enable, Count, Ref, Uncount, Unref, Disable,
      FreePinfo, Use, RegisterKey, RegisterErrorFunction, Silent, Processes

\* The inductive invariant holds in every state: what follows what in the code
\* of a client, and what the device looks like at each step of the one client
\* in demo_open, in its session or in demo_release, unless calls overlap.
THEOREM Invariance == Spec => []IInv
<1>1. IInv /\ [Next]_vars => IInv'
  BY TypeStep, CodeStep, PidsStep, LoadingStep, SessionStep, PinfoStep, ServedStep DEF IInv
<1>2. QED
  BY InitInv, <1>1, PTL DEF Spec

\* Unless calls of demo_open, demo_release, the loading and the unloading overlap,
\* a session has the device to itself (pinfo names it, it is counted once, the
\* probe is on) and is not unloaded, and when nobody uses the module it can be
\* opened and unloaded again.
THEOREM SessionsAreWhole == Spec => []SessionIsWhole
<1>1. IInv => SessionIsWhole
  <2> SUFFICES ASSUME IInv, ~overlapped PROVE SessionIsWhole
    BY DEF SessionIsWhole
  <2> USE DEF IInv
  <2>1. ASSUME NEW p \in Clients, InSession(p)
        PROVE  /\ Pinfo.state = "set" /\ Pinfo.pid = p
               /\ device_opened = 1 /\ refs = 1 /\ unloading = <<>>
               /\ driver = "challenge" => probe = ("jprobe" \in made)
    <3>1. code[p] # <<>> /\ StepOf(p) = Head(code[p]) /\ ~InCall(p) /\ StepOf(p) # "test"
      BY <2>1 DEF InSession, StepOf, Opening
    <3>2. StepOf(p) # "idle"
      BY <3>1, NotIdle
    <3>3. Active(p) /\ Good(p) /\ unloading = <<>>
      BY <3>1, <3>2 DEF SessionOK, Active
    <3>6. /\ Where(p) \in Counted /\ Where(p) \in Referenced
          /\ \/ driver = "challenge" /\ Where(p) \in {"regfn", "regkey"} \cup ForkKinds
             \/ driver = "basic" /\ Where(p) \in {"regfn", "regkey", "read"}
      BY <3>1, <3>3, CountedBetween DEF TypeOK
    <3>4. Good(p)
      BY <3>3
    <3>7. Owns(p) /\ device_opened = 1 /\ refs = 1
      BY <3>4, <3>6 DEF Good, Filled
    <3>8. driver = "challenge" => probe = ("jprobe" \in made)
      <4>1. CASE driver = "challenge"
        <5>1. probe <=> "jprobe" \in made
          BY <3>4, <3>6, <4>1 DEF Good
        <5>2. probe \in BOOLEAN
          BY DEF TypeOK
        <5>3. ("jprobe" \in made) \in BOOLEAN
          BY SMT
        <5>4. QED
          BY <5>1, <5>2, <5>3, Zenon
      <4>2. QED
        BY <4>1
    <3>9. QED
      BY <3>3, <3>7, <3>8, SthreadsAssumption DEF Owns, Pinfo
  <2>2. ASSUME loading = <<>>, \A p \in Clients : code[p] = <<>>
        PROVE  /\ ~probe /\ refs = device_opened
               /\ \/ device_opened = 0
                  \/ driver = "basic" /\ device_opened = 1 /\ pinfo = None
    <3>1. \A p \in Clients : ~Active(p)
      BY <2>2 DEF Active, StepOf
    <3>2. QED
      BY <2>2, <3>1 DEF SessionOK, Unused
  <2>3. QED
    BY <2>1, <2>2 DEF SessionIsWhole
<1>2. QED
  BY Invariance, <1>1, PTL

\* Unless calls overlap, rmmod never frees code that a client is still to run;
\* do_read, do_write, do_release and the callback of a client never use pinfo when
\* it is null, free or not yet filled in; and the callback of a stranger only when
\* it has outlived the probe, or in the loading.
THEOREM PinfoAlwaysGood == Spec => []PinfoIsGood
<1>1. IInv => PinfoIsGood
  BY DEF IInv
<1>2. QED
  BY Invariance, <1>1, PTL

\* Unless calls overlap, fork_callback lets the threads of the secure manager
\* run and diverts all else the client starts, and nobody else is disturbed.
THEOREM ClientAlwaysServed == Spec => []ClientIsServed
<1>1. IInv => ClientIsServed
  BY DEF IInv
<1>2. QED
  BY Invariance, <1>1, PTL

=============================================================================
