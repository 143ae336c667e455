------------------------- MODULE LightStreamProofs -------------------------
(***************************************************************************)
(* Theorems about LightStream, for every number of streams and threads,    *)
(* every ring depth and every budget of messages.                          *)
(***************************************************************************)
EXTENDS LightStream, FiniteSetTheorems, SequenceTheorems, TLAPS

USE NStreamsAssumption, DepthAssumption, BudgetAssumption, PollsAssumption,
    ThreadsAssumption, MessageAssumption

-----------------------------------------------------------------------------
(* Positions in a ring. *)

LEMMA DivMod == ASSUME NEW a \in Nat, NEW d \in Nat \ {0}
                PROVE  /\ a \div d \in Int
                       /\ a % d \in 0..(d - 1)
                       /\ a = d * (a \div d) + (a % d)
  OBVIOUS

LEMMA ModRange == ASSUME NEW a \in Nat, NEW d \in Nat \ {0}
                  PROVE  a % d \in 0..(d - 1) /\ (a < d => a % d = a)
  OBVIOUS

\* Two ways to write a number with remainders below d agree on the remainder.
LEMMA OneRemainder ==
  ASSUME NEW d \in Nat \ {0}, NEW p \in Int, NEW q \in Int,
         NEW r \in 0..(d - 1), NEW s \in 0..(d - 1), d * p + r = d * q + s
  PROVE  r = s
  BY Z3

\* Going once around the ring comes back to the same slot.
LEMMA ModWrap == ASSUME NEW a \in Nat, NEW d \in Nat \ {0}
                 PROVE  (a + d) % d = a % d
<1> DEFINE p == a \div d  q == (a + d) \div d
<1>1. p \in Int /\ a % d \in 0..(d - 1) /\ a = d * p + (a % d)
  BY DivMod
<1>2. q \in Int /\ (a + d) % d \in 0..(d - 1) /\ a + d = d * q + ((a + d) % d)
  BY DivMod
<1> HIDE DEF p, q
<1>3. d * (p + 1) = d * p + d
  BY <1>1
<1>4. d * (p + 1) + (a % d) = d * q + ((a + d) % d)
  BY <1>1, <1>2, <1>3
<1>5. ASSUME NEW u \in Int, d * u + (a % d) = d * q + ((a + d) % d)
      PROVE  a % d = (a + d) % d
  BY <1>1, <1>2, <1>5, OneRemainder
<1>6. p + 1 \in Int
  BY <1>1
<1> DEFINE u == p + 1
<1>7. u \in Int /\ d * u + (a % d) = d * q + ((a + d) % d)
  BY <1>4, <1>6
<1> HIDE DEF u
<1> QED
  BY <1>5, <1>7

\* Less than once around never does.
LEMMA ModDistinct == ASSUME NEW a \in Nat, NEW b \in Nat, NEW d \in Nat \ {0},
                            a < b, b - a < d
                     PROVE  a % d # b % d
<1> DEFINE p == a \div d  q == b \div d
<1>1. p \in Int /\ a % d \in 0..(d - 1) /\ a = d * p + (a % d)
  BY DivMod
<1>2. q \in Int /\ b % d \in 0..(d - 1) /\ b = d * q + (b % d)
  BY DivMod
<1> HIDE DEF p, q
<1> SUFFICES ASSUME a % d = b % d PROVE FALSE
  OBVIOUS
<1>3. d * (q - p) = b - a
  BY <1>1, <1>2
<1>4. CASE q - p <= 0
  BY <1>1, <1>2, <1>3, <1>4, Z3
<1>5. CASE q - p >= 1
  BY <1>1, <1>2, <1>3, <1>5, Z3
<1> QED
  BY <1>1, <1>2, <1>4, <1>5

LEMMA DepthPositive == Depth \in Nat \ {0}
  OBVIOUS

LEMMA NextSlotType == ASSUME NEW h \in Slots PROVE NextSlot(h) \in Slots
<1>1. h + 1 \in Nat
  BY DEF Slots
<1> QED
  BY <1>1, ModRange, DepthPositive DEF NextSlot, Slots

\* A claim moves head and count together, so the queued messages keep their places ...
LEMMA ClaimKeepsPlaces ==
  ASSUME NEW h \in Slots, NEW c \in 0..(Depth - 1), NEW i \in 1..c
  PROVE  (Depth + (NextSlot(h) - (c + 1)) + (i - 1)) % Depth
           = (Depth + (h - c) + (i - 1)) % Depth
<1>1. CASE h + 1 < Depth
  <2>1. NextSlot(h) = h + 1
    BY <1>1 DEF NextSlot, Slots
  <2> QED
    BY <2>1 DEF Slots
<1>2. CASE h + 1 = Depth
  <2>1. NextSlot(h) = 0
    BY <1>2 DEF NextSlot, Slots
  <2> DEFINE a == Depth - (c + 1) + (i - 1)
  <2>2. a \in Nat /\ Depth + (0 - (c + 1)) + (i - 1) = a /\ Depth + (h - c) + (i - 1) = a + Depth
    BY <1>2 DEF Slots
  <2> HIDE DEF a
  <2>3. (a + Depth) % Depth = a % Depth
    BY <2>2, ModWrap, DepthPositive
  <2> QED
    BY <2>1, <2>2, <2>3
<1> QED
  BY <1>1, <1>2 DEF Slots

\* ... and the claimed slot is the place after them.
LEMMA ClaimTakesLastPlace ==
  ASSUME NEW h \in Slots, NEW c \in 0..(Depth - 1)
  PROVE  (Depth + (NextSlot(h) - (c + 1)) + ((c + 1) - 1)) % Depth = h
<1>1. CASE h + 1 < Depth
  <2>1. NextSlot(h) = h + 1
    BY <1>1 DEF NextSlot, Slots
  <2>a. h \in Nat /\ h < Depth
    BY DEF Slots
  <2>b. (h + Depth) % Depth = h % Depth
    BY <2>a, ModWrap, DepthPositive
  <2>2. (h + Depth) % Depth = h
    BY <2>a, <2>b, ModRange, DepthPositive
  <2>3. Depth + ((h + 1) - (c + 1)) + ((c + 1) - 1) = h + Depth
    BY DEF Slots
  <2> QED
    BY <2>1, <2>2, <2>3
<1>2. CASE h + 1 = Depth
  <2>1. NextSlot(h) = 0
    BY <1>2 DEF NextSlot, Slots
  <2>2. Depth + (0 - (c + 1)) + ((c + 1) - 1) = h /\ h % Depth = h
    BY <1>2 DEF Slots
  <2> QED
    BY <2>1, <2>2
<1> QED
  BY <1>1, <1>2 DEF Slots

\* Different places of one ring are different slots.
LEMMA PlacesDiffer ==
  ASSUME NEW h \in Slots, NEW c \in 0..Depth, NEW i \in 1..c, NEW j \in 1..c, i # j
  PROVE  (Depth + (h - c) + (i - 1)) % Depth # (Depth + (h - c) + (j - 1)) % Depth
<1> DEFINE a == Depth + (h - c) + (i - 1)
           b == Depth + (h - c) + (j - 1)
<1>1. a \in Nat /\ b \in Nat /\ a - b = i - j
  BY DEF Slots
<1> HIDE DEF a, b
<1>2. a % Depth # b % Depth
  <2>1. ASSUME a < b PROVE a % Depth # b % Depth
    <3>1. b - a < Depth
      BY <1>1
    <3> QED
      BY <1>1, <2>1, <3>1, ModDistinct, DepthPositive
  <2>2. ASSUME b < a PROVE a % Depth # b % Depth
    <3>1. a - b < Depth
      BY <1>1
    <3> QED
      BY <1>1, <2>2, <3>1, ModDistinct, DepthPositive
  <2> QED
    BY <1>1, <2>1, <2>2
<1> QED
  BY <1>2 DEF a, b

-----------------------------------------------------------------------------
(* The inductive invariant.                                                *)

\* A stream's lock is held exactly by the thread between its claim and its fill, or
\* inside a synchronous handler.
LockInv ==
  \A s \in Streams, t \in Threads :
    lock[s] = t <=> pc[t] \in {"fill", "sync"} /\ stream[t] = s

\* A thread inside a call has a message left to send; light_fatal() sends one more.
Sending   == {"fill", "wait", "woken", "sync"}
Limit(t)  == IF t = Main /\ fatal THEN Budget + 1 ELSE Budget
BudgetInv ==
  /\ \A t \in Threads : sent[t] <= Limit(t) /\ (pc[t] \in Sending => sent[t] < Limit(t))
  /\ pc[Main] \in {"setup", "handshake", "idle", "sync"} => ~fatal

\* The worker's loop variable names a stream whenever it is used as one.
WorkerInv ==
  /\ wpc \in {"lock", "write"} => wi \in Streams
  /\ pc[Main] # "aborted" => polls < FlushPolls
  /\ pc[Main] = "setup" => wpc = "unborn"

\* Messages whose call got as far as the ring or the handler.
Handed == {m \in Messages : m[2] <= sent[m[1]]}

\* A filling thread owns the last place of its ring; every other queued place, the
\* worker's copy and the output hold messages that were handed over.
RingInv ==
  /\ \A t \in Threads : pc[t] = "fill" =>
       /\ count[stream[t]] >= 1
       /\ index[t] = Place(stream[t], count[stream[t]])
  /\ \A s \in Streams : \A i \in 1..Ready(s) : slot[s][Place(s, i)] \in Handed

DrainInv ==
  /\ wpc = "write" => text \in Handed
  /\ \A s \in Streams : \A i \in 1..Len(out[s]) : out[s][i] \in Handed

Inv == TypeOK /\ LockInv /\ BudgetInv /\ WorkerInv /\ RingInv /\ DrainInv

-----------------------------------------------------------------------------
(* Type correctness. *)

LEMMA InitTypes == Init => TypeOK
<1> SUFFICES ASSUME Init PROVE TypeOK
  OBVIOUS
<1>1. RingTypes
  BY DEF Init, RingTypes, Streams, Slots
<1>2. CallTypes
  BY DEF Init, CallTypes, ThreadStates, Streams, Slots, Threads
<1>3. WorkerTypes /\ StopTypes
  BY DEF Init, WorkerTypes, StopTypes
<1>4. OutTypes
  BY DEF Init, OutTypes
<1>5. FlagTypes
  BY DEF Init, FlagTypes
<1> QED
  BY <1>1, <1>2, <1>3, <1>4, <1>5 DEF TypeOK

\* What each action leaves alone, grouped the way the invariants need it.
LEMMA FrameRing ==
  ASSUME LaunchWorker \/ WorkerOnline \/ SetupDone \/ Shutdown \/ Joined \/ FlushScan
         \/ FlushNap \/ WorkerTest \/ WorkerScan \/ WorkerSweep \/ WorkerWrite
         \/ (\E t \in Threads : SpuriousWakeup(t)) \/ Over \/ UNCHANGED vars
  PROVE  UNCHANGED <<lock, count, head, slot, stream, index, sent>>
<1> QED
  BY DEF LaunchWorker, WorkerOnline, SetupDone, Shutdown, Joined, FlushScan, FlushNap,
         WorkerTest, WorkerScan, WorkerSweep, WorkerWrite, SpuriousWakeup, Over, vars,
         ringVars, callVars

LEMMA RingTypesStep ==
  ASSUME Inv, [Next]_vars PROVE RingTypes'
<1> USE DEF Inv, TypeOK
<1>1. ASSUME NEW t \in Threads, NEW s \in Streams, Put(t, s) PROVE RingTypes'
  <2>1. CASE Claim(t, s)
    <3>1. count[s] + 1 \in 0..Depth
      BY <2>1 DEF Claim, RingTypes
    <3>2. NextSlot(head[s]) \in Slots
      BY NextSlotType DEF RingTypes
    <3> QED
      BY <1>1, <2>1, <3>1, <3>2 DEF Put, Claim, RingTypes
  <2>2. CASE AwaitRoom(t, s)
    BY <1>1, <2>2 DEF Put, AwaitRoom, RingTypes
  <2> QED
    BY <1>1, <2>1, <2>2 DEF Put
<1>2. ASSUME NEW t \in Threads, Fill(t) PROVE RingTypes'
  BY <1>2 DEF RingTypes, Fill, Message, Messages, CallTypes, BudgetInv, Limit, Sending
<1>3. ASSUME NEW t \in Threads, NEW s \in Streams, SyncEnter(t, s) PROVE RingTypes'
  BY <1>3 DEF RingTypes, SyncEnter
<1>4. ASSUME NEW t \in Threads, SyncWrite(t) PROVE RingTypes'
  BY <1>4 DEF RingTypes, SyncWrite, CallTypes
<1>5. ASSUME WorkerTake PROVE RingTypes'
  <2>1. CASE count[wi] = 0
    BY <1>5, <2>1 DEF RingTypes, WorkerTake
  <2>2. CASE count[wi] # 0
    <3>1. wi \in Streams
      BY <1>5 DEF WorkerTake, WorkerInv
    <3>2. count[wi] \in 0..Depth
      BY <3>1 DEF RingTypes
    <3>3. count[wi] - 1 \in 0..Depth
      BY <2>2, <3>2
    <3> QED
      BY <1>5, <2>2, <3>1, <3>3 DEF RingTypes, WorkerTake
  <2> QED
    BY <2>1, <2>2
<1>6. CASE UNCHANGED <<lock, count, head, slot>>
  BY <1>6 DEF RingTypes
<1> QED
  BY <1>1, <1>2, <1>3, <1>4, <1>5, <1>6, FrameRing
  DEF Next, Worker, MainThread, Logging, Queue, Resume, Fatal, Threads, Stderr, Streams, CallTypes

LEMMA CallTypesStep ==
  ASSUME Inv, [Next]_vars PROVE CallTypes'
<1> USE DEF Inv, TypeOK
<1>1. ASSUME NEW t \in Threads, NEW s \in Streams, Put(t, s) PROVE CallTypes'
  <2>1. CASE Claim(t, s)
    BY <1>1, <2>1 DEF Put, Claim, CallTypes, RingTypes, ThreadStates, Threads
  <2>2. CASE AwaitRoom(t, s)
    BY <1>1, <2>2 DEF Put, AwaitRoom, CallTypes, ThreadStates, Threads
  <2> QED
    BY <1>1, <2>1, <2>2 DEF Put
<1>2. ASSUME NEW t \in Threads, Fill(t) \/ SyncWrite(t) PROVE CallTypes'
  <2>1. sent[t] + 1 \in 0..(Budget + 1)
    BY <1>2 DEF Fill, SyncWrite, CallTypes, BudgetInv, Limit, Sending
  <2>2. ASSUME Fill(t) PROVE CallTypes'
    BY <2>1, <2>2 DEF Fill, CallTypes, ThreadStates, Threads
  <2>3. ASSUME SyncWrite(t) PROVE CallTypes'
    BY <2>1, <2>3 DEF SyncWrite, CallTypes, ThreadStates, Threads
  <2> QED
    BY <1>2, <2>2, <2>3
<1>3. ASSUME NEW t \in Threads, NEW s \in Streams, SyncEnter(t, s) PROVE CallTypes'
  BY <1>3 DEF CallTypes, SyncEnter, ThreadStates, Threads
<1>4. ASSUME NEW t \in Threads, SpuriousWakeup(t) PROVE CallTypes'
  BY <1>4 DEF CallTypes, SpuriousWakeup, callVars, ThreadStates, Threads
<1>5. ASSUME WorkerTake PROVE CallTypes'
  BY <1>5 DEF CallTypes, WorkerTake, Signal, Waiters, callVars, ThreadStates, Threads
<1>6. ASSUME LaunchWorker \/ SetupDone \/ Shutdown \/ Joined \/ FlushScan \/ FlushNap
      PROVE  CallTypes'
  BY <1>6 DEF CallTypes, LaunchWorker, SetupDone, Shutdown, Joined, FlushScan, FlushNap,
     Abort, callVars, ThreadStates, Threads
<1>7. CASE UNCHANGED <<pc, callVars>>
  BY <1>7 DEF CallTypes, callVars
<1>8. ASSUME WorkerOnline \/ WorkerTest \/ WorkerScan \/ WorkerSweep \/ WorkerWrite
             \/ Over \/ UNCHANGED vars
      PROVE  UNCHANGED <<pc, callVars>>
  BY <1>8 DEF WorkerOnline, WorkerTest, WorkerScan, WorkerSweep, WorkerWrite, Over, vars,
     callVars
<1> QED
  BY <1>1, <1>2, <1>3, <1>4, <1>5, <1>6, <1>7, <1>8
  DEF Next, Worker, MainThread, Logging, Queue, Resume, Fatal, Threads, Stderr, Streams, CallTypes

\* A ring whose lock is free has no claimed slot outstanding.
LEMMA UnlockedReady ==
  ASSUME Inv, NEW s \in Streams, lock[s] = NoOne
  PROVE  Ready(s) = count[s] /\ Filling(s) = {}
<1>1. ASSUME NEW t \in Threads, pc[t] = "fill", stream[t] = s PROVE FALSE
  <2>1. lock[s] = t
    BY <1>1 DEF Inv, LockInv
  <2> QED
    BY <2>1 DEF Threads
<1>2. Filling(s) = {}
  BY <1>1 DEF Filling
<1> QED
  BY <1>2 DEF Ready

LEMMA WorkerTypesStep ==
  ASSUME Inv, [Next]_vars PROVE WorkerTypes'
<1> USE DEF Inv, TypeOK
<1>1. ASSUME WorkerTake PROVE WorkerTypes'
  <2>1. wi \in Streams /\ wi + 1 \in 1..(NStreams + 1)
    BY <1>1 DEF WorkerTake, WorkerInv, Streams
  <2>2. CASE count[wi] = 0
    BY <1>1, <2>1, <2>2 DEF WorkerTake, At, WorkerTypes
  <2>3. CASE count[wi] # 0
    <3>1. Ready(wi) = count[wi]
      BY <1>1, <2>1, UnlockedReady DEF WorkerTake
    <3>2. count[wi] \in 1..Depth /\ head[wi] \in Slots
      BY <2>1, <2>3 DEF RingTypes
    <3>3. Oldest(wi) = Place(wi, 1)
      BY <3>2 DEF Oldest, Place, Slots
    <3>4. slot[wi][Oldest(wi)] \in Messages
      BY <2>1, <3>1, <3>2, <3>3 DEF RingInv, Handed
    <3> QED
      BY <1>1, <2>1, <2>3, <3>4 DEF WorkerTake, At, WorkerTypes
  <2> QED
    BY <2>2, <2>3
<1>2. ASSUME WorkerScan \/ WorkerSweep PROVE WorkerTypes'
  BY <1>2 DEF WorkerScan, WorkerSweep, At, WorkerTypes
<1>3. ASSUME WorkerOnline \/ WorkerTest \/ LaunchWorker PROVE WorkerTypes'
  BY <1>3 DEF WorkerOnline, WorkerTest, LaunchWorker, At, WorkerTypes
<1>4. ASSUME WorkerWrite PROVE WorkerTypes'
  BY <1>4 DEF WorkerWrite, At, WorkerTypes, WorkerInv, Streams
<1>5. CASE UNCHANGED workerVars
  BY <1>5 DEF workerVars, WorkerTypes
<1>6. ASSUME (\E t \in Threads : Logging(t)) \/ SetupDone \/ Shutdown \/ Joined \/ Fatal
             \/ FlushScan \/ FlushNap \/ Over \/ UNCHANGED vars
      PROVE  UNCHANGED workerVars
  BY <1>6 DEF Logging, Queue, SyncEnter, Resume, SpuriousWakeup, Fill, SyncWrite, Put,
     SetupDone, Shutdown, Joined, Fatal, FlushScan, FlushNap, Over, vars, workerVars
<1> QED
  BY <1>1, <1>2, <1>3, <1>4, <1>5, <1>6 DEF Next, Worker, MainThread

LEMMA OutTypesStep ==
  ASSUME Inv, [Next]_vars PROVE OutTypes'
<1> USE DEF Inv, TypeOK
<1>1. ASSUME NEW t \in Threads, SyncWrite(t) PROVE OutTypes'
  <2>1. Message(t) \in Messages /\ stream[t] \in Streams
    BY <1>1 DEF SyncWrite, Message, Messages, CallTypes, BudgetInv, Limit, Sending
  <2> QED
    BY <1>1, <2>1 DEF SyncWrite, OutTypes
<1>2. ASSUME WorkerWrite PROVE OutTypes'
  <2>1. wi \in Streams /\ text \in Messages
    BY <1>2 DEF WorkerWrite, WorkerInv, DrainInv, Handed
  <2> QED
    BY <1>2, <2>1 DEF WorkerWrite, OutTypes
<1>3. CASE UNCHANGED out
  BY <1>3 DEF OutTypes
<1>4. ASSUME LaunchWorker \/ WorkerOnline \/ SetupDone \/ Shutdown \/ Joined \/ Fatal
             \/ FlushScan \/ FlushNap \/ WorkerTest \/ WorkerScan \/ WorkerSweep \/ WorkerTake
             \/ Over \/ UNCHANGED vars
      PROVE  UNCHANGED out
  BY <1>4 DEF LaunchWorker, WorkerOnline, SetupDone, Shutdown, Joined, Fatal, FlushScan,
     FlushNap, WorkerTest, WorkerScan, WorkerSweep, WorkerTake, Over, Put, vars
<1>5. ASSUME NEW t \in Threads, Logging(t), ~SyncWrite(t) PROVE UNCHANGED out
  BY <1>5 DEF Logging, Queue, SyncEnter, Resume, SpuriousWakeup, Fill, Put
<1> QED
  BY <1>1, <1>2, <1>3, <1>4, <1>5 DEF Next, Worker, MainThread

LEMMA StopTypesStep ==
  ASSUME Inv, [Next]_vars PROVE StopTypes' /\ FlagTypes'
<1> USE DEF Inv, TypeOK
<1>1. ASSUME Shutdown PROVE StopTypes'
  BY <1>1 DEF Shutdown, StopTypes, CallTypes, flushVars
<1>2. ASSUME FlushScan \/ FlushNap PROVE StopTypes'
  BY <1>2 DEF FlushScan, FlushNap, StopTypes, stopVars, WorkerInv
<1>3. ASSUME (\E t \in Threads : Logging(t)) \/ Worker \/ SetupDone \/ Joined \/ Fatal
             \/ LaunchWorker \/ Over \/ UNCHANGED vars
      PROVE  UNCHANGED <<stop, owed, fi, polls, drained>>
  BY <1>3 DEF Logging, Queue, SyncEnter, Resume, SpuriousWakeup, Fill, SyncWrite, Put,
     Worker, WorkerOnline, WorkerTest, WorkerScan, WorkerSweep, WorkerTake, WorkerWrite,
     SetupDone, Joined, Fatal, LaunchWorker, Over, vars, stopVars, flushVars
<1>4. ASSUME UNCHANGED <<stop, owed, fi, polls, drained>> PROVE StopTypes'
  BY <1>4 DEF StopTypes
<1>5. stop' \in {stop, TRUE} /\ drained' \in {drained, TRUE} /\ fatal' \in {fatal, TRUE}
  BY DEF Next, MainThread, Logging, Queue, SyncEnter, Resume, SpuriousWakeup, Fill, SyncWrite, Put,
     Worker, WorkerOnline, WorkerTest, WorkerScan, WorkerSweep, WorkerTake, WorkerWrite,
     SetupDone, Joined, Fatal, LaunchWorker, Shutdown, FlushScan, FlushNap, Over, vars,
     stopVars, flushVars
<1>6. FlagTypes'
  BY <1>5 DEF FlagTypes
<1>7. StopTypes'
  BY <1>1, <1>2, <1>3, <1>4 DEF Next, MainThread
<1> QED
  BY <1>6, <1>7

-----------------------------------------------------------------------------
(* The lock, the budget and the worker's loop variable. *)

LEMMA LockInvStep ==
  ASSUME Inv, [Next]_vars PROVE LockInv'
<1> USE DEF Inv, TypeOK
<1>0. NoOne \notin Threads
  BY DEF Threads
<1>1. ASSUME NEW t \in Threads, NEW s \in Streams, Put(t, s), pc[t] \notin {"fill", "sync"}
      PROVE  LockInv'
  <2>1. CASE Claim(t, s)
    BY <1>0, <1>1, <2>1 DEF Put, Claim, LockInv, CallTypes, RingTypes
  <2>2. CASE AwaitRoom(t, s)
    BY <1>0, <1>1, <2>2 DEF Put, AwaitRoom, LockInv, CallTypes, RingTypes
  <2> QED
    BY <1>1, <2>1, <2>2 DEF Put
<1>2. ASSUME NEW t \in Threads, Fill(t) PROVE LockInv'
  BY <1>0, <1>2 DEF Fill, LockInv, CallTypes, RingTypes
<1>3. ASSUME NEW t \in Threads, SyncWrite(t) PROVE LockInv'
  BY <1>0, <1>3 DEF SyncWrite, LockInv, CallTypes, RingTypes
<1>4. ASSUME NEW t \in Threads, NEW s \in Streams, SyncEnter(t, s) PROVE LockInv'
  BY <1>0, <1>4 DEF SyncEnter, MaySend, LockInv, CallTypes, RingTypes
<1>5. ASSUME NEW t \in Threads, SpuriousWakeup(t) PROVE LockInv'
  BY <1>5 DEF SpuriousWakeup, LockInv, CallTypes, callVars, ringVars
<1>6. ASSUME WorkerTake PROVE LockInv'
  BY <1>6 DEF WorkerTake, Signal, Waiters, LockInv, CallTypes, callVars
<1>7. ASSUME LaunchWorker \/ SetupDone \/ Shutdown \/ Joined \/ FlushScan \/ FlushNap
      PROVE  LockInv'
  BY <1>7 DEF LaunchWorker, SetupDone, Shutdown, Joined, FlushScan, FlushNap, Abort,
     LockInv, CallTypes, callVars, ringVars, Threads
<1>8. ASSUME WorkerOnline \/ WorkerTest \/ WorkerScan \/ WorkerSweep \/ WorkerWrite
             \/ Over \/ UNCHANGED vars
      PROVE  LockInv'
  BY <1>8 DEF WorkerOnline, WorkerTest, WorkerScan, WorkerSweep, WorkerWrite, Over, vars,
     LockInv, callVars, ringVars
<1>9. ASSUME NEW t \in Threads, NEW s \in Streams, Queue(t, s) PROVE LockInv'
  BY <1>1, <1>9 DEF Queue, MaySend
<1>10. ASSUME NEW t \in Threads, Resume(t) PROVE LockInv'
  BY <1>1, <1>10 DEF Resume, CallTypes
<1>11. ASSUME Fatal PROVE LockInv'
  BY <1>1, <1>11 DEF Fatal, Threads, Stderr, Streams
<1> QED
  BY <1>2, <1>3, <1>4, <1>5, <1>6, <1>7, <1>8, <1>9, <1>10, <1>11
  DEF Next, Worker, MainThread, Logging

\* No message is handed over twice or taken back.
LEMMA HandedGrows ==
  ASSUME Inv, [Next]_vars PROVE \A t \in Threads : sent'[t] >= sent[t]
<1> USE DEF Inv, TypeOK, CallTypes
<1>1. ASSUME NEW t \in Threads, Fill(t) PROVE \A u \in Threads : sent'[u] >= sent[u]
  BY <1>1 DEF Fill
<1>2. ASSUME NEW t \in Threads, SyncWrite(t) PROVE \A u \in Threads : sent'[u] >= sent[u]
  BY <1>2 DEF SyncWrite
<1>3. ASSUME NEW t \in Threads, Logging(t), ~Fill(t), ~SyncWrite(t) PROVE UNCHANGED sent
  BY <1>3 DEF Logging, Queue, SyncEnter, Resume, SpuriousWakeup, Put, callVars
<1>4. ASSUME Worker \/ MainThread \/ Over \/ UNCHANGED vars PROVE UNCHANGED sent
  BY <1>4 DEF Worker, WorkerOnline, WorkerTest, WorkerScan, WorkerSweep, WorkerTake,
     WorkerWrite, MainThread, LaunchWorker, SetupDone, Shutdown, Joined, Fatal, FlushScan,
     FlushNap, Over, Put, vars, callVars
<1>5. ASSUME UNCHANGED sent PROVE \A u \in Threads : sent'[u] >= sent[u]
  BY <1>5
<1> QED
  BY <1>1, <1>2, <1>3, <1>4, <1>5 DEF Next

LEMMA HandedMonotone ==
  ASSUME Inv, [Next]_vars PROVE Handed \subseteq Handed'
<1>1. ASSUME NEW m \in Handed PROVE m \in Handed'
  <2>1. m[1] \in Threads /\ m[2] \in Nat /\ m[2] <= sent[m[1]]
    BY <1>1 DEF Handed, Messages
  <2>2. sent'[m[1]] >= sent[m[1]]
    BY <2>1, HandedGrows
  <2>3. sent[m[1]] \in Int /\ sent'[m[1]] \in Int
    BY <2>1, CallTypesStep DEF Inv, TypeOK, CallTypes
  <2> QED
    BY <1>1, <2>1, <2>2, <2>3 DEF Handed
<1> QED
  BY <1>1

LEMMA WorkerInvStep ==
  ASSUME Inv, [Next]_vars PROVE WorkerInv'
<1> USE DEF Inv, TypeOK
<1>1. ASSUME Worker PROVE wpc' \in {"lock", "write"} => wi' \in Streams
  BY <1>1 DEF Worker, WorkerOnline, WorkerTest, WorkerScan, WorkerSweep, WorkerTake,
     WorkerWrite, At, WorkerInv, WorkerTypes, Streams
<1>2. ASSUME MainThread \/ (\E t \in Threads : Logging(t)) \/ Over \/ UNCHANGED vars
      PROVE wpc' \in {"lock", "write"} => wi' \in Streams
  BY <1>2 DEF MainThread, LaunchWorker, SetupDone, Shutdown, Joined, Fatal, FlushScan,
     FlushNap, Logging, Queue, SyncEnter, Resume, SpuriousWakeup, Fill, SyncWrite, Put, Over,
     vars, workerVars, WorkerInv
<1>3. pc'[Main] # "aborted" => polls' < FlushPolls
  <2>1. CASE FlushNap
    BY <2>1 DEF FlushNap, Abort, WorkerInv, StopTypes, CallTypes, Threads
  <2>2. ASSUME pc[Main] # "aborted", UNCHANGED polls PROVE polls' < FlushPolls
    BY <2>2 DEF WorkerInv
  <2>3. ASSUME pc[Main] = "aborted" PROVE pc'[Main] = "aborted"
    BY <2>3 DEF Next, MainThread, LaunchWorker, SetupDone, Shutdown, Joined, Fatal, FlushScan,
     FlushNap, Logging, Queue, SyncEnter, Resume, SpuriousWakeup, Fill, SyncWrite, Over,
     MaySend, Running, Worker, WorkerOnline, WorkerTest, WorkerScan, WorkerSweep, WorkerTake,
     WorkerWrite, vars
  <2>4. ASSUME ~FlushNap PROVE UNCHANGED polls
    BY <2>4 DEF Next, MainThread, LaunchWorker, SetupDone, Shutdown, Joined, Fatal, FlushScan,
     Logging, Queue, SyncEnter, Resume, SpuriousWakeup, Fill, SyncWrite, Over, Put,
     Worker, WorkerOnline, WorkerTest, WorkerScan, WorkerSweep, WorkerTake,
     WorkerWrite, vars, flushVars
  <2> QED
    BY <2>1, <2>2, <2>3, <2>4
<1>4. pc'[Main] = "setup" => wpc' = "unborn"
  <2>0. Main \in Threads
    BY DEF Threads
  <2>1. ASSUME Worker, pc'[Main] = "setup" PROVE FALSE
    <3>1. pc[Main] = "setup"
      BY <2>0, <2>1 DEF Worker, WorkerOnline, WorkerTest, WorkerScan, WorkerSweep, WorkerTake,
         WorkerWrite, Signal, Waiters, CallTypes
    <3> QED
      BY <2>1, <3>1 DEF Worker, WorkerOnline, WorkerTest, WorkerScan, WorkerSweep, WorkerTake,
         WorkerWrite, WorkerInv
  <2>2. ASSUME MainThread PROVE pc'[Main] # "setup"
    BY <2>0, <2>2 DEF MainThread, LaunchWorker, SetupDone, Shutdown, Joined, Fatal, FlushScan,
       FlushNap, Abort, Put, Claim, AwaitRoom, CallTypes
  <2>3. ASSUME NEW t \in Threads, Logging(t), pc'[Main] = "setup"
        PROVE  pc[Main] = "setup" /\ wpc' = wpc
    BY <2>0, <2>3 DEF Logging, Queue, SyncEnter, Resume, SpuriousWakeup, Fill, SyncWrite, Put,
       Claim, AwaitRoom, CallTypes, workerVars
  <2>4. ASSUME Over \/ UNCHANGED vars PROVE pc' = pc /\ wpc' = wpc
    BY <2>4 DEF Over, vars, workerVars
  <2> QED
    BY <2>1, <2>2, <2>3, <2>4 DEF Next, WorkerInv
<1> QED
  BY <1>1, <1>2, <1>3, <1>4 DEF WorkerInv, Next

LEMMA BudgetInvStep ==
  ASSUME Inv, [Next]_vars PROVE BudgetInv'
<1> USE DEF Inv, TypeOK, BudgetInv, Sending
<1>0. Main \in Threads /\ \A t \in Threads : sent[t] \in Nat
  BY DEF Threads, CallTypes
<1>1. ASSUME NEW t \in Threads, NEW s \in Streams, Put(t, s), sent[t] < Limit(t)',
             UNCHANGED fatal, t = Main => pc[t] = "woken" \/ ~fatal
      PROVE  BudgetInv'
  <2>1. CASE Claim(t, s)
    BY <1>0, <1>1, <2>1 DEF Put, Claim, Limit, CallTypes
  <2>2. CASE AwaitRoom(t, s)
    BY <1>0, <1>1, <2>2 DEF Put, AwaitRoom, Limit, CallTypes
  <2> QED
    BY <1>1, <2>1, <2>2 DEF Put
<1>2. ASSUME NEW t \in Threads, NEW s \in Streams, Queue(t, s) PROVE BudgetInv'
  BY <1>0, <1>1, <1>2 DEF Queue, MaySend, Limit
<1>3. ASSUME NEW t \in Threads, Resume(t) PROVE BudgetInv'
  BY <1>0, <1>1, <1>3 DEF Resume, Limit, CallTypes
<1>4. ASSUME Fatal PROVE BudgetInv'
  <2>1. fatal' = TRUE /\ ~fatal /\ pc[Main] \in {"idle", "setup"} /\ Put(Main, Stderr)
    BY <1>4 DEF Fatal
  <2>2. sent' = sent
    BY <2>1 DEF Put
  <2>3. sent[Main] <= Budget /\ \A t \in Threads : Limit(t)' >= Limit(t)
    BY <1>0, <2>1 DEF Limit
  <2>4. Limit(Main)' = Budget + 1
    BY <2>1 DEF Limit
  <2>5. \A t \in Threads : Limit(t) \in Int /\ Limit(t)' \in Int
    BY DEF Limit
  <2>6. ASSUME NEW t \in Threads PROVE sent'[t] <= Limit(t)'
    BY <1>0, <2>2, <2>3, <2>5
  <2>7. ASSUME NEW t \in Threads, t # Main PROVE pc'[t] = pc[t]
    BY <2>1, <2>7 DEF Put, Claim, AwaitRoom, CallTypes
  <2>8. ASSUME NEW t \in Threads, pc'[t] \in Sending PROVE sent'[t] < Limit(t)'
    <3>1. CASE t = Main
      BY <1>0, <2>2, <2>3, <2>4, <3>1
    <3>2. CASE t # Main
      BY <1>0, <2>2, <2>3, <2>5, <2>7, <2>8, <3>2
    <3> QED
      BY <3>1, <3>2
  <2>9. pc'[Main] \in {"fill", "wait"}
    BY <1>0, <2>1 DEF Put, Claim, AwaitRoom, CallTypes
  <2> QED
    BY <2>6, <2>8, <2>9
<1>5. ASSUME NEW t \in Threads, Fill(t) PROVE BudgetInv'
  BY <1>0, <1>5 DEF Fill, Limit, CallTypes, flushVars
<1>6. ASSUME NEW t \in Threads, SyncWrite(t) PROVE BudgetInv'
  BY <1>0, <1>6 DEF SyncWrite, Limit, CallTypes, flushVars
<1>7. ASSUME NEW t \in Threads, NEW s \in Streams, SyncEnter(t, s) PROVE BudgetInv'
  BY <1>0, <1>7 DEF SyncEnter, MaySend, Limit, CallTypes, flushVars
<1>8. ASSUME NEW t \in Threads, SpuriousWakeup(t) PROVE BudgetInv'
  BY <1>0, <1>8 DEF SpuriousWakeup, Limit, CallTypes, flushVars, callVars
<1>9. ASSUME WorkerTake PROVE BudgetInv'
  BY <1>0, <1>9 DEF WorkerTake, Signal, Waiters, Limit, CallTypes, flushVars, callVars
<1>10. ASSUME LaunchWorker \/ SetupDone \/ Shutdown \/ Joined PROVE BudgetInv'
  BY <1>0, <1>10 DEF LaunchWorker, SetupDone, Shutdown, Joined, Limit, CallTypes, flushVars,
     callVars
<1>11. ASSUME FlushScan \/ FlushNap PROVE BudgetInv'
  BY <1>0, <1>11 DEF FlushScan, FlushNap, Abort, Limit, CallTypes, callVars
<1>12. ASSUME WorkerOnline \/ WorkerTest \/ WorkerScan \/ WorkerSweep \/ WorkerWrite
             \/ Over \/ UNCHANGED vars
      PROVE  BudgetInv'
  BY <1>12 DEF WorkerOnline, WorkerTest, WorkerScan, WorkerSweep, WorkerWrite, Over, vars,
     Limit, callVars, flushVars
<1> QED
  BY <1>2, <1>3, <1>4, <1>5, <1>6, <1>7, <1>8, <1>9, <1>10, <1>11, <1>12
  DEF Next, Worker, MainThread, Logging

-----------------------------------------------------------------------------
(* What the rings hold. *)

\* The step leaves the rings as they are and starts or ends no fill.
RingsStand ==
  /\ UNCHANGED <<count, head, slot>>
  /\ \A t \in Threads : pc'[t] = "fill" <=> pc[t] = "fill"
  /\ \A t \in Threads : pc[t] = "fill" => stream'[t] = stream[t] /\ index'[t] = index[t]

LEMMA StandKeepsRings ==
  ASSUME Inv, [Next]_vars, RingsStand PROVE RingInv'
<1>1. \A s \in Streams : Filling(s)' = Filling(s)
  BY DEF RingsStand, Filling
<1>2. \A s \in Streams : Ready(s)' = Ready(s)
  BY <1>1 DEF RingsStand, Ready
<1>3. \A s, i : Place(s, i)' = Place(s, i)
  BY DEF RingsStand, Place
<1>4. ASSUME NEW t \in Threads, pc'[t] = "fill"
      PROVE  count'[stream'[t]] >= 1 /\ index'[t] = Place(stream[t], count[stream[t]])'
  BY <1>3, <1>4 DEF RingsStand, Inv, RingInv, Place
<1>5. ASSUME NEW s \in Streams, NEW i \in 1..Ready(s)' PROVE slot'[s][Place(s, i)'] \in Handed'
  BY <1>2, <1>3, <1>5, HandedMonotone DEF RingsStand, Inv, RingInv
<1> QED
  BY <1>4, <1>5 DEF RingInv

LEMMA MostStepsStand ==
  ASSUME Inv, [Next]_vars,
         \A t \in Threads : ~Fill(t),
         \A t \in Threads, s \in Streams : Put(t, s) /\ Claim(t, s) => pc[t] = "fill",
         ~WorkerTake
  PROVE  RingsStand
<1> USE DEF Inv, TypeOK
<1>1. ASSUME NEW t \in Threads, NEW s \in Streams, Put(t, s), pc[t] # "fill" PROVE RingsStand
  BY <1>1 DEF Put, AwaitRoom, RingsStand, CallTypes
<1>2. ASSUME NEW t \in Threads, SyncWrite(t) PROVE RingsStand
  BY <1>2 DEF SyncWrite, RingsStand, CallTypes
<1>3. ASSUME NEW t \in Threads, NEW s \in Streams, SyncEnter(t, s) PROVE RingsStand
  BY <1>3 DEF SyncEnter, MaySend, RingsStand, CallTypes
<1>4. ASSUME NEW t \in Threads, SpuriousWakeup(t) PROVE RingsStand
  BY <1>4 DEF SpuriousWakeup, RingsStand, CallTypes, callVars, ringVars
<1>5. ASSUME LaunchWorker \/ SetupDone \/ Shutdown \/ Joined \/ FlushScan \/ FlushNap
      PROVE  RingsStand
  BY <1>5 DEF LaunchWorker, SetupDone, Shutdown, Joined, FlushScan, FlushNap, Abort,
     RingsStand, CallTypes, callVars, ringVars, Threads
<1>6. ASSUME WorkerOnline \/ WorkerTest \/ WorkerScan \/ WorkerSweep \/ WorkerWrite
             \/ Over \/ UNCHANGED vars
      PROVE  RingsStand
  BY <1>6 DEF WorkerOnline, WorkerTest, WorkerScan, WorkerSweep, WorkerWrite, Over, vars,
     RingsStand, callVars, ringVars
<1>7. ASSUME NEW t \in Threads, NEW s \in Streams, Queue(t, s) PROVE RingsStand
  BY <1>1, <1>7 DEF Queue, MaySend
<1>8. ASSUME NEW t \in Threads, Resume(t) PROVE RingsStand
  BY <1>1, <1>8 DEF Resume, CallTypes
<1>9. ASSUME Fatal PROVE RingsStand
  BY <1>1, <1>9 DEF Fatal, Threads, Stderr, Streams
<1> QED
  BY <1>2, <1>3, <1>4, <1>5, <1>6, <1>7, <1>8, <1>9
  DEF Next, Worker, MainThread, Logging

\* A claim counts its slot before it is written: Ready does not see it.
LEMMA ClaimRing ==
  ASSUME Inv, NEW t \in Threads, NEW s \in Streams, Put(t, s), Claim(t, s), pc[t] # "fill"
  PROVE  /\ Filling(s)' = {t} /\ Filling(s) = {}
         /\ \A r \in Streams : r # s => Filling(r)' = Filling(r)
         /\ count'[s] = count[s] + 1 /\ index'[t] = Place(s, count[s])'
         /\ \A r \in Streams : /\ Ready(r)' = Ready(r)
                               /\ \A i \in 1..Ready(r) : Place(r, i)' = Place(r, i)
<1> USE DEF Inv, TypeOK
<1>1. /\ count[s] \in 0..(Depth - 1) /\ head[s] \in Slots
      /\ count'[s] = count[s] + 1 /\ head'[s] = NextSlot(head[s])
      /\ index'[t] = head[s] /\ pc'[t] = "fill" /\ stream'[t] = s
      /\ \A u \in Threads : u # t => pc'[u] = pc[u] /\ stream'[u] = stream[u]
      /\ \A r \in Streams : r # s => count'[r] = count[r] /\ head'[r] = head[r]
  BY DEF Put, Claim, RingTypes, CallTypes
<1>2. Filling(s) = {} /\ Ready(s) = count[s]
  BY UnlockedReady DEF Put
<1>3. Filling(s)' = {t}
  BY <1>1, <1>2 DEF Filling
<1>4. ASSUME NEW r \in Streams, r # s PROVE Filling(r)' = Filling(r) /\ Ready(r)' = Ready(r)
                                            /\ \A i : Place(r, i)' = Place(r, i)
  <2>1. Filling(r)' = Filling(r)
    BY <1>1, <1>4 DEF Filling
  <2> QED
    BY <1>1, <1>4, <2>1 DEF Ready, Place
<1>5. Ready(s)' = count[s]
  BY <1>1, <1>3 DEF Ready
<1>6. index'[t] = Place(s, count[s])'
  BY <1>1, ClaimTakesLastPlace DEF Place
<1>7. ASSUME NEW i \in 1..count[s] PROVE Place(s, i)' = Place(s, i)
  BY <1>1, ClaimKeepsPlaces DEF Place
<1> QED
  BY <1>1, <1>2, <1>3, <1>4, <1>5, <1>6, <1>7

LEMMA ClaimKeepsRings ==
  ASSUME Inv, [Next]_vars, NEW t \in Threads, NEW s \in Streams, Put(t, s), Claim(t, s),
         pc[t] # "fill"
  PROVE  RingInv'
<1>1. ASSUME NEW u \in Threads, pc'[u] = "fill"
      PROVE  count'[stream'[u]] >= 1 /\ index'[u] = Place(stream[u], count[stream[u]])'
  <2>1. CASE u = t
    <3>1. stream'[t] = s /\ count[s] \in 0..Depth
      BY DEF Put, Inv, TypeOK, RingTypes, CallTypes
    <3>2. count'[s] >= 1 /\ index'[t] = Place(s, count[s])'
      BY <3>1, ClaimRing
    <3> QED
      BY <2>1, <3>1, <3>2 DEF Place
  <2>2. CASE u # t
    <3>1. pc[u] = "fill" /\ stream'[u] = stream[u] /\ index'[u] = index[u] /\ stream[u] \in Streams
      BY <1>1, <2>2 DEF Put, Claim, Inv, TypeOK, CallTypes
    <3>2. stream[u] # s
      BY <3>1, ClaimRing DEF Filling
    <3>3. count'[stream[u]] = count[stream[u]] /\ head'[stream[u]] = head[stream[u]]
      BY <3>1, <3>2 DEF Claim, Inv, TypeOK, RingTypes
    <3> QED
      BY <3>1, <3>3 DEF Inv, RingInv, Place
  <2> QED
    BY <2>1, <2>2
<1>2. ASSUME NEW r \in Streams, NEW i \in 1..Ready(r)' PROVE slot'[r][Place(r, i)'] \in Handed'
  <2>1. i \in 1..Ready(r) /\ Place(r, i)' = Place(r, i) /\ slot' = slot
    BY <1>2, ClaimRing DEF Put
  <2> QED
    BY <2>1, HandedMonotone DEF Inv, RingInv
<1> QED
  BY <1>1, <1>2 DEF RingInv

\* The fill hands its message over in the last place of the ring.
LEMMA FillRing ==
  ASSUME Inv, NEW t \in Threads, Fill(t), NEW s \in Streams, s = stream[t]
  PROVE  /\ Filling(s) = {t} /\ Filling(s)' = {} /\ count[s] \in 1..Depth
         /\ Ready(s) = count[s] - 1 /\ Ready(s)' = count[s]
         /\ \A r \in Streams : r # s => Ready(r)' = Ready(r) /\ slot'[r] = slot[r]
         /\ \A r, i : Place(r, i)' = Place(r, i)
         /\ slot'[s][Place(s, count[s])] = Message(t)
         /\ \A i \in 1..(count[s] - 1) :
              slot'[s][Place(s, i)] = slot[s][Place(s, i)]
<1> USE DEF Inv, TypeOK
<1>1. s \in Streams /\ pc[t] = "fill" /\ lock[s] = t
  BY DEF Fill, CallTypes, LockInv
<1>2. /\ pc'[t] # "fill" /\ UNCHANGED <<count, head, stream, index>>
      /\ \A u \in Threads : u # t => pc'[u] = pc[u]
      /\ slot' = [slot EXCEPT ![s][index[t]] = Message(t)]
  BY DEF Fill, CallTypes
<1>3. count[s] \in 1..Depth /\ head[s] \in Slots /\ index[t] \in Slots
  BY <1>1 DEF RingInv, RingTypes, CallTypes
<1>4. Filling(s) = {t}
  BY <1>1 DEF Filling, LockInv
<1>5. Filling(s)' = {}
  BY <1>2, <1>4 DEF Filling
<1>6. Ready(s) = count[s] - 1 /\ Ready(s)' = count[s]
  BY <1>2, <1>4, <1>5 DEF Ready
<1>7. ASSUME NEW r \in Streams, r # s PROVE Ready(r)' = Ready(r) /\ slot'[r] = slot[r]
  <2>1. Filling(r)' = Filling(r)
    BY <1>1, <1>2, <1>7 DEF Filling
  <2> QED
    BY <1>2, <1>7, <2>1 DEF Ready, RingTypes
<1>8. ASSUME NEW r, NEW i PROVE Place(r, i)' = Place(r, i)
  BY <1>2 DEF Place
<1>9. index[t] = Place(s, count[s])
  BY <1>1 DEF RingInv
<1>10. slot'[s][Place(s, count[s])] = Message(t)
  BY <1>1, <1>2, <1>3, <1>9 DEF RingTypes
<1>11. ASSUME NEW i \in 1..(count[s] - 1) PROVE slot'[s][Place(s, i)] = slot[s][Place(s, i)]
  <2>1. i \in 1..count[s] /\ count[s] \in 1..count[s] /\ i # count[s] /\ count[s] \in 0..Depth
    BY <1>3
  <2>2. Place(s, i) # index[t]
    BY <1>3, <1>9, <2>1, PlacesDiffer DEF Place
  <2> QED
    BY <1>1, <1>2, <2>2 DEF RingTypes
<1> QED
  BY <1>1, <1>3, <1>4, <1>5, <1>6, <1>7, <1>8, <1>10, <1>11

LEMMA MessageHanded ==
  ASSUME Inv, NEW t \in Threads, Fill(t) \/ SyncWrite(t)
  PROVE  Message(t) \in Messages /\ Message(t) \notin Handed /\ Message(t) \in Handed'
<1> USE DEF Inv, TypeOK
<1>1. sent[t] \in Nat /\ sent[t] < Budget + 1 /\ sent'[t] = sent[t] + 1
  BY DEF Fill, SyncWrite, CallTypes, BudgetInv, Limit, Sending
<1>2. Message(t) \in Messages
  BY <1>1 DEF Message, Messages
<1>3. Message(t)[1] = t /\ Message(t)[2] = sent[t] + 1
  BY DEF Message
<1> HIDE DEF Message
<1> QED
  BY <1>1, <1>2, <1>3 DEF Handed

LEMMA FillKeepsRings ==
  ASSUME Inv, [Next]_vars, NEW t \in Threads, Fill(t) PROVE RingInv'
<1>1. ASSUME NEW u \in Threads, pc'[u] = "fill"
      PROVE  count'[stream'[u]] >= 1 /\ index'[u] = Place(stream[u], count[stream[u]])'
  <2>1. pc[u] = "fill" /\ UNCHANGED <<count, head, stream, index>>
    BY <1>1 DEF Fill, Inv, TypeOK, CallTypes
  <2> QED
    BY <2>1 DEF Inv, RingInv, Place
<1>2. ASSUME NEW r \in Streams, NEW i \in 1..Ready(r)' PROVE slot'[r][Place(r, i)'] \in Handed'
  <2>1. CASE r # stream[t]
    <3>0. stream[t] \in Streams
      BY DEF Inv, TypeOK, CallTypes
    <3>1. i \in 1..Ready(r) /\ Place(r, i)' = Place(r, i) /\ slot'[r] = slot[r]
      BY <1>2, <2>1, <3>0, FillRing
    <3> QED
      BY <3>1, HandedMonotone DEF Inv, RingInv
  <2>2. CASE r = stream[t] /\ i = count[r]
    BY <2>2, FillRing, MessageHanded
  <2>3. CASE r = stream[t] /\ i # count[r]
    <3>0. Ready(r) = count[r] - 1 /\ Ready(r)' = count[r] /\ count[r] \in 1..Depth
      BY <2>3, FillRing
    <3>a. i \in 1..(count[r] - 1)
      BY <1>2, <2>3, <3>0
    <3>b. Place(r, i)' = Place(r, i)
      BY <2>3, FillRing
    <3>1. i \in 1..Ready(r) /\ slot[r][Place(r, i)] \in Handed
      BY <3>0, <3>a DEF Inv, RingInv
    <3>2. slot'[r][Place(r, i)] = slot[r][Place(r, i)]
      BY <2>3, <3>a, FillRing
    <3> QED
      BY <3>b, <3>1, <3>2, HandedMonotone
  <2> QED
    BY <2>1, <2>2, <2>3
<1> QED
  BY <1>1, <1>2 DEF RingInv

\* The worker takes the message in the first place; the others move up by one.
LEMMA TakeRing ==
  ASSUME Inv, WorkerTake, NEW s \in Streams, s = wi, count[s] # 0
  PROVE  /\ wpc = "lock" /\ wpc' = "write" /\ wi' = s /\ lock[s] = NoOne
         /\ Ready(s) = count[s] /\ Ready(s)' = count[s] - 1 /\ count[s] \in 1..Depth
         /\ text' = slot[s][Place(s, 1)] /\ slot' = slot
         /\ \A i \in 1..(count[s] - 1) : Place(s, i)' = Place(s, i + 1)
         /\ \A r \in Streams : r # s => Ready(r)' = Ready(r) /\ \A i : Place(r, i)' = Place(r, i)
         /\ \A t \in Threads : pc'[t] = "fill" <=> pc[t] = "fill"
<1> USE DEF Inv, TypeOK
<1>1. /\ wpc = "lock" /\ wpc' = "write" /\ wi' = s /\ lock[s] = NoOne
      /\ slot' = slot /\ head' = head /\ stream' = stream /\ index' = index
      /\ count' = [count EXCEPT ![s] = @ - 1] /\ Signal(s)
      /\ text' = slot[s][Oldest(s)]
  BY DEF WorkerTake, At, callVars
<1>2. count[s] \in 1..Depth /\ head[s] \in Slots
  BY DEF RingTypes
<1>3. \A t \in Threads : pc'[t] = "fill" <=> pc[t] = "fill"
  BY <1>1 DEF Signal, Waiters, CallTypes
<1>4. \A r \in Streams : Filling(r)' = Filling(r)
  BY <1>1, <1>3 DEF Filling
<1>5. count'[s] = count[s] - 1 /\ \A r \in Streams : r # s => count'[r] = count[r]
  BY <1>1 DEF RingTypes
<1>6. Ready(s) = count[s] /\ Ready(s)' = count[s] - 1
  BY <1>1, <1>4, <1>5, UnlockedReady DEF Ready
<1>7. Oldest(s) = Place(s, 1)
  BY <1>2 DEF Oldest, Place, Slots
<1>8. ASSUME NEW i \in 1..(count[s] - 1) PROVE Place(s, i)' = Place(s, i + 1)
  <2>1. Depth + (head[s] - (count[s] - 1)) + (i - 1) = Depth + (head[s] - count[s]) + ((i + 1) - 1)
    BY <1>2 DEF Slots
  <2> QED
    BY <1>1, <1>5, <2>1 DEF Place
<1>9. ASSUME NEW r \in Streams, r # s
      PROVE  Ready(r)' = Ready(r) /\ \A i : Place(r, i)' = Place(r, i)
  BY <1>1, <1>4, <1>5, <1>9 DEF Ready, Place
<1> QED
  BY <1>1, <1>2, <1>3, <1>6, <1>7, <1>8, <1>9

LEMMA EmptyTakeStands ==
  ASSUME Inv, WorkerTake, count[wi] = 0 PROVE RingsStand
<1>1. UNCHANGED <<count, head, slot, stream, index, pc>>
  BY DEF WorkerTake, callVars
<1> QED
  BY <1>1 DEF RingsStand

LEMMA TakeKeepsRings ==
  ASSUME Inv, [Next]_vars, WorkerTake PROVE RingInv'
<1>0. wi \in Streams
  BY DEF WorkerTake, Inv, WorkerInv
<1>1. CASE count[wi] = 0
  BY <1>1, EmptyTakeStands, StandKeepsRings
<1>2. CASE count[wi] # 0
  <2> DEFINE s == wi
  <2>1. ASSUME NEW u \in Threads, pc'[u] = "fill"
        PROVE  count'[stream'[u]] >= 1 /\ index'[u] = Place(stream[u], count[stream[u]])'
    <3>1. pc[u] = "fill" /\ stream'[u] = stream[u] /\ index'[u] = index[u] /\ stream[u] \in Streams
      BY <1>0, <1>2, <2>1, TakeRing DEF WorkerTake, callVars, Inv, TypeOK, CallTypes
    <3>2. stream[u] # s
      BY <1>0, <3>1, UnlockedReady DEF WorkerTake, Filling
    <3>3. count'[stream[u]] = count[stream[u]] /\ head'[stream[u]] = head[stream[u]]
      BY <1>0, <1>2, <3>1, <3>2 DEF WorkerTake, Inv, TypeOK, RingTypes
    <3> QED
      BY <3>1, <3>3 DEF Inv, RingInv, Place
  <2>2. ASSUME NEW r \in Streams, NEW i \in 1..Ready(r)' PROVE slot'[r][Place(r, i)'] \in Handed'
    <3>0. slot' = slot
      BY DEF WorkerTake
    <3>1. CASE r # s
      <4>1. Ready(r)' = Ready(r) /\ Place(r, i)' = Place(r, i)
        BY <1>0, <1>2, <3>1, TakeRing
      <4> QED
        BY <2>2, <3>0, <4>1, HandedMonotone DEF Inv, RingInv
    <3>2. CASE r = s
      <4>1. Ready(r)' = count[r] - 1 /\ count[r] \in 1..Depth /\ Ready(r) = count[r]
        BY <1>2, <3>2, TakeRing
      <4>2. i \in 1..(count[r] - 1) /\ i + 1 \in 1..Ready(r)
        BY <2>2, <4>1
      <4>3. Place(r, i)' = Place(r, i + 1)
        BY <1>2, <3>2, <4>2, TakeRing
      <4> QED
        BY <3>0, <4>2, <4>3, HandedMonotone DEF Inv, RingInv
    <3> QED
      BY <3>1, <3>2
  <2> QED
    BY <2>1, <2>2 DEF RingInv
<1> QED
  BY <1>1, <1>2

LEMMA RingInvStep ==
  ASSUME Inv, [Next]_vars PROVE RingInv'
<1>1. ASSUME NEW t \in Threads, Fill(t) PROVE RingInv'
  BY <1>1, FillKeepsRings
<1>2. CASE WorkerTake
  BY <1>2, TakeKeepsRings
<1>3. ASSUME NEW t \in Threads, NEW s \in Streams, Put(t, s), Claim(t, s), pc[t] # "fill" PROVE RingInv'
  BY <1>3, ClaimKeepsRings
<1> QED
  BY <1>1, <1>2, <1>3, MostStepsStand, StandKeepsRings

LEMMA DrainInvStep ==
  ASSUME Inv, [Next]_vars PROVE DrainInv'
<1> USE DEF Inv, TypeOK
<1>1. ASSUME WorkerTake PROVE DrainInv'
  <2>1. wi \in Streams /\ UNCHANGED out
    BY <1>1 DEF WorkerTake, WorkerInv
  <2>2. CASE count[wi] = 0
    BY <1>1, <2>1, <2>2, HandedMonotone DEF WorkerTake, At, DrainInv
  <2>3. CASE count[wi] # 0
    <3>1. text' = slot[wi][Place(wi, 1)] /\ Ready(wi) = count[wi] /\ count[wi] \in 1..Depth
      BY <1>1, <2>1, <2>3, TakeRing
    <3>2. text' \in Handed
      BY <2>1, <3>1 DEF RingInv
    <3> QED
      BY <2>1, <3>2, HandedMonotone DEF DrainInv
  <2> QED
    BY <2>2, <2>3
<1>2. ASSUME WorkerWrite PROVE DrainInv'
  <2>1. /\ wi \in Streams /\ text \in Handed /\ text \in Messages /\ wpc' # "write"
        /\ out' = [out EXCEPT ![wi] = Append(@, text)]
    BY <1>2 DEF WorkerWrite, WorkerInv, DrainInv, At, Handed
  <2>2. ASSUME NEW s \in Streams, NEW i \in 1..Len(out'[s]) PROVE out'[s][i] \in Handed
    BY <2>1, <2>2 DEF DrainInv, OutTypes
  <2> QED
    BY <2>1, <2>2, HandedMonotone DEF DrainInv
<1>3. ASSUME NEW t \in Threads, SyncWrite(t) PROVE DrainInv'
  <2>1. /\ stream[t] \in Streams /\ Message(t) \in Handed' /\ Message(t) \in Messages
        /\ wpc' = wpc /\ text' = text
        /\ out' = [out EXCEPT ![stream[t]] = Append(@, Message(t))]
    BY <1>3, MessageHanded DEF SyncWrite, CallTypes, workerVars
  <2>2. ASSUME NEW s \in Streams, NEW i \in 1..Len(out'[s]) PROVE out'[s][i] \in Handed'
    BY <2>1, <2>2, HandedMonotone DEF DrainInv, OutTypes
  <2> QED
    BY <2>1, <2>2, HandedMonotone DEF DrainInv
<1>4. ASSUME UNCHANGED <<out, text>>, wpc' = "write" => wpc = "write" PROVE DrainInv'
  BY <1>4, HandedMonotone DEF DrainInv
<1>5. ASSUME LaunchWorker \/ WorkerOnline \/ WorkerTest \/ WorkerScan \/ WorkerSweep
             \/ SetupDone \/ Shutdown \/ Joined \/ FlushScan \/ FlushNap \/ Fatal
             \/ Over \/ UNCHANGED vars
      PROVE UNCHANGED <<out, text>> /\ (wpc' = "write" => wpc = "write")
  BY <1>5 DEF LaunchWorker, WorkerOnline, WorkerTest, WorkerScan, WorkerSweep, SetupDone,
     Shutdown, Joined, FlushScan, FlushNap, Fatal, Over, Put, At, vars, workerVars
<1>6. ASSUME NEW t \in Threads, Logging(t), ~SyncWrite(t)
      PROVE  UNCHANGED <<out, text>> /\ (wpc' = "write" => wpc = "write")
  BY <1>6 DEF Logging, Queue, SyncEnter, Resume, SpuriousWakeup, Fill, Put, workerVars
<1> QED
  BY <1>1, <1>2, <1>3, <1>4, <1>5, <1>6 DEF Next, Worker, MainThread

-----------------------------------------------------------------------------
(* The invariant and what follows from it. *)

LEMMA InitInv == Init => Inv
<1> SUFFICES ASSUME Init PROVE Inv
  OBVIOUS
<1>0. Main \in Threads /\ NoOne \notin Threads /\ NoMsg \notin Messages
  BY DEF Threads
<1>1. TypeOK
  BY InitTypes
<1>2. LockInv
  BY <1>0 DEF Init, LockInv
<1>3. BudgetInv
  BY <1>0 DEF Init, BudgetInv, Limit, Sending
<1>4. WorkerInv
  BY <1>0 DEF Init, WorkerInv
<1>5. RingInv
  <2>1. \A s \in Streams : Filling(s) = {}
    BY DEF Init, Filling
  <2>2. \A s \in Streams : Ready(s) = 0
    BY <2>1 DEF Init, Ready
  <2>3. \A t \in Threads : pc[t] # "fill"
    BY DEF Init
  <2> QED
    BY <2>2, <2>3 DEF RingInv
<1>6. DrainInv
  BY DEF Init, DrainInv
<1> QED
  BY <1>1, <1>2, <1>3, <1>4, <1>5, <1>6 DEF Inv

LEMMA InductiveInv == Inv /\ [Next]_vars => Inv'
<1> SUFFICES ASSUME Inv, [Next]_vars PROVE Inv'
  OBVIOUS
<1>1. TypeOK'
  BY RingTypesStep, CallTypesStep, WorkerTypesStep, OutTypesStep, StopTypesStep DEF TypeOK
<1> QED
  BY <1>1, LockInvStep, BudgetInvStep, WorkerInvStep, RingInvStep, DrainInvStep DEF Inv

\* Locks, budgets, the worker's cursor and the rings of stream.c stay consistent at every step,
\* and no message in them is handed over twice or lost on its way to the drain.
THEOREM Invariance == Spec => []Inv
<1> QED
  BY InitInv, InductiveInv, PTL DEF Spec

\* Every variable of stream.c's queues stays in its range: no ring's count passes
\* LIGHT_STREAM_MQUEUE_DEPTH, no index leaves its ring, the drain loop's stream index
\* never passes streams_defined_count.
THEOREM Typing == Spec => []TypeOK
<1>1. Inv => TypeOK
  BY DEF Inv
<1> QED
  BY Invariance, <1>1, PTL


-----------------------------------------------------------------------------
(* No lost wake-up. *)

LEMMA WokenFinite ==
  ASSUME NEW s PROVE IsFiniteSet(Woken(s)) /\ Cardinality(Woken(s)) \in Nat
<1>1. IsFiniteSet(Threads)
  BY FS_AddElement DEF Threads
<1>2. Woken(s) \subseteq Threads
  BY DEF Woken
<1> QED
  BY <1>1, <1>2, FS_Subset, FS_CardinalityType

\* No thread falls asleep, none that was woken goes back to its call.
SleepersStand ==
  /\ UNCHANGED count
  /\ \A t \in Threads : pc'[t] \in {"wait", "woken"} \/ pc[t] \in {"wait", "woken"} =>
       pc'[t] = pc[t] /\ stream'[t] = stream[t]

LEMMA SleepersStandStep ==
  ASSUME Inv, NoLostWakeup, SleepersStand PROVE NoLostWakeup'
<1>1. \A s \in Streams : Waiters(s)' = Waiters(s) /\ Woken(s)' = Woken(s)
  BY DEF SleepersStand, Waiters, Woken
<1> QED
  BY <1>1 DEF NoLostWakeup, SleepersStand

LEMMA PutWakeups ==
  ASSUME Inv, NoLostWakeup, NEW t \in Threads, NEW s \in Streams, Put(t, s),
         pc[t] # "wait", pc[t] = "woken" => stream[t] = s
  PROVE  NoLostWakeup'
<1> USE DEF Inv, TypeOK
<1>1. /\ \A u \in Threads : u # t => pc'[u] = pc[u] /\ stream'[u] = stream[u]
      /\ stream'[t] = s /\ count[s] \in 0..Depth
      /\ \A r \in Streams : r # s => count'[r] = count[r]
  BY DEF Put, Claim, AwaitRoom, CallTypes, RingTypes
<1>2. ASSUME NEW r \in Streams, r # s, Waiters(r)' # {}
      PROVE  count'[r] + Cardinality(Woken(r)') >= Depth
  <2>1. Waiters(r)' = Waiters(r)
    BY <1>1, <1>2 DEF Waiters
  <2>2. Woken(r)' = Woken(r)
    BY <1>1, <1>2 DEF Woken
  <2> QED
    BY <1>1, <1>2, <2>1, <2>2 DEF NoLostWakeup
<1>3. ASSUME Waiters(s)' # {} PROVE count'[s] + Cardinality(Woken(s)') >= Depth
  <2>1. CASE Claim(t, s)
    <3>1. pc'[t] = "fill" /\ count'[s] = count[s] + 1
      BY <2>1 DEF Claim, CallTypes, RingTypes
    <3>2. Waiters(s) # {}
      BY <1>1, <1>3, <3>1 DEF Waiters
    <3>3. count[s] + Cardinality(Woken(s)) >= Depth
      BY <3>2 DEF NoLostWakeup
    <3>4. Woken(s)' = Woken(s) \ {t}
      BY <1>1, <3>1 DEF Woken
    <3>5. /\ Cardinality(Woken(s) \ {t}) >= Cardinality(Woken(s)) - 1
          /\ Cardinality(Woken(s) \ {t}) \in Nat
      <4>1. CASE t \in Woken(s)
        <5>1. Cardinality(Woken(s) \ {t}) = Cardinality(Woken(s)) - 1
          BY <4>1, WokenFinite, FS_RemoveElement
        <5>2. IsFiniteSet(Woken(s) \ {t})
          BY WokenFinite, FS_Subset
        <5> QED
          BY <5>1, <5>2, WokenFinite, FS_CardinalityType
      <4>2. CASE t \notin Woken(s)
        <5>1. Woken(s) \ {t} = Woken(s)
          BY <4>2
        <5> QED
          BY <5>1, WokenFinite
      <4> QED
        BY <4>1, <4>2
    <3> HIDE DEF Inv, TypeOK
    <3> QED
      BY <1>1, <3>1, <3>3, <3>4, <3>5, WokenFinite
  <2>2. CASE AwaitRoom(t, s)
    <3>1. count'[s] = count[s] /\ count[s] >= Depth
      BY <2>2 DEF AwaitRoom
    <3>2. Cardinality(Woken(s)') \in Nat
      <4>1. Woken(s)' \subseteq Woken(s)
        BY <1>1, <2>2 DEF Woken, AwaitRoom, CallTypes
      <4> QED
        BY <4>1, WokenFinite, FS_Subset, FS_CardinalityType
    <3> QED
      BY <1>1, <3>1, <3>2
  <2> QED
    BY <2>1, <2>2 DEF Put
<1> QED
  BY <1>2, <1>3 DEF NoLostWakeup

LEMMA SpuriousWakeups ==
  ASSUME Inv, NoLostWakeup, NEW t \in Threads, SpuriousWakeup(t) PROVE NoLostWakeup'
<1> USE DEF Inv, TypeOK
<1>1. ASSUME NEW s \in Streams, Waiters(s)' # {}
      PROVE  count'[s] + Cardinality(Woken(s)') >= Depth
  <2>1. count'[s] = count[s] /\ count[s] \in Nat
    BY DEF SpuriousWakeup, ringVars, RingTypes
  <2>2. Waiters(s) # {}
    BY <1>1 DEF Waiters, SpuriousWakeup, callVars, CallTypes
  <2>3. Woken(s) \subseteq Woken(s)' /\ Woken(s)' \subseteq Woken(s) \cup {t}
    BY DEF Woken, SpuriousWakeup, callVars, CallTypes
  <2>4. IsFiniteSet(Woken(s)')
    BY <2>3, WokenFinite, FS_AddElement, FS_Subset
  <2>5. Cardinality(Woken(s)') >= Cardinality(Woken(s))
    BY <2>3, <2>4, FS_Subset
  <2>6. Cardinality(Woken(s)') \in Nat
    BY <2>4, FS_CardinalityType
  <2> QED
    BY <2>1, <2>2, <2>5, <2>6, WokenFinite DEF NoLostWakeup
<1> QED
  BY <1>1 DEF NoLostWakeup

LEMMA TakeWakeups ==
  ASSUME Inv, NoLostWakeup, WorkerTake PROVE NoLostWakeup'
<1> USE DEF Inv, TypeOK
<1>0. wi \in Streams /\ UNCHANGED stream
  BY DEF WorkerTake, WorkerInv, callVars
<1> PICK w \in Streams : w = wi
  BY <1>0
<1>1. CASE count[w] = 0
  BY <1>0, <1>1, SleepersStandStep DEF WorkerTake, SleepersStand
<1>2. CASE count[w] # 0
  <2>1. /\ Signal(w) /\ count'[w] = count[w] - 1 /\ count[w] \in Nat
        /\ \A r \in Streams : r # w => count'[r] = count[r]
    BY <1>0, <1>2 DEF WorkerTake, RingTypes
  <2>2. CASE Waiters(w) = {}
    <3>1. \A s \in Streams : Waiters(s)' = Waiters(s) /\ Woken(s)' = Woken(s)
      BY <1>0, <2>1, <2>2 DEF Signal, Waiters, Woken
    <3> QED
      BY <1>0, <2>1, <2>2, <3>1 DEF NoLostWakeup
  <2>3. CASE Waiters(w) # {}
    <3>1. PICK t \in Waiters(w) : pc' = [pc EXCEPT ![t] = "woken"]
      BY <2>1, <2>3 DEF Signal
    <3>2. t \in Threads /\ pc[t] = "wait" /\ stream[t] = w
      BY DEF Waiters
    <3>3. Woken(w)' = Woken(w) \cup {t} /\ t \notin Woken(w)
      BY <1>0, <3>1, <3>2 DEF Woken, CallTypes
    <3>4. Cardinality(Woken(w)') = Cardinality(Woken(w)) + 1
      BY <3>3, WokenFinite, FS_AddElement
    <3>5. count[w] + Cardinality(Woken(w)) >= Depth
      BY <1>0, <2>3 DEF NoLostWakeup
    <3>6. ASSUME NEW s \in Streams, s # w PROVE Waiters(s)' = Waiters(s) /\ Woken(s)' = Woken(s)
      BY <1>0, <3>1, <3>2, <3>6 DEF Waiters, Woken, CallTypes
    <3>7. count'[w] + Cardinality(Woken(w)') >= Depth
      BY <2>1, <3>4, <3>5, WokenFinite
    <3>8. ASSUME NEW s \in Streams, s # w, Waiters(s)' # {}
          PROVE  count'[s] + Cardinality(Woken(s)') >= Depth
      BY <2>1, <3>6, <3>8 DEF NoLostWakeup
    <3> QED
      BY <3>7, <3>8 DEF NoLostWakeup
  <2> QED
    BY <2>2, <2>3
<1> QED
  BY <1>1, <1>2

LEMMA WakeupStep ==
  ASSUME Inv, NoLostWakeup, [Next]_vars PROVE NoLostWakeup'
<1> USE DEF Inv, TypeOK
<1>1. ASSUME NEW t \in Threads, NEW s \in Streams, Queue(t, s) PROVE NoLostWakeup'
  BY <1>1, PutWakeups DEF Queue, MaySend
<1>2. ASSUME NEW t \in Threads, Resume(t) PROVE NoLostWakeup'
  BY <1>2, PutWakeups DEF Resume, CallTypes
<1>3. ASSUME Fatal PROVE NoLostWakeup'
  BY <1>3, PutWakeups DEF Fatal, Threads, Stderr, Streams
<1>4. ASSUME NEW t \in Threads, Fill(t) PROVE NoLostWakeup'
  BY <1>4, SleepersStandStep DEF Fill, SleepersStand, CallTypes
<1>5. ASSUME NEW t \in Threads, NEW s \in Streams, SyncEnter(t, s) PROVE NoLostWakeup'
  BY <1>5, SleepersStandStep DEF SyncEnter, MaySend, SleepersStand, CallTypes
<1>6. ASSUME NEW t \in Threads, SyncWrite(t) PROVE NoLostWakeup'
  BY <1>6, SleepersStandStep DEF SyncWrite, SleepersStand, CallTypes
<1>7. ASSUME LaunchWorker \/ SetupDone \/ Shutdown \/ Joined \/ FlushScan \/ FlushNap
      PROVE  NoLostWakeup'
  BY <1>7, SleepersStandStep DEF LaunchWorker, SetupDone, Shutdown, Joined, FlushScan, FlushNap,
     Abort, SleepersStand, CallTypes, callVars, ringVars, Threads
<1>8. ASSUME WorkerOnline \/ WorkerTest \/ WorkerScan \/ WorkerSweep \/ WorkerWrite
             \/ Over \/ UNCHANGED vars
      PROVE  NoLostWakeup'
  BY <1>8, SleepersStandStep DEF WorkerOnline, WorkerTest, WorkerScan, WorkerSweep, WorkerWrite,
     Over, vars, SleepersStand, callVars, ringVars
<1> QED
  BY <1>1, <1>2, <1>3, <1>4, <1>5, <1>6, <1>7, <1>8, SpuriousWakeups, TakeWakeups
  DEF Next, Worker, MainThread, Logging

\* A producer that sleeps for room in a full ring is never forgotten: the ring is full,
\* or a woken producer is on its way to each of its free slots.
THEOREM Wakeups == Spec => []NoLostWakeup
<1>1. Init => NoLostWakeup
  <2> SUFFICES ASSUME Init PROVE NoLostWakeup
    OBVIOUS
  <2>1. \A s \in Streams : Waiters(s) = {}
    BY DEF Init, Waiters
  <2> QED
    BY <2>1 DEF NoLostWakeup
<1>2. Inv /\ NoLostWakeup /\ [Next]_vars => NoLostWakeup'
  BY WakeupStep
<1> QED
  BY <1>1, <1>2, Invariance, PTL DEF Spec


-----------------------------------------------------------------------------
(* The streams implement MessageLog. *)

LEMMA ReadyBounds ==
  ASSUME Inv, NEW s \in Streams
  PROVE  Ready(s) \in 0..Depth
<1> USE DEF Inv, TypeOK
<1>1. count[s] \in 0..Depth
  BY DEF RingTypes
<1>2. CASE Filling(s) = {}
  BY <1>1, <1>2 DEF Ready
<1>3. CASE Filling(s) # {}
  <2>1. count[s] >= 1
    BY <1>3 DEF Filling, RingInv
  <2> QED
    BY <1>1, <1>3, <2>1 DEF Ready
<1> QED
  BY <1>2, <1>3

LEMMA QueuedSeq ==
  ASSUME Inv, NEW s \in Streams
  PROVE  /\ Queued(s) \in Seq(Messages) /\ Len(Queued(s)) = Ready(s)
         /\ \A i \in 1..Ready(s) : Queued(s)[i] = slot[s][Place(s, i)] /\ Queued(s)[i] \in Handed
<1>1. Ready(s) \in Nat
  BY ReadyBounds
<1>2. \A i \in 1..Ready(s) : slot[s][Place(s, i)] \in Handed /\ slot[s][Place(s, i)] \in Messages
  BY DEF Inv, RingInv, Handed
<1>3. Queued(s) = [i \in 1..Ready(s) |-> slot[s][Place(s, i)]]
  BY DEF Queued
<1> DEFINE n == Ready(s)
           f(i) == slot[s][Place(s, i)]
<1>4. n \in Nat /\ \A i \in 1..n : f(i) \in Messages
  BY <1>1, <1>2
<1>5. Queued(s) = [i \in 1..n |-> f(i)]
  BY <1>3
<1> HIDE DEF n, f
<1>6. Queued(s) \in Seq(Messages) /\ Len(Queued(s)) = n /\ \A i \in 1..n : Queued(s)[i] = f(i)
  BY <1>4, <1>5
<1> QED
  BY <1>2, <1>6 DEF n, f

LEMMA InHandSeq ==
  ASSUME Inv, NEW s \in Streams
  PROVE  /\ InHand(s) \in Seq(Messages) /\ Len(InHand(s)) \in 0..1
         /\ \A i \in 1..Len(InHand(s)) : InHand(s)[i] \in Handed
<1>1. CASE wpc = "write" /\ wi = s
  <2>1. text \in Messages /\ text \in Handed /\ InHand(s) = <<text>>
    BY <1>1 DEF Inv, DrainInv, Handed, InHand
  <2> QED
    BY <2>1
<1>2. CASE ~(wpc = "write" /\ wi = s)
  BY <1>2 DEF InHand
<1> QED
  BY <1>1, <1>2

LEMMA PendingSeq ==
  ASSUME Inv, NEW s \in Streams
  PROVE  /\ Pending[s] = InHand(s) \o Queued(s) /\ Pending[s] \in Seq(Messages)
         /\ Len(Pending[s]) = Len(InHand(s)) + Ready(s)
         /\ \A i \in 1..Len(Pending[s]) : Pending[s][i] \in Handed
<1>1. Pending[s] = InHand(s) \o Queued(s)
  BY DEF Pending
<1> DEFINE a == InHand(s)  b == Queued(s)
<1>2. /\ a \in Seq(Messages) /\ \A i \in 1..Len(a) : a[i] \in Handed
      /\ b \in Seq(Messages) /\ \A i \in 1..Len(b) : b[i] \in Handed
      /\ Len(b) = Ready(s)
  BY InHandSeq, QueuedSeq
<1>3. Pending[s] = a \o b
  BY <1>1
<1> HIDE DEF a, b
<1>4. /\ a \o b \in Seq(Messages) /\ Len(a \o b) = Len(a) + Len(b)
      /\ \A i \in 1..Len(a \o b) : (a \o b)[i] = IF i <= Len(a) THEN a[i] ELSE b[i - Len(a)]
  <2>1. a \in Seq(Messages) /\ b \in Seq(Messages)
    BY <1>2
  <2> QED
    BY <2>1, ConcatProperties
<1>5. \A i \in 1..Len(a \o b) : (a \o b)[i] \in Handed
  BY <1>2, <1>4
<1> QED
  BY <1>1, <1>2, <1>3, <1>4, <1>5 DEF a, b

\* The shape of what is pending, as a state predicate: it holds after a step too.
Shape ==
  \A s \in Streams :
    /\ InHand(s) \in Seq(Messages) /\ Queued(s) \in Seq(Messages)
    /\ Len(Queued(s)) = Ready(s) /\ Ready(s) \in 0..Depth
    /\ \A i \in 1..Ready(s) : Queued(s)[i] = slot[s][Place(s, i)]

LEMMA ShapeHolds == Inv => Shape
  BY InHandSeq, QueuedSeq, ReadyBounds DEF Shape

LEMMA ShapeStep == ASSUME Inv, [Next]_vars PROVE Shape /\ Shape'
<1>1. Inv'
  BY InductiveInv
<1>2. Inv' => Shape'
  BY ShapeHolds, PTL
<1> QED
  BY <1>1, <1>2, ShapeHolds

\* Two rings with the same messages in their places are the same queue.
LEMMA SameQueue ==
  ASSUME Inv, [Next]_vars, NEW s \in Streams, Ready(s)' = Ready(s),
         \A i \in 1..Ready(s) : slot'[s][Place(s, i)'] = slot[s][Place(s, i)]
  PROVE  Queued(s)' = Queued(s)
<1>1. /\ Queued(s) \in Seq(Messages) /\ Queued(s)' \in Seq(Messages)
      /\ Len(Queued(s)) = Ready(s) /\ Len(Queued(s)') = Ready(s)
      /\ \A i \in 1..Ready(s) : Queued(s)[i] = slot[s][Place(s, i)]
      /\ \A i \in 1..Ready(s) : Queued(s)'[i] = slot'[s][Place(s, i)']
  BY ShapeStep DEF Shape
<1>2. \A i \in 1..Len(Queued(s)) : Queued(s)[i] = Queued(s)'[i]
  BY <1>1
<1> QED
  BY <1>1, <1>2, SeqEqual

LEMMA StandKeepsQueues ==
  ASSUME Inv, [Next]_vars, RingsStand
  PROVE  \A s \in Streams : Queued(s)' = Queued(s)
<1>1. ASSUME NEW s \in Streams PROVE Queued(s)' = Queued(s)
  <2>1. Filling(s)' = Filling(s)
    BY DEF RingsStand, Filling
  <2>2. Ready(s)' = Ready(s) /\ slot' = slot /\ \A i : Place(s, i)' = Place(s, i)
    BY <2>1 DEF RingsStand, Ready, Place
  <2> QED
    BY <2>2, SameQueue
<1> QED
  BY <1>1

\* The worker neither takes nor writes.
HandsStand == \A s \in Streams : InHand(s)' = InHand(s)

LEMMA PendingStands ==
  ASSUME \A s \in Streams : Queued(s)' = Queued(s), HandsStand
  PROVE  Pending' = Pending
<1>1. \A s \in Streams : (InHand(s) \o Queued(s))' = InHand(s) \o Queued(s)
  BY DEF HandsStand
<1> QED
  BY <1>1 DEF Pending

\* A message handed over now is in no queue and in no output.
LEMMA FreshMessage ==
  ASSUME Inv, NEW t \in Threads, Fill(t) \/ SyncWrite(t)
  PROVE  Log!Fresh(Message(t))
<1>1. Message(t) \notin Handed
  BY MessageHanded
<1>2. ASSUME NEW s \in Streams PROVE Message(t) \notin Log!Elements(Pending[s])
  <2>1. Pending[s] \in Seq(Messages) /\ \A i \in 1..Len(Pending[s]) : Pending[s][i] \in Handed
    BY PendingSeq
  <2>2. DOMAIN Pending[s] = 1..Len(Pending[s])
    BY <2>1
  <2> QED
    BY <1>1, <2>1, <2>2 DEF Log!Elements
<1>3. ASSUME NEW s \in Streams PROVE Message(t) \notin Log!Elements(out[s])
  <2>1. out[s] \in Seq(Messages) /\ \A i \in 1..Len(out[s]) : out[s][i] \in Handed
    BY DEF Inv, TypeOK, OutTypes, DrainInv
  <2>2. DOMAIN out[s] = 1..Len(out[s])
    BY <2>1
  <2> QED
    BY <1>1, <2>1, <2>2 DEF Log!Elements
<1> QED
  BY <1>2, <1>3 DEF Log!Fresh

LEMMA FillAccepts ==
  ASSUME Inv, [Next]_vars, NEW t \in Threads, Fill(t)
  PROVE  Log!Next
<1> PICK s \in Streams : s = stream[t]
  BY DEF Inv, TypeOK, CallTypes
<1> DEFINE m == Message(t)
<1>1. m \in Messages
  BY MessageHanded
<1>2. /\ UNCHANGED out /\ \A r \in Streams : InHand(r)' = InHand(r)
  BY DEF Fill, InHand, workerVars
<1>3. ASSUME NEW r \in Streams, r # s PROVE Queued(r)' = Queued(r)
  <2>1. Ready(r)' = Ready(r) /\ slot'[r] = slot[r]
    BY <1>3, FillRing
  <2>2. \A i : Place(r, i)' = Place(r, i)
    BY FillRing
  <2> QED
    BY <2>1, <2>2, SameQueue
<1>4. Queued(s)' = Append(Queued(s), m)
  <2>1. /\ Queued(s) \in Seq(Messages) /\ Queued(s)' \in Seq(Messages)
        /\ Len(Queued(s)) = Ready(s) /\ Len(Queued(s)') = Ready(s)'
        /\ \A i \in 1..Ready(s) : Queued(s)[i] = slot[s][Place(s, i)]
        /\ \A i \in 1..Ready(s)' : Queued(s)'[i] = slot'[s][Place(s, i)']
    BY ShapeStep DEF Shape
  <2>2. count[s] \in 1..Depth /\ Ready(s) = count[s] - 1 /\ Ready(s)' = count[s]
    BY FillRing
  <2>3. /\ \A i : Place(s, i)' = Place(s, i)
        /\ slot'[s][Place(s, count[s])] = m
        /\ \A i \in 1..(count[s] - 1) : slot'[s][Place(s, i)] = slot[s][Place(s, i)]
    BY FillRing
  <2> DEFINE q == Queued(s)  q2 == Append(q, m)
  <2> HIDE DEF m
  <2>4. q2 \in Seq(Messages) /\ Len(q2) = count[s]
        /\ \A i \in 1..count[s] : q2[i] = IF i = count[s] THEN m ELSE q[i]
    BY <1>1, <2>1, <2>2
  <2>5. \A i \in 1..count[s] : Queued(s)'[i] = q2[i]
    BY <2>1, <2>2, <2>3, <2>4
  <2>6. Len(Queued(s)') = count[s]
    BY <2>1, <2>2
  <2> HIDE DEF q2
  <2>7. Queued(s)' = q2
    BY <2>1, <2>4, <2>5, <2>6, SeqEqual
  <2> QED
    BY <2>7 DEF q2
<1>5. InHand(s) \o Append(Queued(s), m) = Append(InHand(s) \o Queued(s), m)
  <2>1. InHand(s) \in Seq(Messages) /\ Queued(s) \in Seq(Messages)
    BY ShapeStep DEF Shape
  <2> HIDE DEF m
  <2> QED
    BY <1>1, <2>1, AppendIsConcat, ConcatAssociative, ConcatProperties
<1>6. Pending' = [Pending EXCEPT ![s] = Append(@, m)]
  <2>1. \A r \in Streams : r # s => InHand(r)' \o Queued(r)' = InHand(r) \o Queued(r)
    BY <1>2, <1>3
  <2>2. InHand(s)' \o Queued(s)' = Append(InHand(s) \o Queued(s), m)
    BY <1>2, <1>4, <1>5
  <2> HIDE DEF m
  <2> QED
    BY <2>1, <2>2 DEF Pending
<1>7. Len(Pending[s]) < Depth + 1
  <2> DEFINE p == Len(Pending[s])  h == Len(InHand(s))  c == count[s]
  <2>1. p = h + Ready(s)
    BY PendingSeq
  <2>2. h \in 0..1
    BY InHandSeq
  <2>3. c \in 1..Depth /\ Ready(s) = c - 1
    BY FillRing
  <2> HIDE DEF p, h, c
  <2>4. p < Depth + 1
    BY <2>1, <2>2, <2>3
  <2> QED
    BY <2>4 DEF p
<1>8. Log!Accept(s, m)
  BY <1>2, <1>6, <1>7, FreshMessage DEF Log!Accept
<1> QED
  BY <1>1, <1>8 DEF Log!Next

LEMMA SyncEmitsNow ==
  ASSUME Inv, [Next]_vars, NEW t \in Threads, SyncWrite(t)
  PROVE  Log!Next
<1> DEFINE m == Message(t)
<1>1. m \in Messages /\ stream[t] \in Streams
  BY MessageHanded DEF Inv, TypeOK, CallTypes
<1>2. RingsStand /\ HandsStand
  BY DEF SyncWrite, RingsStand, HandsStand, InHand, workerVars, Inv, TypeOK, CallTypes
<1>3. Pending' = Pending
  BY <1>2, StandKeepsQueues, PendingStands
<1>4. out' = [out EXCEPT ![stream[t]] = Append(@, m)]
  BY DEF SyncWrite
<1>5. Log!EmitNow(stream[t], m)
  BY <1>3, <1>4, FreshMessage DEF Log!EmitNow
<1> QED
  BY <1>1, <1>5 DEF Log!Next

LEMMA WriteEmits ==
  ASSUME Inv, [Next]_vars, WorkerWrite
  PROVE  Log!Next
<1>0. wi \in Streams
  BY DEF WorkerWrite, Inv, WorkerInv
<1> PICK s \in Streams : s = wi
  BY <1>0
<1>1. /\ wpc = "write" /\ wpc' = "sweep" /\ text \in Messages
      /\ out' = [out EXCEPT ![s] = Append(@, text)]
  BY DEF WorkerWrite, At, Inv, DrainInv, Handed
<1>2. \A r \in Streams : Queued(r)' = Queued(r)
  <2>1. RingsStand
    BY DEF WorkerWrite, RingsStand, ringVars, callVars
  <2> QED
    BY <2>1, StandKeepsQueues
<1>3. /\ \A r \in Streams : InHand(r)' = <<>>
      /\ \A r \in Streams : r # s => InHand(r) = <<>>
      /\ InHand(s) = <<text>>
  BY <1>1 DEF InHand
<1> DEFINE q == Queued(s)
<1>4. q \in Seq(Messages)
  BY ShapeStep DEF Shape
<1>5. Pending[s] = <<text>> \o q /\ Pending'[s] = <<>> \o q
  BY <1>2, <1>3 DEF Pending
<1>6. \A r \in Streams : r # s => Pending'[r] = Pending[r]
  BY <1>2, <1>3 DEF Pending
<1> HIDE DEF q
<1>7. Pending[s] # <<>> /\ Head(Pending[s]) = text /\ Tail(Pending[s]) = q /\ <<>> \o q = q
  <2> DEFINE a == <<text>> \o q
  <2>1. /\ a \in Seq(Messages) /\ Len(a) = 1 + Len(q) /\ Len(q) \in Nat /\ a[1] = text
        /\ \A i \in 1..Len(q) : a[i + 1] = q[i]
    BY <1>1, <1>4, ConcatProperties
  <2>2. <<>> \o q = q
    BY <1>4, ConcatEmptySeq
  <2> HIDE DEF a
  <2>3. a # <<>> /\ Head(a) = text
    BY <2>1
  <2>4. Tail(a) \in Seq(Messages) /\ Len(Tail(a)) = Len(q)
        /\ \A i \in 1..Len(Tail(a)) : Tail(a)[i] = q[i]
    BY <2>1, <2>3, HeadTailProperties
  <2>5. Tail(a) = q
    BY <1>4, <2>4, SeqEqual
  <2> QED
    BY <1>5, <2>2, <2>3, <2>5 DEF a
<1>8. Pending' = [Pending EXCEPT ![s] = Tail(@)]
  <2>1. Pending'[s] = Tail(Pending[s])
    BY <1>5, <1>7
  <2>2. Pending = [r \in Streams |-> Pending[r]] /\ Pending' = [r \in Streams |-> Pending'[r]]
    BY DEF Pending
  <2> DEFINE P == Pending  Q == Pending'
  <2>3. /\ P = [r \in Streams |-> P[r]] /\ Q = [r \in Streams |-> Q[r]]
        /\ Q[s] = Tail(P[s]) /\ \A r \in Streams : r # s => Q[r] = P[r]
    BY <1>6, <2>1, <2>2
  <2> HIDE DEF P, Q
  <2>4. Q = [P EXCEPT ![s] = Tail(@)]
    BY <2>3
  <2> QED
    BY <2>4 DEF P, Q
<1>9. Log!Emit(s)
  BY <1>1, <1>7, <1>8 DEF Log!Emit
<1> QED
  BY <1>9 DEF Log!Next

\* The message the worker takes is still pending: it moves from the ring to its hands.
LEMMA TakeStutters ==
  ASSUME Inv, [Next]_vars, WorkerTake
  PROVE  UNCHANGED <<Pending, out>>
<1>0. wi \in Streams /\ UNCHANGED out
  BY DEF WorkerTake, Inv, WorkerInv
<1> PICK s \in Streams : s = wi
  BY <1>0
<1>1. CASE count[s] = 0
  <2>1. RingsStand
    BY <1>1, EmptyTakeStands
  <2>2. HandsStand
    BY <1>1 DEF WorkerTake, HandsStand, InHand, At
  <2> QED
    BY <1>0, <2>1, <2>2, StandKeepsQueues, PendingStands
<1>2. CASE count[s] # 0
  <2>1. /\ wpc = "lock" /\ wpc' = "write" /\ wi' = s
        /\ Ready(s) = count[s] /\ Ready(s)' = count[s] - 1 /\ count[s] \in 1..Depth
        /\ text' = slot[s][Place(s, 1)] /\ slot' = slot
        /\ \A i \in 1..(count[s] - 1) : Place(s, i)' = Place(s, i + 1)
    BY <1>2, TakeRing
  <2>2. ASSUME NEW r \in Streams, r # s PROVE Queued(r)' = Queued(r)
    <3>1. Ready(r)' = Ready(r) /\ \A i : Place(r, i)' = Place(r, i)
      BY <1>2, <2>2, TakeRing
    <3> QED
      BY <2>1, <3>1, SameQueue
  <2>3. /\ \A r \in Streams : InHand(r) = <<>>
        /\ \A r \in Streams : r # s => InHand(r)' = <<>>
        /\ InHand(s)' = <<text'>>
    BY <2>1 DEF InHand
  <2> DEFINE q == Queued(s)  q2 == Queued(s)'  m == text'
  <2>4. /\ q \in Seq(Messages) /\ q2 \in Seq(Messages)
        /\ Len(q) = count[s] /\ Len(q2) = count[s] - 1
        /\ \A i \in 1..count[s] : q[i] = slot[s][Place(s, i)]
        /\ \A i \in 1..(count[s] - 1) : q2[i] = slot[s][Place(s, i + 1)]
    BY <2>1, ShapeStep DEF Shape
  <2> HIDE DEF q, q2
  <2>5. q[1] = m /\ m \in Messages /\ \A i \in 1..(count[s] - 1) : q2[i] = q[i + 1]
    BY <2>1, <2>4
  <2>6. <<>> \o q = <<m>> \o q2
    <3> DEFINE c == count[s]  a == <<m>> \o q2
    <3> HIDE DEF m
    <3>1. c \in 1..Depth /\ Len(q) = c /\ Len(q2) = c - 1
      BY <2>1, <2>4
    <3> HIDE DEF c
    <3>2. /\ a \in Seq(Messages) /\ Len(a) = Len(<<m>>) + Len(q2)
          /\ \A i \in 1..(Len(<<m>>) + Len(q2)) :
               a[i] = IF i <= Len(<<m>>) THEN <<m>>[i] ELSE q2[i - Len(<<m>>)]
      BY <2>4, <2>5, ConcatProperties
    <3> HIDE DEF a
    <3>3. Len(a) = c /\ a[1] = m /\ \A i \in 2..c : a[i] = q2[i - 1]
      BY <3>1, <3>2
    <3>4. \A i \in 2..c : q[i] = q2[i - 1]
      BY <2>5, <3>1 DEF c
    <3>5. \A i \in 1..Len(q) : q[i] = a[i]
      BY <2>5, <3>1, <3>3, <3>4
    <3>6. q = a
      BY <2>4, <3>1, <3>2, <3>3, <3>5, SeqEqual
    <3> QED
      BY <2>4, <3>6, ConcatEmptySeq DEF a
  <2>7. (InHand(s) \o Queued(s))' = InHand(s) \o Queued(s)
    BY <2>3, <2>6 DEF q, q2
  <2>8. \A r \in Streams : r # s => (InHand(r) \o Queued(r))' = InHand(r) \o Queued(r)
    BY <2>2, <2>3
  <2>9. Pending' = Pending
    BY <2>7, <2>8 DEF Pending
  <2> QED
    BY <1>0, <2>9
<1> QED
  BY <1>1, <1>2

LEMMA ClaimKeepsQueues ==
  ASSUME Inv, [Next]_vars, NEW t \in Threads, NEW s \in Streams, Put(t, s), Claim(t, s),
         pc[t] # "fill"
  PROVE  \A r \in Streams : Queued(r)' = Queued(r)
<1>1. ASSUME NEW r \in Streams PROVE Queued(r)' = Queued(r)
  <2>1. Ready(r)' = Ready(r) /\ \A i \in 1..Ready(r) : Place(r, i)' = Place(r, i)
    BY ClaimRing
  <2>2. slot' = slot
    BY DEF Put
  <2> QED
    BY <2>1, <2>2, SameQueue
<1> QED
  BY <1>1

LEMMA HandsStandStep ==
  ASSUME Inv, [Next]_vars, ~WorkerTake, ~WorkerWrite PROVE HandsStand
<1>1. ASSUME UNCHANGED workerVars PROVE HandsStand
  BY <1>1 DEF workerVars, HandsStand, InHand
<1>2. ASSUME wpc # "write", wpc' # "write" PROVE HandsStand
  BY <1>2 DEF HandsStand, InHand
<1>3. ASSUME WorkerOnline \/ WorkerTest \/ WorkerScan \/ WorkerSweep
      PROVE  wpc # "write" /\ wpc' # "write"
  BY <1>3 DEF WorkerOnline, WorkerTest, WorkerScan, WorkerSweep, At
<1>4. ASSUME (\E t \in Threads : Logging(t)) \/ SetupDone \/ Shutdown \/ Joined \/ Fatal
             \/ FlushScan \/ FlushNap \/ Over \/ UNCHANGED vars
      PROVE  UNCHANGED workerVars
  BY <1>4 DEF Logging, Queue, SyncEnter, Resume, SpuriousWakeup, Fill, SyncWrite, Put,
     SetupDone, Shutdown, Joined, Fatal, FlushScan, FlushNap, Over, vars, workerVars
<1>5. ASSUME LaunchWorker PROVE HandsStand
  <2>1. wpc # "write" /\ wpc' # "write"
    BY <1>5 DEF LaunchWorker, Inv, WorkerInv
  <2> QED
    BY <1>2, <2>1
<1> QED
  BY <1>1, <1>2, <1>3, <1>4, <1>5 DEF Next, Worker, MainThread

LEMMA OutStandsStep ==
  ASSUME [Next]_vars, ~WorkerWrite, \A t \in Threads : ~SyncWrite(t) PROVE UNCHANGED out
<1>1. ASSUME Worker \/ MainThread \/ Over \/ UNCHANGED vars PROVE UNCHANGED out
  BY <1>1 DEF Worker, WorkerOnline, WorkerTest, WorkerScan, WorkerSweep, WorkerTake, MainThread,
     LaunchWorker, SetupDone, Shutdown, Joined, Fatal, FlushScan, FlushNap, Over, Put, vars
<1>2. ASSUME NEW t \in Threads, Logging(t) PROVE UNCHANGED out
  BY <1>2 DEF Logging, Queue, SyncEnter, Resume, SpuriousWakeup, Fill, Put
<1> QED
  BY <1>1, <1>2 DEF Next

\* Every other step, a claim among them, changes neither what is pending nor the output.
LEMMA OthersStutter ==
  ASSUME Inv, [Next]_vars, ~WorkerTake, ~WorkerWrite,
         \A t \in Threads : ~Fill(t) /\ ~SyncWrite(t)
  PROVE  UNCHANGED <<Pending, out>>
<1>1. HandsStand /\ UNCHANGED out
  BY HandsStandStep, OutStandsStep
<1>2. ASSUME NEW t \in Threads, NEW s \in Streams, Put(t, s), Claim(t, s), pc[t] # "fill"
      PROVE  \A r \in Streams : Queued(r)' = Queued(r)
  BY <1>2, ClaimKeepsQueues
<1>3. ASSUME \A t \in Threads, s \in Streams : Put(t, s) /\ Claim(t, s) => pc[t] = "fill"
      PROVE  \A r \in Streams : Queued(r)' = Queued(r)
  BY <1>3, MostStepsStand, StandKeepsQueues
<1>4. \A r \in Streams : Queued(r)' = Queued(r)
  BY <1>2, <1>3
<1> QED
  BY <1>1, <1>4, PendingStands

LEMMA LogStep == Inv /\ [Next]_vars => [Log!Next]_Log!logVars
<1> SUFFICES ASSUME Inv, [Next]_vars PROVE [Log!Next]_Log!logVars
  OBVIOUS
<1>1. ASSUME NEW t \in Threads, Fill(t) PROVE Log!Next
  BY <1>1, FillAccepts
<1>2. ASSUME NEW t \in Threads, SyncWrite(t) PROVE Log!Next
  BY <1>2, SyncEmitsNow
<1>3. ASSUME WorkerWrite PROVE Log!Next
  BY <1>3, WriteEmits
<1>4. ASSUME UNCHANGED <<Pending, out>> PROVE UNCHANGED Log!logVars
  BY <1>4 DEF Log!logVars
<1> QED
  BY <1>1, <1>2, <1>3, <1>4, TakeStutters, OthersStutter

LEMMA LogInit == Init => Log!Init
<1> SUFFICES ASSUME Init PROVE Log!Init
  OBVIOUS
<1>1. ASSUME NEW s \in Streams PROVE InHand(s) \o Queued(s) = <<>>
  <2>1. Inv
    BY InitInv
  <2>2. InHand(s) = <<>> /\ Filling(s) = {}
    BY DEF Init, InHand, Filling
  <2>3. Ready(s) = 0
    BY <2>2 DEF Init, Ready
  <2>4. Queued(s) \in Seq(Messages) /\ Len(Queued(s)) = 0
    BY <2>1, <2>3, QueuedSeq
  <2>5. Queued(s) = <<>>
    BY <2>4, EmptySeq
  <2> QED
    BY <2>2, <2>4, <2>5, ConcatEmptySeq
<1>2. Pending = [s \in Streams |-> <<>>]
  BY <1>1 DEF Pending
<1> QED
  BY <1>2 DEF Init, Log!Init

\* The ring of light_stream_mqueue, its lock and condition variable and the drain loop
\* implement a bounded first-in first-out log for every stream: whatever the number of
\* threads, streams and slots, a message is written once, and in the order of the calls.
THEOREM Implementation == Spec => ImplementsMessageLog
<1>1. Init => Log!Init
  BY LogInit
<1>2. Inv /\ [Next]_vars => [Log!Next]_Log!logVars
  BY LogStep
<1> QED
  BY <1>1, <1>2, Invariance, PTL DEF Spec, ImplementsMessageLog, Log!Spec

-----------------------------------------------------------------------------
(* Where a message is.                                                     *)

\* What a ring holds, and what the worker has in its hands.
InRing(s) == {slot[s][Place(s, i)] : i \in 1..Ready(s)}
InHands   == IF wpc = "write" THEN {text} ELSE {}

\* A message that was handed over is written, in the worker's hands or in a ring.
Accounted ==
  \A m \in Handed : m \in Written \/ m \in InHands \/ \E s \in Streams : m \in InRing(s)

LEMMA StandKeepsContents ==
  ASSUME RingsStand PROVE \A s \in Streams : InRing(s)' = InRing(s)
<1>1. ASSUME NEW s \in Streams PROVE InRing(s)' = InRing(s)
  <2>1. Filling(s)' = Filling(s)
    BY DEF RingsStand, Filling
  <2>2. Ready(s)' = Ready(s) /\ slot' = slot /\ \A i : Place(s, i)' = Place(s, i)
    BY <2>1 DEF RingsStand, Ready, Place
  <2> QED
    BY <2>2 DEF InRing
<1> QED
  BY <1>1

LEMMA ClaimKeepsContents ==
  ASSUME Inv, NEW t \in Threads, NEW s \in Streams, Put(t, s), Claim(t, s), pc[t] # "fill"
  PROVE  \A r \in Streams : InRing(r)' = InRing(r)
<1>1. ASSUME NEW r \in Streams PROVE InRing(r)' = InRing(r)
  <2>1. slot' = slot /\ Ready(r)' = Ready(r)
        /\ \A i \in 1..Ready(r) : Place(r, i)' = Place(r, i)
    BY ClaimRing DEF Put
  <2> QED
    BY <2>1 DEF InRing
<1> QED
  BY <1>1

\* A fill adds its message to its ring and to no other.
LEMMA FillContents ==
  ASSUME Inv, NEW t \in Threads, Fill(t)
  PROVE  /\ \A r \in Streams : \A m \in InRing(r) : m \in InRing(r)'
         /\ \A r \in Streams : \A m \in InRing(r)' : m \in InRing(r) \/ m = Message(t)
         /\ \E r \in Streams : Message(t) \in InRing(r)'
<1> PICK s \in Streams : s = stream[t]
  BY DEF Inv, TypeOK, CallTypes
<1>1. /\ count[s] \in 1..Depth /\ Ready(s) = count[s] - 1 /\ Ready(s)' = count[s]
      /\ \A r \in Streams : r # s => Ready(r)' = Ready(r) /\ slot'[r] = slot[r]
      /\ \A r, i : Place(r, i)' = Place(r, i)
      /\ slot'[s][Place(s, count[s])] = Message(t)
      /\ \A i \in 1..(count[s] - 1) : slot'[s][Place(s, i)] = slot[s][Place(s, i)]
  BY FillRing
<1> DEFINE c == count[s]  m0 == Message(t)
<1>2. ASSUME NEW r \in Streams, r # s PROVE InRing(r)' = InRing(r)
  BY <1>1, <1>2 DEF InRing
<1>3. InRing(s) = {slot[s][Place(s, i)] : i \in 1..(c - 1)}
  BY <1>1 DEF InRing
<1>4. InRing(s)' = {slot'[s][Place(s, i)] : i \in 1..c}
  BY <1>1 DEF InRing
<1>5. /\ c \in 1..Depth /\ slot'[s][Place(s, c)] = m0
      /\ \A i \in 1..(c - 1) : slot'[s][Place(s, i)] = slot[s][Place(s, i)]
  BY <1>1
<1> DEFINE old == InRing(s)  new == InRing(s)'
<1> HIDE DEF c, m0, old, new
<1>6. old = {slot[s][Place(s, i)] : i \in 1..(c - 1)} /\ new = {slot'[s][Place(s, i)] : i \in 1..c}
  BY <1>3, <1>4 DEF old, new
<1>7. \A m \in old : m \in new
  BY <1>5, <1>6
<1>8. \A m \in new : m \in old \/ m = m0
  <2> TAKE m \in new
  <2>1. PICK i \in 1..c : m = slot'[s][Place(s, i)]
    BY <1>6
  <2>2. i = c \/ i \in 1..(c - 1)
    BY <1>5, <2>1
  <2> QED
    BY <1>5, <1>6, <2>1, <2>2
<1>9. m0 \in new
  BY <1>5, <1>6
<1> QED
  BY <1>2, <1>7, <1>8, <1>9 DEF old, new, m0

\* The worker takes one message out of one ring into its hands.
LEMMA TakeContents ==
  ASSUME Inv, WorkerTake
  PROVE  /\ \A r \in Streams : \A m \in InRing(r)' : m \in InRing(r)
         /\ \A r \in Streams : \A m \in InRing(r) : m \in InRing(r)' \/ m \in InHands'
<1>0. wi \in Streams
  BY DEF WorkerTake, Inv, WorkerInv
<1> PICK s \in Streams : s = wi
  BY <1>0
<1>1. CASE count[s] = 0
  BY <1>1, EmptyTakeStands, StandKeepsContents
<1>2. CASE count[s] # 0
  <2>1. /\ wpc' = "write" /\ slot' = slot /\ text' = slot[s][Place(s, 1)]
        /\ Ready(s) = count[s] /\ Ready(s)' = count[s] - 1 /\ count[s] \in 1..Depth
        /\ \A i \in 1..(count[s] - 1) : Place(s, i)' = Place(s, i + 1)
    BY <1>2, TakeRing
  <2>2. ASSUME NEW r \in Streams, r # s PROVE InRing(r)' = InRing(r)
    <3>1. Ready(r)' = Ready(r) /\ \A i : Place(r, i)' = Place(r, i)
      BY <1>2, <2>2, TakeRing
    <3> QED
      BY <2>1, <3>1 DEF InRing
  <2> DEFINE c == count[s]  old == InRing(s)  new == InRing(s)'
  <2>3. old = {slot[s][Place(s, i)] : i \in 1..c}
    BY <2>1 DEF InRing
  <2>4. new = {slot[s][Place(s, i + 1)] : i \in 1..(c - 1)}
    <3>1. new = {slot[s][Place(s, i)'] : i \in 1..(c - 1)}
      BY <2>1 DEF InRing
    <3> QED
      BY <2>1, <3>1
  <2>5. c \in 1..Depth /\ InHands' = {slot[s][Place(s, 1)]}
    BY <2>1 DEF InHands
  <2> HIDE DEF c, old, new
  <2>6. \A m \in new : m \in old
    <3> TAKE m \in new
    <3>1. PICK i \in 1..(c - 1) : m = slot[s][Place(s, i + 1)]
      BY <2>4
    <3>2. i + 1 \in 1..c
      BY <2>5, <3>1
    <3> QED
      BY <2>3, <3>1, <3>2
  <2>7. \A m \in old : m \in new \/ m \in InHands'
    <3> TAKE m \in old
    <3>1. PICK i \in 1..c : m = slot[s][Place(s, i)]
      BY <2>3
    <3>2. CASE i = 1
      BY <2>5, <3>1, <3>2
    <3>3. CASE i # 1
      <4>1. i - 1 \in 1..(c - 1) /\ (i - 1) + 1 = i
        BY <2>5, <3>1, <3>3
      <4> QED
        BY <2>4, <3>1, <4>1
    <3> QED
      BY <3>2, <3>3
  <2> QED
    BY <2>2, <2>6, <2>7 DEF old, new
<1> QED
  BY <1>1, <1>2

\* What a step can do to the rings: gain the message of a fill, lose one to the worker.
LEMMA ContentsStep ==
  ASSUME Inv, [Next]_vars
  PROVE  /\ \A r \in Streams : \A m \in InRing(r)' :
              m \in InRing(r) \/ \E t \in Threads : Fill(t) /\ m = Message(t)
         /\ \A r \in Streams : \A m \in InRing(r) : m \in InRing(r)' \/ m \in InHands'
<1>1. ASSUME NEW t \in Threads, NEW s \in Streams, Put(t, s), Claim(t, s), pc[t] # "fill"
      PROVE  \A r \in Streams : InRing(r)' = InRing(r)
  BY <1>1, ClaimKeepsContents
<1>2. ASSUME \A t \in Threads : ~Fill(t), ~WorkerTake
      PROVE  \A r \in Streams : InRing(r)' = InRing(r)
  BY <1>1, <1>2, MostStepsStand, StandKeepsContents
<1> QED
  BY <1>2, FillContents, TakeContents

\* Only a fill and a synchronous write hand a message over.
LEMMA HandedStep ==
  ASSUME Inv, [Next]_vars
  PROVE  \A m \in Handed' : \/ m \in Handed
                            \/ \E t \in Threads : (Fill(t) \/ SyncWrite(t)) /\ m = Message(t)
<1>1. ASSUME UNCHANGED sent PROVE Handed' = Handed
  BY <1>1 DEF Handed
<1>2. ASSUME NEW t \in Threads, Fill(t) \/ SyncWrite(t)
      PROVE  \A m \in Handed' : m \in Handed \/ m = Message(t)
  <2>1. sent' = [sent EXCEPT ![t] = @ + 1] /\ sent \in [Threads -> 0..(Budget + 1)]
    BY <1>2 DEF Fill, SyncWrite, Inv, TypeOK, CallTypes
  <2> TAKE m \in Handed'
  <2>2. PICK u \in Threads, n \in 1..(Budget + 1) : m = <<u, n>> /\ n <= sent'[u]
    BY DEF Handed, Messages
  <2>3. CASE n <= sent[u]
    BY <2>2, <2>3 DEF Handed, Messages
  <2>4. CASE ~(n <= sent[u])
    <3>1. u = t /\ n = sent[t] + 1
      BY <2>1, <2>2, <2>4
    <3> QED
      BY <2>2, <3>1 DEF Message
  <2> QED
    BY <2>3, <2>4
<1>3. ASSUME NEW t \in Threads, Logging(t), ~Fill(t), ~SyncWrite(t) PROVE UNCHANGED sent
  BY <1>3 DEF Logging, Queue, SyncEnter, Resume, SpuriousWakeup, Put, callVars
<1>4. ASSUME Worker \/ MainThread \/ Over \/ UNCHANGED vars PROVE UNCHANGED sent
  BY <1>4 DEF Worker, WorkerOnline, WorkerTest, WorkerScan, WorkerSweep, WorkerTake,
     WorkerWrite, MainThread, LaunchWorker, SetupDone, Shutdown, Joined, Fatal, FlushScan,
     FlushNap, Over, Put, vars, callVars
<1> QED
  BY <1>1, <1>2, <1>3, <1>4 DEF Next

LEMMA AppendWrites ==
  ASSUME OutTypes, NEW s \in Streams, NEW m \in Messages,
         out' = [out EXCEPT ![s] = Append(@, m)]
  PROVE  m \in Written' /\ \A k \in Written : k \in Written'
<1>1. /\ \A r \in Streams : out[r] \in Seq(Messages)
      /\ out'[s] = Append(out[s], m)
      /\ \A r \in Streams : r # s => out'[r] = out[r]
  BY DEF OutTypes
<1>2. /\ Len(out[s]) + 1 \in DOMAIN out'[s] /\ out'[s][Len(out[s]) + 1] = m
      /\ \A i \in DOMAIN out[s] : i \in DOMAIN out'[s] /\ out'[s][i] = out[s][i]
  BY <1>1
<1>3. m \in Written'
  BY <1>2 DEF Written
<1>4. ASSUME NEW k \in Written PROVE k \in Written'
  <2>1. PICK r \in Streams : \E i \in DOMAIN out[r] : k = out[r][i]
    BY DEF Written
  <2>2. PICK i \in DOMAIN out[r] : k = out[r][i]
    BY <2>1
  <2>3. i \in DOMAIN out'[r] /\ k = out'[r][i]
    BY <1>1, <1>2, <2>2
  <2> QED
    BY <2>3 DEF Written
<1> QED
  BY <1>3, <1>4

\* What is written stays written; a synchronous message and the worker's are added.
LEMMA WrittenStep ==
  ASSUME Inv, [Next]_vars
  PROVE  /\ \A m \in Written : m \in Written'
         /\ \A t \in Threads : SyncWrite(t) => Message(t) \in Written'
         /\ WorkerWrite => text \in Written'
<1>1. ASSUME NEW t \in Threads, SyncWrite(t)
      PROVE  Message(t) \in Written' /\ \A m \in Written : m \in Written'
  <2>1. /\ stream[t] \in Streams /\ Message(t) \in Messages /\ OutTypes
        /\ out' = [out EXCEPT ![stream[t]] = Append(@, Message(t))]
    BY <1>1, MessageHanded DEF SyncWrite, Inv, TypeOK, CallTypes
  <2> QED
    BY <2>1, AppendWrites
<1>2. ASSUME WorkerWrite
      PROVE  text \in Written' /\ \A m \in Written : m \in Written'
  <2>1. /\ wi \in Streams /\ text \in Messages /\ OutTypes
        /\ out' = [out EXCEPT ![wi] = Append(@, text)]
    BY <1>2 DEF WorkerWrite, Inv, TypeOK, WorkerInv, DrainInv, Handed
  <2> QED
    BY <2>1, AppendWrites
<1>3. ASSUME ~WorkerWrite, \A t \in Threads : ~SyncWrite(t) PROVE Written' = Written
  BY <1>3, OutStandsStep DEF Written
<1> QED
  BY <1>1, <1>2, <1>3

\* The worker lets go of a message only by writing it.
LEMMA HandsStep ==
  ASSUME Inv, [Next]_vars, ~WorkerWrite, wpc = "write"
  PROVE  wpc' = "write" /\ text' = text
<1>1. ASSUME UNCHANGED workerVars PROVE wpc' = "write" /\ text' = text
  BY <1>1 DEF workerVars
<1>2. ~WorkerOnline /\ ~WorkerTest /\ ~WorkerScan /\ ~WorkerSweep /\ ~WorkerTake
  BY DEF WorkerOnline, WorkerTest, WorkerScan, WorkerSweep, WorkerTake
<1>3. ~LaunchWorker
  BY DEF LaunchWorker, Inv, WorkerInv
<1>4. ASSUME (\E t \in Threads : Logging(t)) \/ SetupDone \/ Shutdown \/ Joined \/ Fatal
             \/ FlushScan \/ FlushNap \/ Over \/ UNCHANGED vars
      PROVE  UNCHANGED workerVars
  BY <1>4 DEF Logging, Queue, SyncEnter, Resume, SpuriousWakeup, Fill, SyncWrite, Put,
     SetupDone, Shutdown, Joined, Fatal, FlushScan, FlushNap, Over, vars, workerVars
<1> QED
  BY <1>1, <1>2, <1>3, <1>4 DEF Next, Worker, MainThread

LEMMA AccountedStep ==
  ASSUME Inv, Accounted, [Next]_vars PROVE Accounted'
<1> SUFFICES ASSUME NEW m \in Handed'
             PROVE  m \in Written' \/ m \in InHands' \/ \E s \in Streams : m \in InRing(s)'
  BY DEF Accounted
<1>1. ASSUME NEW t \in Threads, Fill(t), m = Message(t)
      PROVE  \E s \in Streams : m \in InRing(s)'
  BY <1>1, FillContents
<1>2. ASSUME NEW t \in Threads, SyncWrite(t), m = Message(t) PROVE m \in Written'
  BY <1>2, WrittenStep
<1>3. ASSUME m \in Written PROVE m \in Written'
  BY <1>3, WrittenStep
<1>4. ASSUME m \in InHands PROVE m \in Written' \/ m \in InHands'
  <2>1. wpc = "write" /\ m = text
    BY <1>4 DEF InHands
  <2>2. CASE WorkerWrite
    BY <2>1, <2>2, WrittenStep
  <2>3. CASE ~WorkerWrite
    BY <2>1, <2>3, HandsStep DEF InHands
  <2> QED
    BY <2>2, <2>3
<1>5. ASSUME NEW s \in Streams, m \in InRing(s) PROVE m \in InRing(s)' \/ m \in InHands'
  BY <1>5, ContentsStep
<1>6. CASE m \in Handed
  BY <1>3, <1>4, <1>5, <1>6 DEF Accounted
<1> QED
  BY <1>1, <1>2, <1>6, HandedStep

-----------------------------------------------------------------------------
(* The end of the log: light_stream_shutdown() and light_stream_flush().    *)

\* The stop flag is up from the call to the join, and owed is what had been handed over.
StopInv ==
  /\ stop <=> pc[Main] \in {"joining", "ended"}
  /\ \A t \in Threads : owed[t] <= sent[t]
  /\ wpc \in {"scan", "done"} => stop
  /\ pc[Main] = "ended" => wpc = "done"

Owed == {m \in Messages : m[2] <= owed[m[1]]}

\* The queues the worker has seen empty since the flag went up hold nothing it owes.
ScanInv ==
  /\ wpc \in {"scan", "done"} => \A s \in Streams : s < wi => \A m \in InRing(s) : m \notin Owed
  /\ wpc = "done" => wi > NStreams

\* The queues the flush has seen empty hold nothing of the thread that flushes.
FlushInv ==
  /\ pc[Main] \in {"scan", "aborted"} \/ fi = 1
  /\ \A s \in Streams : s < fi => \A m \in InRing(s) : m[1] # Main
  /\ drained => fi > NStreams

EndInv == Accounted /\ StopInv /\ ScanInv /\ FlushInv

LEMMA EmptyRing == ASSUME NEW s \in Streams, count[s] = 0 PROVE InRing(s) = {}
  BY DEF InRing, Ready

LEMMA StopInvStep ==
  ASSUME Inv, StopInv, [Next]_vars PROVE StopInv'
<1> USE DEF Inv, TypeOK, CallTypes
<1>1. \A t \in Threads : owed'[t] <= sent'[t]
  <2>1. CASE Shutdown
    BY <2>1 DEF Shutdown, callVars
  <2>2. CASE ~Shutdown
    <3>1. owed' = owed
      BY <2>2 DEF Next, Worker, WorkerOnline, WorkerTest, WorkerScan, WorkerSweep, WorkerTake,
         WorkerWrite, MainThread, LaunchWorker, SetupDone, Joined, Fatal, FlushScan, FlushNap,
         Over, Put, vars, stopVars, Logging, Queue, SyncEnter, Resume, SpuriousWakeup, Fill,
         SyncWrite
    <3>2. sent' \in [Threads -> 0..(Budget + 1)]
      BY CallTypesStep
    <3> QED
      BY <3>1, <3>2, HandedGrows DEF StopInv, StopTypes
  <2> QED
    BY <2>1, <2>2
<1> DEFINE Rest == /\ stop <=> pc[Main] \in {"joining", "ended"}
                   /\ wpc \in {"scan", "done"} => stop
                   /\ pc[Main] = "ended" => wpc = "done"
<1>2. Rest
  BY DEF StopInv
<1>3. ASSUME NEW t \in Threads, NEW s \in Streams, Put(t, s),
             pc[t] \notin {"joining", "ended"}
      PROVE  Rest'
  <2>1. UNCHANGED <<stop, wpc>> /\ pc'[Main] \in {pc[Main], "fill", "wait"}
        /\ (pc'[Main] # pc[Main] => t = Main)
    BY <1>3 DEF Put, Claim, AwaitRoom, Threads, stopVars, workerVars
  <2> QED
    BY <1>2, <1>3, <2>1
<1>4. ASSUME NEW t \in Threads, NEW s \in Streams, Queue(t, s) \/ SyncEnter(t, s) PROVE Rest'
  <2>1. ASSUME Queue(t, s) PROVE Rest'
    BY <1>3, <2>1 DEF Queue, MaySend
  <2>2. ASSUME SyncEnter(t, s) PROVE Rest'
    BY <1>2, <2>2 DEF SyncEnter, MaySend, Threads, stopVars, workerVars
  <2> QED
    BY <1>4, <2>1, <2>2
<1>5. ASSUME NEW t \in Threads, Resume(t) PROVE Rest'
  BY <1>3, <1>5 DEF Resume
<1>6. ASSUME NEW t \in Threads, SpuriousWakeup(t) \/ Fill(t) \/ SyncWrite(t) PROVE Rest'
  BY <1>2, <1>6 DEF SpuriousWakeup, Fill, SyncWrite, Threads, stopVars, workerVars
<1>7. ASSUME Fatal PROVE Rest'
  BY <1>3, <1>7 DEF Fatal, Threads, Stderr, Streams
<1>8. ASSUME LaunchWorker \/ SetupDone \/ FlushScan \/ FlushNap PROVE Rest'
  BY <1>2, <1>8 DEF LaunchWorker, SetupDone, FlushScan, FlushNap, Abort, Threads, stopVars,
     workerVars
<1>9. ASSUME Shutdown \/ Joined PROVE Rest'
  BY <1>2, <1>9 DEF Shutdown, Joined, Threads, stopVars, workerVars
<1>10. ASSUME WorkerOnline \/ WorkerTest \/ WorkerScan \/ WorkerSweep \/ WorkerWrite PROVE Rest'
  BY <1>2, <1>10 DEF WorkerOnline, WorkerTest, WorkerScan, WorkerSweep, WorkerWrite, At, stopVars
<1>11. ASSUME WorkerTake PROVE Rest'
  BY <1>2, <1>11 DEF WorkerTake, At, Signal, Waiters, Threads, stopVars
<1>12. ASSUME Over \/ UNCHANGED vars PROVE Rest'
  BY <1>2, <1>12 DEF Over, vars, stopVars, workerVars
<1>13. Rest'
  BY <1>4, <1>5, <1>6, <1>7, <1>8, <1>9, <1>10, <1>11, <1>12
     DEF Next, Worker, MainThread, Logging
<1> QED
  BY <1>1, <1>13 DEF StopInv

\* A message handed over after the stop flag is not owed.
LEMMA NewIsNotOwed ==
  ASSUME Inv, StopInv, NEW t \in Threads, Fill(t) PROVE Message(t) \notin Owed
<1>1. sent[t] \in 0..(Budget + 1) /\ owed[t] \in 0..(Budget + 1) /\ owed[t] <= sent[t]
  BY DEF Inv, TypeOK, CallTypes, StopTypes, StopInv
<1> SUFFICES ASSUME <<t, sent[t] + 1>>[2] <= owed[<<t, sent[t] + 1>>[1]] PROVE FALSE
  BY DEF Owed, Message
<1> QED
  BY <1>1

LEMMA ScanInvStep ==
  ASSUME Inv, StopInv, ScanInv, [Next]_vars PROVE ScanInv'
<1> USE DEF Inv, TypeOK
<1> DEFINE Seen == \A s \in Streams : s < wi => \A m \in InRing(s) : m \notin Owed
<1>1. CASE WorkerTest
  <2>1. wi' = 1 /\ wpc' # "done"
    BY <1>1 DEF WorkerTest, At
  <2> QED
    BY <2>1 DEF ScanInv, Streams
<1>2. ASSUME wpc \in {"scan", "done"}, ~Shutdown, wi' = wi, wpc' = wpc PROVE ScanInv'
  <2>1. owed' = owed
    BY <1>2 DEF Next, Worker, WorkerOnline, WorkerTest, WorkerScan, WorkerSweep, WorkerTake,
       WorkerWrite, MainThread, LaunchWorker, SetupDone, Joined, Fatal, FlushScan, FlushNap,
       Over, Put, vars, stopVars, Logging, Queue, SyncEnter, Resume, SpuriousWakeup, Fill,
       SyncWrite
  <2>2. Owed' = Owed
    BY <2>1 DEF Owed
  <2>3. ASSUME NEW s \in Streams, s < wi, NEW m \in InRing(s)' PROVE m \notin Owed
    BY <1>2, <2>3, ContentsStep, NewIsNotOwed DEF ScanInv
  <2> QED
    BY <1>2, <2>2, <2>3 DEF ScanInv
<1>3. CASE WorkerScan
  <2>1. Owed' = Owed /\ RingsStand /\ wpc = "scan"
    BY <1>3 DEF WorkerScan, Owed, RingsStand, stopVars, ringVars, callVars
  <2>2. \A s \in Streams : InRing(s)' = InRing(s)
    BY <2>1, StandKeepsContents
  <2>3. CASE wi > NStreams
    BY <1>3, <2>1, <2>2, <2>3 DEF WorkerScan, At, ScanInv
  <2>4. CASE ~(wi > NStreams) /\ count[wi] = 0
    <3>1. wi \in Streams /\ wi' = wi + 1 /\ wpc' = "scan"
      BY <1>3, <2>4 DEF WorkerScan, At, WorkerTypes, Streams
    <3>2. InRing(wi) = {}
      BY <2>4, <3>1, EmptyRing
    <3>3. ASSUME NEW s \in Streams, s < wi + 1, NEW m \in InRing(s) PROVE m \notin Owed
      BY <2>1, <3>1, <3>2, <3>3 DEF ScanInv, Streams
    <3> QED
      BY <2>1, <2>2, <3>1, <3>3 DEF ScanInv
  <2>5. CASE ~(wi > NStreams) /\ count[wi] # 0
    BY <1>3, <2>5 DEF WorkerScan, At, ScanInv
  <2> QED
    BY <2>3, <2>4, <2>5
<1>4. CASE wpc' \notin {"scan", "done"}
  BY <1>4 DEF ScanInv
<1>5. ASSUME WorkerOnline \/ WorkerSweep \/ WorkerTake \/ WorkerWrite \/ LaunchWorker
      PROVE  wpc' \notin {"scan", "done"}
  BY <1>5 DEF WorkerOnline, WorkerSweep, WorkerTake, WorkerWrite, LaunchWorker, At
<1>6. ASSUME (\E t \in Threads : Logging(t)) \/ SetupDone \/ Shutdown \/ Joined \/ Fatal
             \/ FlushScan \/ FlushNap \/ Over \/ UNCHANGED vars
      PROVE  wi' = wi /\ wpc' = wpc
  BY <1>6 DEF Logging, Queue, SyncEnter, Resume, SpuriousWakeup, Fill, SyncWrite, Put,
     SetupDone, Shutdown, Joined, Fatal, FlushScan, FlushNap, Over, vars, workerVars
<1>7. ASSUME Shutdown PROVE wpc \notin {"scan", "done"}
  BY <1>7 DEF Shutdown, StopInv
<1> QED
  BY <1>1, <1>2, <1>3, <1>4, <1>5, <1>6, <1>7 DEF Next, Worker, MainThread

LEMMA FlushInvStep ==
  ASSUME Inv, FlushInv, [Next]_vars PROVE FlushInv'
<1> USE DEF Inv, TypeOK
<1>1. CASE FlushScan
  <2>1. RingsStand /\ pc[Main] = "scan" /\ Main \in Threads
    BY <1>1 DEF FlushScan, Abort, RingsStand, ringVars, callVars, Threads, CallTypes
  <2>2. \A s \in Streams : InRing(s)' = InRing(s)
    BY <2>1, StandKeepsContents
  <2>3. CASE fi > NStreams
    <3>1. fi' = fi /\ pc'[Main] = "aborted"
      BY <1>1, <2>1, <2>3 DEF FlushScan, Abort, CallTypes
    <3> QED
      BY <2>2, <2>3, <3>1 DEF FlushInv
  <2>4. CASE ~(fi > NStreams) /\ count[fi] = 0
    <3>1. fi \in Streams /\ fi' = fi + 1 /\ pc' = pc /\ drained' = drained
      BY <1>1, <2>4 DEF FlushScan, StopTypes, Streams
    <3>2. InRing(fi) = {}
      BY <2>4, <3>1, EmptyRing
    <3>3. ASSUME NEW s \in Streams, s < fi + 1, NEW m \in InRing(s) PROVE m[1] # Main
      BY <3>1, <3>2, <3>3 DEF FlushInv, Streams
    <3>4. drained => FALSE
      BY <2>4 DEF FlushInv
    <3> QED
      BY <2>1, <2>2, <3>1, <3>3, <3>4 DEF FlushInv
  <2>5. CASE ~(fi > NStreams) /\ count[fi] # 0
    <3>1. fi' = 1 /\ drained' = drained
      BY <1>1, <2>5 DEF FlushScan
    <3>2. drained => FALSE
      BY <2>5 DEF FlushInv
    <3> QED
      BY <3>1, <3>2 DEF FlushInv, Streams
  <2> QED
    BY <2>3, <2>4, <2>5
<1>2. CASE FlushNap
  <2>1. RingsStand /\ fi = 1 /\ fi' = 1 /\ drained' = drained
    BY <1>2 DEF FlushNap, Abort, RingsStand, ringVars, callVars, Threads, CallTypes, FlushInv
  <2> QED
    BY <2>1 DEF FlushInv, Streams
<1>3. ASSUME UNCHANGED <<fi, drained>>, fi = 1 PROVE FlushInv'
  BY <1>3 DEF FlushInv, Streams
<1>4. ASSUME UNCHANGED <<fi, drained>>, pc[Main] \in {"scan", "aborted"}, pc'[Main] = pc[Main]
      PROVE FlushInv'
  <2>1. ASSUME NEW t \in Threads, Fill(t) PROVE Message(t)[1] # Main
    BY <1>4, <2>1 DEF Fill, Message
  <2>2. ASSUME NEW s \in Streams, s < fi, NEW m \in InRing(s)' PROVE m[1] # Main
    BY <2>1, <2>2, ContentsStep DEF FlushInv
  <2> QED
    BY <1>4, <2>2 DEF FlushInv
<1>5. ASSUME ~FlushScan, ~FlushNap
      PROVE  UNCHANGED <<fi, drained>>
  BY <1>5 DEF Next, Worker, WorkerOnline, WorkerTest, WorkerScan, WorkerSweep, WorkerTake,
     WorkerWrite, MainThread, LaunchWorker, SetupDone, Shutdown, Joined, Fatal,
     Over, Put, vars, flushVars, Logging, Queue, SyncEnter, Resume, SpuriousWakeup, Fill,
     SyncWrite
<1>6. ASSUME ~FlushScan, ~FlushNap, pc[Main] \in {"scan", "aborted"}
      PROVE  pc'[Main] = pc[Main]
  <2>1. ASSUME NEW t \in Threads, Logging(t) PROVE pc'[Main] = pc[Main]
    BY <1>6, <2>1 DEF Logging, Queue, MaySend, SyncEnter, Resume, SpuriousWakeup, Fill,
       SyncWrite, Put, Claim, AwaitRoom, Threads, CallTypes
  <2>2. ASSUME Worker PROVE pc'[Main] = pc[Main]
    BY <1>6, <2>2 DEF Worker, WorkerOnline, WorkerTest, WorkerScan, WorkerSweep, WorkerTake,
       WorkerWrite, Signal, Waiters, Threads, CallTypes
  <2>3. ~LaunchWorker /\ ~SetupDone /\ ~Shutdown /\ ~Joined /\ ~Fatal
    BY <1>6 DEF LaunchWorker, SetupDone, Shutdown, Joined, Fatal
  <2>4. ASSUME Over \/ UNCHANGED vars PROVE pc'[Main] = pc[Main]
    BY <2>4 DEF Over, vars
  <2> QED
    BY <1>6, <2>1, <2>2, <2>3, <2>4 DEF Next, MainThread
<1> QED
  BY <1>1, <1>2, <1>3, <1>4, <1>5, <1>6 DEF FlushInv

LEMMA InitEndInv == Init => EndInv
<1> SUFFICES ASSUME Init PROVE EndInv
  OBVIOUS
<1>1. Inv
  BY InitInv
<1>2. Handed = {}
  BY <1>1 DEF Init, Handed, Messages
<1>3. fi = 1 /\ ~drained /\ wpc = "unborn" /\ ~stop /\ pc[Main] = "setup"
  BY DEF Init, Threads
<1>4. \A t \in Threads : owed[t] <= sent[t]
  BY DEF Init
<1> QED
  BY <1>2, <1>3, <1>4 DEF EndInv, Accounted, StopInv, ScanInv, FlushInv, Streams

LEMMA EndInvariance == Spec => []EndInv
<1>1. Init => EndInv
  BY InitEndInv
<1>2. Inv /\ EndInv /\ [Next]_vars => EndInv'
  BY AccountedStep, StopInvStep, ScanInvStep, FlushInvStep DEF EndInv
<1> QED
  BY <1>1, <1>2, Invariance, PTL DEF Spec

LEMMA SentIsHanded ==
  ASSUME Inv, NEW t \in Threads, NEW k \in 0..sent[t]
  PROVE  SentBy(t, k) \subseteq Handed
<1>1. sent[t] \in 0..(Budget + 1)
  BY DEF Inv, TypeOK, CallTypes
<1> QED
  BY <1>1 DEF SentBy, Handed, Messages

\* light_stream_shutdown() loses nothing: when thrd_join() has returned, whatever any
\* thread had handed over before the stop flag went up is written.
THEOREM Shutdowns == Spec => []ShutdownWritesEverything
<1>1. Inv /\ EndInv => ShutdownWritesEverything
  <2> SUFFICES ASSUME Inv, EndInv, pc[Main] = "ended", NEW t \in Threads,
                      NEW m \in SentBy(t, owed[t])
               PROVE  m \in Written
    BY DEF ShutdownWritesEverything
  <2>1. wpc = "done" /\ wi > NStreams /\ wi \in 1..(NStreams + 1)
    BY DEF EndInv, StopInv, ScanInv, Inv, TypeOK, WorkerTypes
  <2>2. owed[t] \in 0..sent[t]
    BY DEF EndInv, StopInv, Inv, TypeOK, CallTypes, StopTypes
  <2>3. m \in Handed
    BY <2>2, SentIsHanded
  <2>4. m \in Owed
    BY <2>3 DEF SentBy, Owed, Handed
  <2>5. \A s \in Streams : m \notin InRing(s)
    BY <2>1, <2>4 DEF EndInv, ScanInv, Streams
  <2> QED
    BY <2>1, <2>3, <2>5 DEF EndInv, Accounted, InHands
<1> QED
  BY <1>1, Invariance, EndInvariance, PTL

\* light_stream_flush() that returns before its timeout leaves at most one message of the
\* thread that called it unwritten, the one the worker has taken and is writing.
THEOREM Flushes == Spec => []FlushLeavesOnlyTheLast
<1>1. Inv /\ EndInv => FlushLeavesOnlyTheLast
  <2> SUFFICES ASSUME Inv, EndInv, drained,
                      NEW m \in SentBy(Main, sent[Main]), m \notin Written
               PROVE  m \in InHands
    BY DEF FlushLeavesOnlyTheLast, InHands
  <2>1. Main \in Threads /\ sent[Main] \in 0..sent[Main]
    BY DEF Threads, Inv, TypeOK, CallTypes
  <2>2. m \in Handed /\ m[1] = Main
    BY <2>1, SentIsHanded DEF SentBy
  <2>3. \A s \in Streams : m \notin InRing(s)
    BY <2>2 DEF EndInv, FlushInv, Streams, Inv, TypeOK, StopTypes
  <2> QED
    BY <2>2, <2>3 DEF EndInv, Accounted
<1> QED
  BY <1>1, Invariance, EndInvariance, PTL

=============================================================================
