---------------------------- MODULE LightStream ----------------------------
(***************************************************************************)
(* The asynchronous output path of module/light_core/src/stream.c on a     *)
(* platform with threads: any thread formats a message into its stream's   *)
(* ring under the stream's lock, one worker thread drains every ring and   *)
(* calls the stream's handler with the lock released.  The main thread     *)
(* also runs light_stream_setup(), light_stream_shutdown() and, through    *)
(* light_fatal(), light_stream_flush().                                    *)
(*                                                                         *)
(* A call holds the lock from its first step to the step that releases it; *)
(* what it does under the lock is one step wherever no other thread can    *)
(* tell the difference.  The claim and the fill of a slot are two, because *)
(* count is read by threads that do not hold the lock.                     *)
(***************************************************************************)
EXTENDS Integers, Sequences, FiniteSets

CONSTANTS NStreams,    \* streams_defined_count; stderr is the last one
          Producers,   \* threads that log, besides the main thread
          Main,        \* the thread that runs the framework
          Depth,       \* LIGHT_STREAM_MQUEUE_DEPTH
          FlushPolls,  \* LIGHT_STREAM_FLUSH_TIMEOUT_MS, in polls of 1 ms
          Budget,      \* bound: ordinary messages each thread sends
          NoOne,       \* a lock nobody holds
          NoMsg        \* a slot, or a drain buffer, nothing was written to yet

ASSUME NStreamsAssumption == NStreams \in Nat \ {0}
ASSUME DepthAssumption    == Depth \in 1..255      \* count and head are uint8_t
ASSUME BudgetAssumption   == Budget \in Nat
ASSUME PollsAssumption    == FlushPolls \in Nat \ {0}
ASSUME ThreadsAssumption  ==
  IsFiniteSet(Producers) /\ Main \notin Producers /\ NoOne \notin Producers \cup {Main}

Streams  == 1..NStreams
Stderr   == NStreams
Threads  == Producers \cup {Main}
Slots    == 0..(Depth - 1)
Messages == Threads \X (1..(Budget + 1))     \* <<t, n>>: the n-th message of t

ASSUME MessageAssumption  == NoMsg \notin Messages

VARIABLES
  lock,     \* lock[s]: the thread inside s's critical section, or NoOne
  count,    \* count[s], head[s], slot[s]: the stream's light_stream_mqueue
  head,
  slot,
  pc,       \* pc[t]: where thread t stands in its call
  stream,   \* stream[t], index[t]: the call's stream and the slot it claimed
  index,
  sent,     \* sent[t]: messages t has handed over, synchronous ones included
  wpc,      \* where the worker stands, and the stream its loop is at
  wi,
  text,     \* drain_text, the worker's copy of the message it took
  out,      \* out[s]: what s's handler was given
  stop,     \* worker_should_stop
  owed,     \* owed[t]: sent[t] when light_stream_shutdown() was called
  fatal,    \* the main thread is inside light_fatal()
  fi,       \* light_stream_flush(): the queue it looks at next,
  polls,    \*   the polls it has made,
  drained   \*   and that it returned because it saw every queue empty

ringVars   == <<lock, count, head, slot>>
callVars   == <<stream, index, sent>>
workerVars == <<wpc, wi, text>>
flushVars  == <<fatal, fi, polls, drained>>
stopVars   == <<stop, owed>>
vars == <<ringVars, pc, callVars, workerVars, out, stopVars, flushVars>>

Init ==
  /\ lock    = [s \in Streams |-> NoOne]
  /\ count   = [s \in Streams |-> 0]
  /\ head    = [s \in Streams |-> 0]
  /\ slot    = [s \in Streams |-> [i \in Slots |-> NoMsg]]
  /\ pc      = [t \in Threads |-> IF t = Main THEN "setup" ELSE "idle"]
  /\ stream  = [t \in Threads |-> 1]
  /\ index   = [t \in Threads |-> 0]
  /\ sent    = [t \in Threads |-> 0]
  /\ wpc     = "unborn" /\ wi = 1 /\ text = NoMsg
  /\ out     = [s \in Streams |-> <<>>]
  /\ stop    = FALSE /\ owed = [t \in Threads |-> 0]
  /\ fatal   = FALSE /\ fi = 1 /\ polls = 0 /\ drained = FALSE

\* light_platform_abort() takes every thread of the process with it.
Running == pc[Main] # "aborted"

-----------------------------------------------------------------------------
(* light_stream_setup(): launch the worker and poll until it says it runs. *)

LaunchWorker ==
  /\ pc[Main] = "setup"
  /\ wpc' = "starting"
  /\ pc'  = [pc EXCEPT ![Main] = "handshake"]
  /\ UNCHANGED <<ringVars, callVars, wi, text, out, stopVars, flushVars>>

WorkerOnline ==
  /\ Running /\ wpc = "starting"
  /\ wpc' = "test"
  /\ UNCHANGED <<ringVars, pc, callVars, wi, text, out, stopVars, flushVars>>

Online == wpc \notin {"unborn", "starting"}

SetupDone ==
  /\ pc[Main] = "handshake" /\ Online
  /\ pc' = [pc EXCEPT ![Main] = "idle"]
  /\ UNCHANGED <<ringVars, callVars, workerVars, out, stopVars, flushVars>>

-----------------------------------------------------------------------------
(* Queueing a message: mqueue_put_formatted() and light_stream_mqueue_add_fast(). *)

NextSlot(h) == (h + 1) % Depth

\* Mutant: the claim does not test for room.
ClaimUntested(t, s) ==
  /\ lock'  = [lock EXCEPT ![s] = t]
  /\ index' = [index EXCEPT ![t] = head[s]]
  /\ count' = [count EXCEPT ![s] = @ + 1]
  /\ head'  = [head EXCEPT ![s] = NextSlot(@)]
  /\ pc'    = [pc EXCEPT ![t] = "fill"]

\* mqueue_claim_slot(): the slot is counted before it is written.
Claim(t, s) ==
  /\ count[s] < Depth
  /\ lock'  = [lock EXCEPT ![s] = t]
  /\ index' = [index EXCEPT ![t] = head[s]]
  /\ count' = [count EXCEPT ![s] = @ + 1]
  /\ head'  = [head EXCEPT ![s] = NextSlot(@)]
  /\ pc'    = [pc EXCEPT ![t] = "fill"]

\* Mutant: the thread sleeps with the lock held.
AwaitRoomLocked(t, s) ==
  /\ count[s] >= Depth
  /\ lock' = [lock EXCEPT ![s] = t]
  /\ pc'   = [pc EXCEPT ![t] = "wait"]
  /\ UNCHANGED <<count, head, index>>

\* light_condition_wait(): gives the lock up and sleeps in one step.
AwaitRoom(t, s) ==
  /\ count[s] >= Depth
  /\ pc' = [pc EXCEPT ![t] = "wait"]
  /\ UNCHANGED <<lock, count, head, index>>

Put(t, s) ==
  /\ lock[s] = NoOne
  /\ stream' = [stream EXCEPT ![t] = s]
  /\ Claim(t, s) \/ AwaitRoom(t, s)
  /\ UNCHANGED <<slot, sent, workerVars, out, stopVars, fi, polls, drained>>

MaySend(t) ==
  /\ Running /\ pc[t] = "idle"
  /\ sent[t] < Budget
  /\ t # Main => Online

Queue(t, s) == MaySend(t) /\ Put(t, s) /\ UNCHANGED fatal

\* A woken thread takes the lock again and tests count again.
Resume(t) == Running /\ pc[t] = "woken" /\ Put(t, stream[t]) /\ UNCHANGED fatal

\* cnd_wait() may return although nobody signalled.
SpuriousWakeup(t) ==
  /\ Running /\ pc[t] = "wait"
  /\ pc' = [pc EXCEPT ![t] = "woken"]
  /\ UNCHANGED <<ringVars, callVars, workerVars, out, stopVars, flushVars>>

Message(t) == <<t, sent[t] + 1>>

\* Write the claimed slot and release the lock.  light_fatal() goes on to flush.
Fill(t) ==
  LET s == stream[t] IN
  /\ Running /\ pc[t] = "fill"
  /\ slot' = [slot EXCEPT ![s][index[t]] = Message(t)]
  /\ lock' = [lock EXCEPT ![s] = NoOne]
  /\ sent' = [sent EXCEPT ![t] = @ + 1]
  /\ pc'   = [pc EXCEPT ![t] = IF t = Main /\ fatal THEN "scan" ELSE "idle"]
  /\ UNCHANGED <<count, head, stream, index, workerVars, out, stopVars, flushVars>>

-----------------------------------------------------------------------------
(* light_stream_message_vf_sync(): the handler runs under the stream's lock. *)

SyncEnter(t, s) ==
  /\ MaySend(t) /\ lock[s] = NoOne
  /\ lock'   = [lock EXCEPT ![s] = t]
  /\ stream' = [stream EXCEPT ![t] = s]
  /\ pc'     = [pc EXCEPT ![t] = "sync"]
  /\ UNCHANGED <<count, head, slot, index, sent, workerVars, out, stopVars, flushVars>>

SyncWrite(t) ==
  LET s == stream[t] IN
  /\ Running /\ pc[t] = "sync"
  /\ out'  = [out EXCEPT ![s] = Append(@, Message(t))]
  /\ lock' = [lock EXCEPT ![s] = NoOne]
  /\ sent' = [sent EXCEPT ![t] = @ + 1]
  /\ pc'   = [pc EXCEPT ![t] = "idle"]
  /\ UNCHANGED <<count, head, slot, stream, index, workerVars, stopVars, flushVars>>

-----------------------------------------------------------------------------
(* The worker: worker__handle_background_message_streams() around           *)
(* light_stream_service_message_queues().                                   *)

At(p, i) == wpc' = p /\ wi' = i

\* Mutant: the stop flag alone ends the loop.
WorkerTestStopOnly ==
  /\ Running /\ wpc = "test"
  /\ At(IF stop THEN "done" ELSE "sweep", 1)
  /\ UNCHANGED <<ringVars, pc, callVars, text, out, stopVars, flushVars>>

\* while(!worker_should_stop || !_all_stream_queues_empty()), left to right
WorkerTest ==
  /\ Running /\ wpc = "test"
  /\ At(IF stop THEN "scan" ELSE "sweep", 1)
  /\ UNCHANGED <<ringVars, pc, callVars, text, out, stopVars, flushVars>>

WorkerScan ==
  /\ Running /\ wpc = "scan"
  /\ IF wi > NStreams THEN At("done", wi)
     ELSE IF count[wi] = 0 THEN At("scan", wi + 1) ELSE At("sweep", 1)
  /\ UNCHANGED <<ringVars, pc, callVars, text, out, stopVars, flushVars>>

\* Mutant: the sweep ends one stream early.
WorkerSweepShort ==
  /\ Running /\ wpc = "sweep"
  /\ IF wi >= NStreams THEN At("test", 1)
     ELSE IF count[wi] = 0 THEN At("sweep", wi + 1) ELSE At("lock", wi)
  /\ UNCHANGED <<ringVars, pc, callVars, text, out, stopVars, flushVars>>

\* The first test of the queue is made without its lock.
WorkerSweep ==
  /\ Running /\ wpc = "sweep"
  /\ IF wi > NStreams THEN At("test", 1)
     ELSE IF count[wi] = 0 THEN At("sweep", wi + 1) ELSE At("lock", wi)
  /\ UNCHANGED <<ringVars, pc, callVars, text, out, stopVars, flushVars>>

\* Mutant: the slot the next claim will take.
OldestIsHead(s) == head[s]

\* light_stream_mqueue_peek(): unsigned arithmetic kept non-negative by Depth
Oldest(s) == (Depth + (head[s] - count[s])) % Depth

Waiters(s) == {t \in Threads : pc[t] = "wait" /\ stream[t] = s}

\* Mutant: advance forgets to signal.
SignalNobody(s) == UNCHANGED pc

\* light_condition_signal(): one waiter, when there is one
Signal(s) ==
  IF Waiters(s) = {} THEN UNCHANGED pc
  ELSE \E t \in Waiters(s) : pc' = [pc EXCEPT ![t] = "woken"]

\* Under the lock: test again, copy the oldest message, advance, signal.
WorkerTake ==
  /\ Running /\ wpc = "lock" /\ lock[wi] = NoOne
  /\ IF count[wi] = 0
     THEN At("sweep", wi + 1) /\ UNCHANGED <<text, count, pc>>
     ELSE /\ At("write", wi)
          /\ text'  = slot[wi][Oldest(wi)]
          /\ count' = [count EXCEPT ![wi] = @ - 1]
          /\ Signal(wi)
  /\ UNCHANGED <<lock, head, slot, callVars, out, stopVars, flushVars>>

\* The handler, with the lock released: producers run meanwhile.
WorkerWrite ==
  /\ Running /\ wpc = "write"
  /\ out' = [out EXCEPT ![wi] = Append(@, text)]
  /\ At("sweep", wi + 1)
  /\ UNCHANGED <<ringVars, pc, callVars, text, stopVars, flushVars>>

-----------------------------------------------------------------------------
(* light_stream_shutdown(): the stop flag, then thrd_join(). *)

Shutdown ==
  /\ pc[Main] = "idle"
  /\ stop' = TRUE /\ owed' = sent
  /\ pc' = [pc EXCEPT ![Main] = "joining"]
  /\ UNCHANGED <<ringVars, callVars, workerVars, out, flushVars>>

Joined ==
  /\ pc[Main] = "joining" /\ wpc = "done"
  /\ pc' = [pc EXCEPT ![Main] = "ended"]
  /\ UNCHANGED <<ringVars, callVars, workerVars, out, stopVars, flushVars>>

-----------------------------------------------------------------------------
(* light_fatal(): log to stderr, flush, abort.  Also what a failed          *)
(* thrd_create() in light_stream_setup() comes to.                          *)

Fatal ==
  /\ pc[Main] \in {"idle", "setup"}
  /\ fatal' = TRUE
  /\ Put(Main, Stderr)

Abort == pc' = [pc EXCEPT ![Main] = "aborted"]

\* Mutant: the flush looks at the first queue only.
FlushScanFirst ==
  /\ pc[Main] = "scan"
  /\ IF fi > 1 THEN Abort /\ drained' = TRUE /\ UNCHANGED fi
     ELSE /\ UNCHANGED drained
          /\ IF count[fi] = 0 THEN fi' = fi + 1 /\ UNCHANGED pc
             ELSE fi' = 1 /\ pc' = [pc EXCEPT ![Main] = "nap"]
  /\ UNCHANGED <<ringVars, callVars, workerVars, out, stopVars, fatal, polls>>

\* One queue of _all_stream_queues_empty(), read without its lock.
FlushScan ==
  /\ pc[Main] = "scan"
  /\ IF fi > NStreams THEN Abort /\ drained' = TRUE /\ UNCHANGED fi
     ELSE /\ UNCHANGED drained
          /\ IF count[fi] = 0 THEN fi' = fi + 1 /\ UNCHANGED pc
             ELSE fi' = 1 /\ pc' = [pc EXCEPT ![Main] = "nap"]
  /\ UNCHANGED <<ringVars, callVars, workerVars, out, stopVars, fatal, polls>>

FlushNap ==
  /\ pc[Main] = "nap"
  /\ polls' = polls + 1
  /\ IF polls' = FlushPolls THEN Abort ELSE pc' = [pc EXCEPT ![Main] = "scan"]
  /\ UNCHANGED <<ringVars, callVars, workerVars, out, stopVars, fatal, fi, drained>>

-----------------------------------------------------------------------------

Worker ==
  WorkerOnline \/ WorkerTest \/ WorkerScan \/ WorkerSweep \/ WorkerTake \/ WorkerWrite

MainThread ==
  LaunchWorker \/ SetupDone \/ Shutdown \/ Joined \/ Fatal \/ FlushScan \/ FlushNap

Logging(t) ==
  \/ \E s \in Streams : Queue(t, s) \/ SyncEnter(t, s)
  \/ Resume(t) \/ SpuriousWakeup(t) \/ Fill(t) \/ SyncWrite(t)

\* The process is gone, or the framework has returned and nobody drains any more.
Over == (~Running \/ pc[Main] = "ended") /\ UNCHANGED vars

Next == Worker \/ MainThread \/ (\E t \in Threads : Logging(t)) \/ Over

\* The scheduler runs every thread that can run; nobody is made to start a call.
Fairness ==
  /\ WF_vars(Worker)
  /\ WF_vars(SetupDone \/ Joined \/ FlushScan \/ FlushNap)
  /\ \A t \in Threads : WF_vars(Resume(t) \/ Fill(t) \/ SyncWrite(t))

Spec     == Init /\ [][Next]_vars
FairSpec == Spec /\ Fairness

-----------------------------------------------------------------------------
(* Properties.                                                             *)

ThreadStates == {"setup", "handshake", "idle", "fill", "wait", "woken", "sync",
                 "scan", "nap", "aborted", "joining", "ended"}

RingTypes ==
  /\ lock   \in [Streams -> Threads \cup {NoOne}]
  /\ count  \in [Streams -> 0..Depth]
  /\ head   \in [Streams -> Slots]
  /\ slot   \in [Streams -> [Slots -> Messages \cup {NoMsg}]]

CallTypes ==
  /\ pc     \in [Threads -> ThreadStates]
  /\ \A t \in Producers : pc[t] \in {"idle", "fill", "wait", "woken", "sync"}
  /\ stream \in [Threads -> Streams]
  /\ index  \in [Threads -> Slots]
  /\ sent   \in [Threads -> 0..(Budget + 1)]

WorkerTypes ==
  /\ wpc  \in {"unborn", "starting", "test", "scan", "sweep", "lock", "write", "done"}
  /\ wi   \in 1..(NStreams + 1)
  /\ text \in Messages \cup {NoMsg}

OutTypes == out \in [Streams -> Seq(Messages)]

StopTypes ==
  /\ owed  \in [Threads -> 0..(Budget + 1)]
  /\ fi    \in 1..(NStreams + 1)
  /\ polls \in 0..FlushPolls

FlagTypes == stop \in BOOLEAN /\ fatal \in BOOLEAN /\ drained \in BOOLEAN

TypeOK == RingTypes /\ CallTypes /\ WorkerTypes /\ OutTypes /\ StopTypes /\ FlagTypes

Woken(s)   == {t \in Threads : pc[t] = "woken" /\ stream[t] = s}
Filling(s) == {t \in Threads : pc[t] = "fill" /\ stream[t] = s}

\* No wake-up is lost: while a producer sleeps for room in a ring, every free slot of
\* that ring is matched by a producer already woken to take it (mqueue_claim_slot()'s
\* wait against light_stream_mqueue_advance()'s signal, one per message).
NoLostWakeup ==
  \A s \in Streams : Waiters(s) # {} => count[s] + Cardinality(Woken(s)) >= Depth

\* What a stream still owes its handler: the message in the worker's hands, then the
\* ring from its oldest slot on, without a slot that is claimed and not yet written.
Ready(s)   == IF Filling(s) = {} THEN count[s] ELSE count[s] - 1
Place(s, i) == (Depth + (head[s] - count[s]) + (i - 1)) % Depth
Queued(s)  == [i \in 1..Ready(s) |-> slot[s][Place(s, i)]]
InHand(s)  == IF wpc = "write" /\ wi = s THEN <<text>> ELSE <<>>
Pending    == [s \in Streams |-> InHand(s) \o Queued(s)]

Log == INSTANCE MessageLog WITH Capacity <- Depth + 1, pending <- Pending

\* The ring, its lock and the worker together are a bounded FIFO per stream: every
\* message is handed to the handler once, in the order its calls filled their slots,
\* and a synchronous one goes past the queue.
ImplementsMessageLog == Log!Spec

Written == UNION {{out[s][i] : i \in DOMAIN out[s]} : s \in Streams}
SentBy(t, upTo) == {<<t, n>> : n \in 1..upTo}

\* light_stream_shutdown() loses nothing: once thrd_join() has returned, whatever any
\* thread had handed over before the stop flag went up is written.
ShutdownWritesEverything ==
  pc[Main] = "ended" => \A t \in Threads : SentBy(t, owed[t]) \subseteq Written

\* light_stream_flush() that returns before its timeout leaves at most one of the
\* caller's own messages unwritten, and that one is with the worker's handler.
FlushLeavesOnlyTheLast ==
  drained => SentBy(Main, sent[Main]) \ Written \subseteq
               (IF wpc = "write" THEN {text} ELSE {})

\* "blocks until every queued message has been written": light_stream.h's promise for
\* light_stream_flush(), which light_fatal() relies on before it aborts.
FlushWritesEverything ==
  drained => SentBy(Main, sent[Main]) \subseteq Written

\* A call that finds the ring full does not sleep for ever: the worker makes room.
EveryCallReturns ==
  \A t \in Threads :
    pc[t] \in {"wait", "woken", "fill", "sync"} ~>
      pc[t] \notin {"wait", "woken", "fill", "sync"} \/ wpc = "done" \/ ~Running

\* What is queued is written in the end, unless the process is aborted first or the
\* worker had already been told to stop and had left.
EverythingWritten ==
  \A t \in Threads : \A n \in 1..(Budget + 1) :
    sent[t] >= n ~> <<t, n>> \in Written \/ wpc \in {"unborn", "done"} \/ ~Running

=============================================================================
