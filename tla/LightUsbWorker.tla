---------------------------- MODULE LightUsbWorker ----------------------------
(***************************************************************************)
(* The RP2350 with its USB stack on core 1: the worker that pumps TinyUSB, *)
(* drains the log queues and reads the console there, and the two things   *)
(* core 0 needs it for: typed lines, and the message of a panic, which     *)
(* core 0 formats and core 1 prints.                                       *)
(*                                                                         *)
(* Both cores run at once; a step is what one of them does between two     *)
(* looks at what they share.  Time passes in units of one write that the   *)
(* USB host does not take (stdio_usb gives up on it after that long): core *)
(* 1 is busy for one unit in such a write and for PumpTime units after it  *)
(* has printed a panic, and core 0 waits at most HandoffTimeout units.     *)
(***************************************************************************)
EXTENDS Integers, Sequences, SequencesExt

CONSTANTS
    HandoffTimeout,     \* LIGHT_PANIC_HANDOFF_TIMEOUT_MS, in units
    PumpTime,           \* how long a printed panic is pumped, in units
    QueueDepth,         \* LIGHT_STREAM_MQUEUE_DEPTH
    MaxStreams,         \* LIGHT_STREAM_MAX_STREAMS
    LineMax,            \* characters a line holds
    MaxLogs,            \* bound on the messages core 0 logs
    MaxLines            \* bound on the lines somebody types

ASSUME UsbAssumption ==
    /\ {PumpTime, QueueDepth, MaxStreams, LineMax} \subseteq Nat \ {0}
    /\ HandoffTimeout \in Nat /\ PumpTime <= HandoffTimeout
    /\ MaxLogs \in Nat /\ MaxLines \in Nat

VARIABLES
    core0,          \* what core 0 is doing
    core1,          \* what core 1 is doing
    usbReady,       \* _usb_core1_ready
    drainReady,     \* light_stream_drain_ready
    stopRequested,  \* _worker_stop_requested
    workerFinished, \* _worker_finished
    panicPending,   \* _panic_pending
    panicPrinted,   \* _panic_printed
    onWire,         \* core 0's panic message has been pumped to the host in full
    lockHeld,       \* core 0 panicked holding the lock of the log stream
    waited,         \* units core 0 has waited for core 1 to print
    busy,           \* units core 1 is still busy in what it does
    lag,            \* units core 1 spent in writes while a panic waited
    logs,           \* messages in the log queue
    writeReady,     \* the flag that stands for the queue's condition
    logged,         \* messages core 0 has logged so far
    sweeps,         \* iterations of the worker's last drain so far
    length,         \* characters of the line being typed
    typed,          \* lines completed so far
    lines,          \* the console queue: numbers of completed lines
    dropped,        \* lines announced as dropped
    taken           \* what the application has taken, in order

panicVars == <<panicPending, panicPrinted, onWire, lockHeld, waited, lag>>
logVars == <<logs, writeReady, logged>>
consoleVars == <<length, typed, lines, dropped, taken>>
flagVars == <<usbReady, drainReady, stopRequested, workerFinished>>
usbVars == <<core0, core1, flagVars, panicVars, busy, logVars, sweeps, consoleVars>>

MainLoop == {"test", "test_panic", "service", "console", "test_room", "add"}
Left == {"drain", "tail", "finished"}

-------------------------------------------------------------------------------
\* Core 0.

\* light_platform_init(): the console queue, then the worker, then wait for it
\* to have started TinyUSB before stdio is touched.
WorkerLaunch ==
    /\ core0 = "boot"
    /\ core0' = "wait_for_core_1"
    /\ core1' = "start"
    /\ stopRequested' = FALSE /\ workerFinished' = FALSE
    /\ UNCHANGED <<usbReady, drainReady, panicVars, busy, logVars, sweeps, consoleVars>>

PlatformUp ==
    /\ core0 = "wait_for_core_1" /\ usbReady
    /\ core0' = "running"
    /\ UNCHANGED <<core1, flagVars, panicVars, busy, logVars, sweeps, consoleVars>>

\* light_stream_setup() has made the queues.
StreamsUp ==
    /\ core0 = "running" /\ ~drainReady
    /\ drainReady' = TRUE
    /\ UNCHANGED <<core0, core1, usbReady, stopRequested, workerFinished, panicVars,
                   busy, logVars, sweeps, consoleVars>>

\* mqueue_claim_slot() under the lock: a slot, or back to the wait for one.
ClaimSlot ==
    /\ IF logs < QueueDepth
       THEN core0' = "running" /\ logs' = logs + 1 /\ logged' = logged + 1
       ELSE core0' = "wait_for_room" /\ UNCHANGED <<logs, logged>>
    /\ UNCHANGED <<core1, flagVars, panicVars, busy, writeReady, sweeps, consoleVars>>

Log == core0 = "running" /\ drainReady /\ logged < MaxLogs /\ ClaimSlot

\* light_core_port_condition_wait() has no scheduler to block on: it spins on
\* the flag and clears it, both with the lock released, and locks again.
RoomSeen ==
    /\ core0 = "wait_for_room" /\ writeReady
    /\ core0' = "room_seen"
    /\ UNCHANGED <<core1, flagVars, panicVars, busy, logVars, sweeps, consoleVars>>

RoomClear ==
    /\ core0 = "room_seen"
    /\ writeReady' = FALSE
    /\ core0' = "retry"
    /\ UNCHANGED <<core1, flagVars, panicVars, busy, logs, logged, sweeps, consoleVars>>

Retry == core0 = "retry" /\ ClaimSlot

\* light_core_port_console_take_line()
TakeLine ==
    /\ core0 = "running" /\ lines # <<>>
    /\ taken' = Append(taken, Head(lines))
    /\ lines' = Tail(lines)
    /\ UNCHANGED <<core0, core1, flagVars, panicVars, busy, logVars, sweeps,
                   length, typed, dropped>>

\* light_stream_shutdown(): the stop, then the join, which has no bound.
SignalStop ==
    /\ core0 = "running" /\ drainReady
    /\ stopRequested' = TRUE
    /\ core0' = "join"
    /\ UNCHANGED <<core1, usbReady, drainReady, workerFinished, panicVars, busy,
                   logVars, sweeps, consoleVars>>

WorkerJoin ==
    /\ core0 = "join" /\ workerFinished
    /\ core0' = "ended"
    /\ UNCHANGED <<core1, flagVars, panicVars, busy, logVars, sweeps, consoleVars>>

\* light_core_port_panic() on core 0, also from inside a call that holds the
\* lock of the log stream.  Before core 1 has its stack up core 0 prints for
\* itself; afterwards it hands the message over, also when core 1 has left its
\* loop for good.
Panic ==
    /\ core0 \notin {"handed_over", "rebooted"}
    /\ IF usbReady
       THEN /\ core0' = "handed_over" /\ panicPending' = TRUE /\ UNCHANGED onWire
       ELSE /\ core0' = "rebooted" /\ onWire' = TRUE /\ UNCHANGED panicPending
    /\ lockHeld' \in BOOLEAN
    /\ lockHeld' => core0 \in {"running", "retry"} /\ drainReady
    /\ UNCHANGED <<core1, flagVars, panicPrinted, waited, lag, busy, logVars, sweeps, consoleVars>>

\* The wait ends when core 1 has answered or has had its time; then BOOTSEL.
PanicReboot ==
    /\ core0 = "handed_over"
    /\ panicPrinted \/ waited = HandoffTimeout
    /\ core0' = "rebooted"
    /\ UNCHANGED <<core1, flagVars, panicVars, busy, logVars, sweeps, consoleVars>>

-------------------------------------------------------------------------------
\* Core 1.  A core that is busy in a write or in a pump does nothing else, and
\* neither core does anything once the chip has rebooted.

Core1At(step) == core1 = step /\ busy = 0 /\ core0 # "rebooted"
Core1Goes(step) == core1' = step

\* A write takes no time, or one unit if the host is not reading.
Writes(units) == busy' \in {0, units}

\* Mutant: core 1 announces its stack once the streams are up, and core 0 sets them up after.
UsbInitAwaitsStreams ==
    /\ Core1At("start") /\ drainReady
    /\ usbReady' = TRUE
    /\ Core1Goes("test")
    /\ UNCHANGED <<core0, drainReady, stopRequested, workerFinished, panicVars, busy,
                   logVars, sweeps, consoleVars>>

UsbInitCore1 ==
    /\ Core1At("start")
    /\ usbReady' = TRUE
    /\ Core1Goes("test")
    /\ UNCHANGED <<core0, drainReady, stopRequested, workerFinished, panicVars, busy,
                   logVars, sweeps, consoleVars>>

TestStop ==
    /\ Core1At("test")
    /\ Core1Goes(IF stopRequested THEN "drain" ELSE "test_panic")
    /\ UNCHANGED <<core0, flagVars, panicVars, busy, logVars, sweeps, consoleVars>>

\* Mutant: the message is flagged as printed before it is pumped.
TestPanicFlagFirst ==
    /\ Core1At("test_panic")
    /\ IF panicPending
       THEN /\ Core1Goes("printed") /\ busy' \in {PumpTime, PumpTime + 1}
            /\ panicPrinted' = TRUE
       ELSE /\ Core1Goes(IF drainReady THEN "service" ELSE "test")
            /\ UNCHANGED <<busy, panicPrinted>>
    /\ UNCHANGED <<core0, flagVars, panicPending, onWire, lockHeld, waited, lag,
                   logVars, sweeps, consoleVars>>

\* _core1_drain_panic(): printed, then pumped for PumpTime, then flagged.
TestPanic ==
    /\ Core1At("test_panic")
    /\ IF panicPending
       THEN Core1Goes("printed") /\ busy' \in {PumpTime, PumpTime + 1}
       ELSE Core1Goes(IF drainReady THEN "service" ELSE "test") /\ UNCHANGED busy
    /\ UNCHANGED <<core0, flagVars, panicVars, logVars, sweeps, consoleVars>>

DrainPanic ==
    /\ Core1At("printed")
    /\ panicPrinted' = TRUE /\ onWire' = TRUE
    /\ Core1Goes("pump_forever")
    /\ UNCHANGED <<core0, flagVars, panicPending, lockHeld, waited, lag, busy, logVars, sweeps, consoleVars>>

\* light_stream_service_message_queues() for the one stream there is; it takes
\* the lock only if the queue is not empty.
Barred == lockHeld /\ logs > 0

Sweep(next) ==
    /\ ~Barred
    /\ IF logs > 0
       THEN logs' = logs - 1 /\ writeReady' = TRUE /\ Writes(1)
       ELSE UNCHANGED <<logs, writeReady, busy>>
    /\ Core1Goes(next)
    /\ UNCHANGED <<core0, flagVars, panicVars, logged, consoleVars>>

Service ==
    /\ Core1At("service")
    /\ Sweep("console")
    /\ UNCHANGED sweeps

\* _console_poll() with nothing to read.
ConsoleIdle ==
    /\ Core1At("console")
    /\ Core1Goes("test")
    /\ UNCHANGED <<core0, flagVars, panicVars, busy, logVars, sweeps, consoleVars>>

\* A character is kept and echoed while the line has room, else ignored; a
\* backspace takes one back.
ConsoleKey ==
    /\ Core1At("console") /\ typed < MaxLines
    /\ \/ length < LineMax /\ length' = length + 1 /\ Writes(1)
       \/ length > 0 /\ length' = length - 1 /\ Writes(1)
    /\ UNCHANGED <<core0, core1, flagVars, panicVars, logVars, sweeps, typed, lines, dropped, taken>>

\* The end of a line that is not blank completes it.
ConsoleEnter ==
    /\ Core1At("console") /\ typed < MaxLines /\ length > 0
    /\ Writes(1)
    /\ typed' = typed + 1
    /\ length' = 0
    /\ Core1Goes("test_room")
    /\ UNCHANGED <<core0, flagVars, panicVars, logVars, sweeps, lines, dropped, taken>>

\* Full is looked at without the lock: only core 0 can change the answer in
\* between, and only to room.
ConsoleFull ==
    /\ Core1At("test_room")
    /\ IF Len(lines) = QueueDepth
       THEN /\ dropped' = dropped \union {typed}
            /\ Writes(1)
            /\ Core1Goes("console")
       ELSE Core1Goes("add") /\ UNCHANGED <<busy, dropped>>
    /\ UNCHANGED <<core0, flagVars, panicVars, logVars, sweeps, length, typed, lines, taken>>

\* light_stream_mqueue_add_fast(), which would wait for a slot.
ConsoleAdd ==
    /\ Core1At("add")
    /\ Len(lines) < QueueDepth
    /\ lines' = Append(lines, typed)
    /\ Core1Goes("console")
    /\ UNCHANGED <<core0, flagVars, panicVars, busy, logVars, sweeps, length, typed, dropped, taken>>

\* After the stop: a bounded drain that no longer looks for a panic, then a
\* fifth of a unit of pumping, then the flag the join waits for.
FinalDrain ==
    /\ Core1At("drain")
    /\ IF sweeps = MaxStreams * QueueDepth \/ ~drainReady \/ logs = 0
       THEN /\ Core1Goes("tail")
            /\ UNCHANGED <<core0, flagVars, panicVars, busy, logVars, sweeps, consoleVars>>
       ELSE sweeps' = sweeps + 1 /\ Sweep("drain")

SignalFinished ==
    /\ Core1At("tail")
    /\ workerFinished' = TRUE
    /\ Core1Goes("finished")
    /\ UNCHANGED <<core0, usbReady, drainReady, stopRequested, panicVars, busy,
                   logVars, sweeps, consoleVars>>

\* light_core_port_panic() on core 1: it owns the console and prints at once.
PanicOnCore1 ==
    /\ core1 \in MainLoop \union {"drain", "tail"} /\ core0 # "rebooted"
    /\ Core1Goes("panicked")
    /\ core0' = "rebooted"
    /\ UNCHANGED <<flagVars, panicVars, busy, logVars, sweeps, consoleVars>>

\* One more unit of time.  It passes only while core 1 is in something that
\* takes time or has no step left: all its other steps take none.  In the
\* print of a panic the write comes first and the pump after it.
Spent == core1 \in {"finished", "pump_forever"} \/ (core1 \in {"service", "drain"} /\ Barred)

Tick ==
    /\ core0 # "rebooted"
    /\ busy > 0 \/ (Spent /\ core0 = "handed_over" /\ waited < HandoffTimeout)
    /\ busy' = IF busy > 0 THEN busy - 1 ELSE 0
    /\ IF core0 = "handed_over" /\ waited < HandoffTimeout
       THEN /\ waited' = waited + 1
            /\ lag' = IF busy > (IF core1 = "printed" THEN PumpTime ELSE 0) THEN lag + 1 ELSE lag
       ELSE UNCHANGED <<waited, lag>>
    /\ UNCHANGED <<core0, core1, flagVars, panicPending, panicPrinted, onWire, lockHeld,
                   logVars, sweeps, consoleVars>>

-------------------------------------------------------------------------------
UsbInit ==
    /\ core0 = "boot" /\ core1 = "reset"
    /\ usbReady = FALSE /\ drainReady = FALSE
    /\ stopRequested = FALSE /\ workerFinished = FALSE
    /\ panicPending = FALSE /\ panicPrinted = FALSE /\ onWire = FALSE /\ lockHeld = FALSE
    /\ waited = 0 /\ busy = 0 /\ lag = 0
    /\ logs = 0 /\ writeReady = FALSE /\ logged = 0 /\ sweeps = 0
    /\ length = 0 /\ typed = 0 /\ lines = <<>> /\ dropped = {} /\ taken = <<>>

Core0Next ==
    \/ WorkerLaunch \/ PlatformUp \/ StreamsUp \/ Log \/ RoomSeen \/ RoomClear \/ Retry
    \/ TakeLine \/ SignalStop \/ WorkerJoin \/ Panic \/ PanicReboot

Core1Next ==
    \/ UsbInitCore1 \/ TestStop \/ TestPanic \/ DrainPanic \/ Service
    \/ ConsoleIdle \/ ConsoleKey \/ ConsoleEnter \/ ConsoleFull \/ ConsoleAdd
    \/ FinalDrain \/ SignalFinished \/ PanicOnCore1

UsbNext == Core0Next \/ Core1Next \/ Tick

(***************************************************************************)
(* Both cores keep running and time passes; a panic is never owed.  That   *)
(* the poll of the console ends needs somebody who types to pause: the     *)
(* loop reads for as long as there is input.                               *)
(***************************************************************************)
Core0Steps == PlatformUp \/ RoomSeen \/ RoomClear \/ Retry \/ WorkerJoin \/ PanicReboot
Core1Steps ==
    UsbInitCore1 \/ TestStop \/ TestPanic \/ DrainPanic \/ Service
    \/ ConsoleFull \/ ConsoleAdd \/ FinalDrain \/ SignalFinished

UsbFairness ==
    /\ WF_usbVars(Core0Steps)
    /\ WF_usbVars(Core1Steps)
    /\ WF_usbVars(Tick)
    /\ SF_usbVars(ConsoleIdle)

UsbSpec == UsbInit /\ [][UsbNext]_usbVars /\ UsbFairness

UsbTypeOK ==
    /\ waited \in 0..HandoffTimeout /\ lag \in 0..waited
    /\ busy \in 0..(PumpTime + 1)
    /\ logs \in 0..QueueDepth /\ logged \in 0..MaxLogs /\ logs <= logged
    /\ length \in 0..LineMax /\ typed \in 0..MaxLines
    /\ Len(lines) <= QueueDepth /\ dropped \subseteq 1..typed

(***************************************************************************)
(* A panic of core 0 is read by the host before the chip reboots: when the *)
(* wait for core 1 ends the message has been printed and pumped in full,   *)
(* unless core 1 has left its main loop or panicked itself, is kept out by *)
(* a lock core 0 died with, or has been held up by a host that was not     *)
(* reading for so long that the bounded wait ran out.                      *)
(***************************************************************************)
PanicMessageOut ==
    core0 = "rebooted" /\ panicPending =>
        \/ onWire
        \/ core1 \in Left \union {"panicked"}
        \/ lockHeld
        \/ lag + PumpTime >= HandoffTimeout

(***************************************************************************)
(* Every line somebody completed is delivered to the application in the    *)
(* order typed, or announced as dropped, never both and never silently;    *)
(* and core 1, which owns the USB stack, never waits for the application   *)
(* to make room.                                                           *)
(***************************************************************************)
ConsoleLinesKept ==
    LET delivered == taken \o lines
        inHand == IF core1 \in {"test_room", "add"} THEN {typed} ELSE {}
    IN  /\ \A i, j \in DOMAIN delivered : i < j => delivered[i] < delivered[j]
        /\ ToSet(delivered) \intersect (dropped \union inHand) = {}
        /\ core1 # "panicked" => ToSet(delivered) \union dropped \union inHand = 1..typed
        /\ core1 = "add" => Len(lines) < QueueDepth

(***************************************************************************)
(* Both together: what core 0 entrusts to core 1 is not lost.              *)
(***************************************************************************)
UsbLosesNothing == PanicMessageOut /\ ConsoleLinesKept

(***************************************************************************)
(* Every wait of core 0 for core 1 ends: for its stack to come up, for     *)
(* room in a full log queue, for its last drain to finish, for a panic to  *)
(* be printed.  Only the last has a bound in the code; the wait for room   *)
(* clears the flag it waited for after core 1 may have set it again, which *)
(* must not cost a wake-up, and none may turn a panic into a silent hang.  *)
(* (A panic takes core 0 from one wait to the last; no other two follow on *)
(* each other, so one formula speaks of each.)                             *)
(***************************************************************************)
Core0Waits == {"wait_for_core_1", "wait_for_room", "room_seen", "retry", "join", "handed_over"}

Core0NeverHangs == core0 \in Core0Waits ~> core0 \notin Core0Waits
===============================================================================
