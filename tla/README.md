# Light Framework: TLA+ models, checks and proofs

This directory holds TLA+ models of the Light Framework (`src/`), the TLC configurations
that check them on small instances and proofs, checked by TLAPS, of what matters most for
every size. Every definition was written from the C source; `PROJECT.json` maps each to
its lines. Paths below are relative to `src/module/`.

Run `tlc -workers 2 -config <cfg> <module>` and `tlapm <module>.tla` in this directory.

## 1. Inventory

The framework is a static runtime for small boards that also runs on a host: modules,
commands, options and log streams are records the linker collects into sections; a
program is one application module on top of the modules it depends on.

| Part | State | Operations | Interacts with |
|---|---|---|---|
| Streams (`light_core/src/stream.c`) | per stream: a ring of `LIGHT_STREAM_MQUEUE_DEPTH` messages (`count`, `head`), a lock, a condition; the drain's `drain_text`, `worker_should_stop` | setup, queue a message, write one synchronously, service the queues, flush, shutdown | every other part logs; the drain is a C11 thread, core 1, or the first periodic task |
| Framework (`light_core/src/framework.c`, `list.c`) | `mods_loading`, `mods_active`, one-shot and periodic task tables, `exit_status` | init, load a module tree, run, register and unregister tasks, shutdown | sends MODULE_LOAD, APP_LAUNCH, APP_SHUTDOWN, MODULE_UNLOAD to modules; calls their tasks |
| Objects (`*/src/light_object.c`) | `ref_count`, `parent`, flags; one registry mutex | init, get, put, add, del | callbacks and release hooks of the types |
| Command tree (`light_core/src/command.c`) | `parent`, `child[]`, `option[]`, `full_name`, the pending list, the application root | load a record, register, create, resolve the root, find | filled while static objects load; resolved by `light_cli` at APP_LAUNCH |
| Command line (`light_cli/src`) | the line queue, `queue_root`, `static_invoke` | parse, queue a line, dispatch with aliases, one task step | a periodic task of the framework; reads the command tree; reuses the streams' ring |
| SPI slave (`light_ioport/src/display_ioport.c`, `portable/*`) | receive ring (`rx_head`, `rx_tail`, `rx_overflow`), the peripheral's FIFO and overrun latch | set up, give a buffer, read what is there | an interrupt handler fills the ring, a task empties it |
| Buses (`light_ioport/src`) | contexts, `restart_on_next` of an I2C peripheral, chip select, DC, a DMA channel, SPE and EOT | register access, sends, asynchronous bursts, clock, mode, reset | several devices share a peripheral |
| Timers (`*/src/light_platform.c`) | timer table, the millisecond clock | new, set, run, stop, remaining time | the clock wraps |
| Core 1 of the RP2350 (`light_core_chip_rp2350/src`) | ready, stop, finished, panic and printed flags; the line being typed, the console queue | USB service, drain, console, panic handoff | core 0 takes lines, stops and joins the worker, hands it a panic |
| PWM (`*/src/light_platform_pwm.c`) | output table, claimed DMA channels and pacing timers | open, frequency, duty, stream, close | pins share a block; DMA runs by itself |

What is hard here, and what correct means:

* **Streams.** Producers sleep for room while the drain signals one of them per message;
  emptiness is tested without the lock; the handler runs after the lock is released;
  shutdown and `light_fatal()` race with threads that still log. Correct: each message is
  written once and in queue order, no caller sleeps for ever, shutdown loses nothing that
  was handed over before it, the flush really waits.
* **Framework.** A diamond of dependencies, tasks that register tasks, tasks that end the
  run in the middle of a pass, a queue drained by the very thread that fills it. Correct:
  dependencies are there from load to unload, the tables stay in their arrays, errors
  reach the caller, the run and the shutdown come to their end.
* **Objects.** Compare-exchange loops of several threads, callbacks outside the lock, a
  release hook that must run once. Correct: the count is the number of references, and
  nothing is touched after its release.
* **Commands.** Records arrive in link order, a parent may be a sentinel for a root that
  is not known yet, and lists have limits. Correct: the tree does not depend on the
  order, no name is built through the sentinel, and what does not fit is reported.
* **Command line.** One parser for the launch line and for typed lines, whose options and
  words bind by what came before; two tasks of one pass, one of which may end the run.
  Correct: what is bound is what the line says, every queued line runs, aliases end.
* **SPI slave.** An interrupt and a task share a ring without a lock, and bytes are lost at
  two places. Correct: bytes come out in order, and a loss is always reported.
* **Buses.** State of a peripheral outlives a call and is shared by several devices.
  Correct: each device sees the transfer that was meant for it, framed as its own.
* **Timers, PWM.** A wrapping clock; pools of DMA channels and pacing timers; engines that
  run between calls. Correct: remaining time is what was asked less what has run; what a
  stream claims it gives back, and nothing runs for an owner that is gone.
* **Core 1.** A bounded wait for a core that may be in a write the host does not take, in
  its last drain, or gone. Correct: no line is lost silently, a panic gets out, no wait of
  core 0 lasts for ever.

`PROJECT.json` lists every component with its status and every hazard at its line.

## 2. Modules

| Module | Models | Size of the checked instance |
|---|---|---|
| `MessageLog` | what the streams promise: one bounded FIFO log per stream, nothing of rings, locks or threads | through the refinement |
| `LightStream` | `stream.c` with C11 threads | 2 streams of 2 slots, 3 logging threads, worker |
| `LightStreamProofs` | every invariant and the refinement of `LightStream` | any |
| `LightObject`, `MCLightObject` | `light_object.c` of the host, RP2 and STM32 ports | 2 threads, 3 objects, 3 ports |
| `LightObjectProofs` | reference counts, release and use, on every port | any |
| `LightFramework`, `MCLightFramework` | `framework.c` and the single-core drain | 4 modules, 3 tasks per table, queue of 3 |
| `LightFrameworkProofs` | every safety property of `LightFramework` | any |
| `LightCommand`, `MCLightCommand` | `command.c` of `light_core` | 10 commands, 2 options |
| `LightCommandProofs` | the tree, names and limits of `LightCommand` | any |
| `LightCli`, `MCLightCli` | `light_cli`: launch, queue, parser, `cli_task()`, dispatch | 9 commands, 3 options, lines of 4 tokens |
| `LightCliProofs` | the parser, queued lines and dispatch of `LightCli` | any |
| `LossyLink` | what an SPI slave promises: bytes in order and once, none lost while less than its room is waiting | through the refinement |
| `LightSpiSlave`, `MCLightSpiSlave` | SPI slave reception on RP2, STM32H7 and STM32F4 | 5 bytes, rings of 2 and 4 slots |
| `LightSpiSlaveProofs` | recorded losses, and the refinement of `LossyLink` | any |
| `Platform` | which chip the image is built for | 4 |
| `LightI2c` | I2C transfers of every port | 2 devices on 1 peripheral, 2 bytes |
| `LightSpiMaster` | SPI sends, asynchronous bursts, clock, mode, reset of every port | 3 devices, 2 peripherals, bursts of 2 |
| `LightBusProofs` | I2C and SPI promises | any |
| `LightTimer` | millisecond timers of every port | 1 timer, a clock of 4 bits |
| `LightPwm` | PWM and sample streaming of RP2 and STM32 | 2 outputs on 2 channels of 1 block |
| `LightUsbWorker` | core 1 of the RP2350 | 3 log messages, 2 typed lines |
| `LightPlatformProofs` | timers, PWM outputs and core 1 | any, a clock of any width |
| `MCPeripherals` | the six drivers, each explored with the others at rest | all of the above |

### LightStream

`count`, `head` and `slot` are the stream's `light_stream_mqueue`; `pc[t]` is where a
thread stands in a call, `wpc` and `wi` where the worker stands in its loop, `text` is
`drain_text`. Code under a lock is one step, except that claiming a slot and filling it are
two: `count` is read by threads that hold no lock, and they see a slot counted and not
written. `_all_stream_queues_empty()` looks at one queue a step. `AwaitRoom` is
`light_condition_wait()`; a sleeper may also wake by itself. A message is a pair of thread
and number; what is formatted into it is left out. `out[s]` is what the handler received.

`Pending` maps the detailed state to `MessageLog`: the message in the worker's hands, then
the ring from its oldest slot, without a slot that is claimed and not yet written. A
message is accepted when its slot is filled and emitted when the handler is called.

### LightFramework

The single thread's position is `phase` and the loop index `at`; `stack` holds the frames
of the recursive `light_framework_load_module()`. `loading` and `active` are the two module
lists, `periodic` and `oneshot` the task tables. A handler or a task may register one
task in each table when it is called (`MayRegister`), which stands for the module code the
framework does not know. The queue is counted only (`queued`): which message is which does
not matter here. `Message` is a log call made at any point by whatever code runs. It
stands for every setting of `FILTER_LOG_LEVEL`, because each call of the framework itself
may or may not be compiled in; `BootLog`, `PassLog` and `StopLog` bound how many there are
up to the first drain, between two drains, and from the end of the last pass on. Phase
`hung` is a log call that found the queue full: `mqueue_claim_slot()` waits for a drain
only this thread can perform.

### LightObject

Each object has a count, a `static` flag and a parent link; `held[t][o]` counts the
references a thread owns. Load and compare-exchange are separate steps, a weak exchange
may fail for no reason, and the callbacks of add and del and the release hook are steps of
their own, outside the mutex. `port` chooses between these and the critical sections of the
RP2 and STM32 ports (`SectionGet`, `SectionPut`, `SectionAttached`), where a count moves in
one step: on RP2 the section shuts out the other core, on STM32 it masks interrupts, and a
thread of `Handlers` is an interrupt handler that runs to its end before the task it
interrupted goes on (`Runs`). Callers follow the rule of every reference count: name only
what you hold or what is static storage, put only what you hold, attach only what is
detached.

### LightCommand

Records are loaded one at a time in any order, over every subset of commands a program
could link. `parent`, `child`, `option` and `full` are fields of `struct light_command`;
`pending` and `at` are the list of waiting commands and the loop that compacts it while it
walks. `Ancestor` follows parent pointers, the sentinel included. A full name is the sequence
of commands whose short names it joins.

`Create` is `light_command_create()`, once the load is complete, before or after the root is
resolved, under any command of the program: one that hangs, one that waits for the root, one
that was dropped, or one made before. The code looks at nothing but the room under that parent,
and so does the model (the sentinel itself is not passed as a parent: that is a dereference of
address 1 at once). A name built through the sentinel is one that dereferenced address 1, which
`command.c:75-77` describes as a hard fault: the program ends there (`FollowedSentinel`), and no
step follows.

### LightCli

`static`, `queue` and `queueRoot` are `static_invoke` and the line queue; `tasks` and `turn`
are the pass of `light_framework_run()` in which `cli_task()` and a task that reads a console
(`FeederTask`) take turns. A token is a word with its dashes taken off; quoting, blanks and
comments are left out, but a line may be blank or end inside a quote. `Parse` is the state
machine of `light_cli_process_command_line()`: STATE_MATCH and STATE_BIND, the option that
waits for a value, and the bytes that may follow the name before an `=`, which is copied
without a terminator (`Strays`). `Parsed` is its state after each token of the line, a function
of how many were read, so that it can be proved about. `option_count` is not compared with the
room in `option[]`, so lines that hold more options than `MaxOptions` are outside the model, and
an assumption says so (`OptionsFit`). A handler ends with success, error, an alias, or queues
lines of its own. `failed`, `last`, `outcome`, `accepted`, `ran` and `batched` record what
happened, for the properties alone.

### LightSpiSlave

Bytes are numbered as they arrive. The peripheral's FIFO and overrun latch, the interrupt
(`isr`: enter, look at the overrun, clear it, drain, return) and the reader (`reader.at`:
report, sample head, copy, publish tail) interleave at each access of a shared variable,
within what one core allows: the reader does not move inside the interrupt. Where the F4
differs, a read of data and status takes the overrun with it. `Link` maps ring and FIFO to
`LossyLink`.

### LightI2c, LightSpiMaster

A blocking call is one action, for it returns after its last transfer. An I2C operation is
the list of transfers it puts on the wire, each opening with START or a repeated START as
the SDK's flag says, each succeeding or failing. On SPI a device sees the bytes clocked
while its chip select is low, each with the level of the data/command line at that moment;
`frame` is what one call, or one burst and its completion, has made it see. The DMA channel,
the shift register and the two looks of `burst_is_complete()` are steps of their own. On
STM32 every wait may time out: the outcomes of a transfer are a set (`H7Outcomes`,
`F4Outcomes`).

### LightTimer, LightPwm, LightUsbWorker

`promised[t]` of a timer is what was asked and how much of it has run; the code's own state
is `timers` and the clock. In `LightPwm`, `blocks` and `level` are registers, `claims` the two
pools of the SDK, `streams` the DMA engine, `returned` what `set_frequency()` last returned for a
block that nobody has configured since. `DmaSample` changes one channel of the compare register,
which is what `rp2_common/src/light_platform_pwm.c:151-153` says of a byte address; the bus of an
RP2 is documented to repeat a narrow write over the whole word, in which case the other channel
of the slice changes too. `LightUsbWorker` has one program counter for each
core; the line break echoed on Enter is left out, and the writing of a panic's text is one step
with the pumping that follows it; a step is what a core does between two looks at shared flags, and `Tick` is a unit of
time, spent by core 1 in a write that the host does not take or in pumping a panic. A log call
that finds the queue full waits as the RP2 ports do: `RoomSeen` looks at the flag and
`RoomClear` clears it, both with the lock released, and `Retry` locks and tests again.

## 3. Runs

| Run | Configuration | Question |
|---|---|---|
| `stream` | `LightStream.cfg` | Do ring, lock, condition and drain loop implement the log, wake every sleeper and lose nothing at shutdown? |
| `stream_fatal` | `LightStreamFatal.cfg` (violation) | Does `light_stream_flush()` return only when everything is written? No. |
| `object` | `LightObject.cfg` | Are counts exact, releases unique and complete, and is nothing used after release? |
| `object_static` | `LightObjectStatic.cfg` (violation) | Is storage that was not allocated never freed? Not when a declared object is initialised again. |
| `framework` | `LightFramework.cfg` | Do loading, scheduling and shutdown keep their order and bounds, and end? |
| `framework_depth` | `LightFrameworkDepth.cfg` (violation) | Is a queue safe that holds the longest run between two drains? No. |
| `command` | `LightCommand.cfg` | Does the tree come out right for every link order? |
| `cli` | `LightCli.cfg` | Is each command line bound, queued and dispatched as typed? |
| `cli_launch` | `LightCliLaunch.cfg` (violation) | Does a launch line that fails to parse dispatch nothing? No. |
| `rx_f4` | `LightSpiSlaveF4.cfg` (violation) | Is a loss reported on the STM32F411 too? No. |
| `peripherals` | `Peripherals.cfg` | Do the bus, timer and PWM drivers and core 1 keep their promises under every order of calls, and do FIFO, interrupt, ring and reader of an SPI slave make a link that reports its losses? |
| `pwm_frequency` | `PeripheralsPwm.cfg` (violation) | Is the frequency `light_platform_pwm_set_frequency()` returns the one the block runs at? Not on STM32. |

### What they show

**stream.** `ImplementsMessageLog` is the refinement: every message is written once, in the
order slots were filled. `NoLostWakeup` says that while a producer sleeps, every free slot
of its ring is matched by a producer that is awake and on its way to it; without it a signal
spent on the wrong thread would strand a sleeper. `ShutdownWritesEverything` compares what
is written at the join with what threads had handed over when the stop flag went up.
`EveryCallReturns` and `EverythingWritten` are the liveness side.

**stream_fatal.** The worker takes a message off its queue and then calls the handler. The
flush looks only at queues, so it may return, and `light_fatal()` abort, with the fatal
message itself still in `drain_text`. `FlushLeavesOnlyTheLast`, checked in `stream`, says
that no more than this one message can be missing.

**object.** `CountIsReferences` holds at every step and not only at rest: a live count is the
references threads hold, plus links, plus calls that have taken a reference over and not
dropped it yet. `NoUseAfterRelease` covers retry loops and the callbacks after del.

All of it holds on the three ports.

**object_static.** Streams are declared with `Light_Object_Static_RO` and then pass through
`light_object_init()`, which clears `is_static`.

**framework.** `DependenciesFirst` and `DependenciesLoaded` are the two directions of module
order. `TasksFollowLoadOrder` is the ordering that `cli_task()` relies on in its comment.
`NeverHangs` holds for this instance because the queue holds boot and shutdown log together
and a pass logs no more than it drains.

**framework_depth.** The header's rule, "the longest run BETWEEN drains", is not enough: one
call of the drain takes one message per stream, so the boot's messages are still there when
the shutdown starts to log.

**command.** `AttachedOnce`, `FullNameIsPath`, `AppRootFound` and `NothingLostWithRoom` are
stated on the finished tree against the declarations alone, with no reference to the order;
`Settles` is the end of the passes. `AttachedOnce` speaks of the commands no line of the log
gave up; of one that was reported it says nothing.

`NeverThroughSentinel`: no name of a static record is built through the sentinel, and none of a
created command but under a parent that itself hangs nowhere. This differs from what
`light_core/include/light_command.h:194-195` says of a command dropped because too many wait: "its
children may still resolve and then walk a parent chain that still holds the sentinel".
`_ancestry_resolved()` (`command.c:64-82`) refuses every declared child, at any depth a name walk
goes to, for only the holder of the sentinel may resolve it: the children wait, and are reported
at the end. What may happen is the same with `light_command_create()`, which asks nothing: under
a command that was dropped, or that still waits for the root, it builds the name through address
1. The run reaches that state (and ends there), with a command made before the root is resolved
and with one made after. `FullNameIsPath` and `Settles` say nothing more of a program that has
ended so; in the runs where no command is created under such a parent they hold throughout.

**cli.** `InvocationAsTyped` compares the invocation with one read off the whole line at once:
the longest path of subcommands, the options against the command reached, the rest as
arguments. `EveryLineRuns` says that lines run in the order queued, and that when the console task ends the
run nothing it queued is left, which rests on `cli_task()` coming before it in every pass. (A
handler that queues lines of its own breaks the rule of one line a pass: excepted.)
`DispatchOutcome`: a dispatch succeeds exactly when the chain of aliases reaches a handler that
does, within the depth allowed.

**cli_launch.** The parser stores a target as soon as a word matches, and leaves it when a
later token fails. `handle_command_line()` reports the error; `cli_task()` then runs it.

**rx_f4.** On the F4 the status register is read again for each byte drained, which clears an
overrun that came after the one look at it.

**peripherals.** `I2cWireAsPromised`: an operation that succeeds has put exactly its own
transfers on the wire, opened by a START of its own, whatever failed before it on the
same peripheral. `SpiAsPromised`: when a chip select goes up, its device has seen the bytes of
one call, all and in order, each with its data/command level; and no rate is above the one
asked for that the divider could avoid. (`light_ioport/src/portable/stm32/platform.c:540-542` says
"never above it": at the largest divider, 256, the code cannot keep that for a rate below the
clock over 256, and the property exempts it.) `TimerKeepsTime`: remaining time is what was asked
less what has run, across stops, starts and wraps; on RP2 the duration that a stop writes is not
read again while the state stays TIMER_RUN, so there the property is about the remaining time
alone. `PwmAsPromised`: claims belong to open
streams, a DMA channel runs only for its owner, a stopped output rests at mid-scale, and the
frequency `set_frequency()` returned is the one its block runs at until it is configured anew,
except on STM32 where the block is at its largest divider: there it runs no slower than the
caller was told, and `pwm_frequency` shows that it may run faster. `UsbLosesNothing`: lines reach the application in
order or are announced as dropped, and a panic message is out before the reboot, except when
core 1 has left its loop, core 0 died with the lock of a stream, or the host refused to
read for the whole wait. `Core0NeverHangs`: each wait of core 0 for core 1 ends, also
the wait for room in a full log queue. There `light_core_port.h:41` says that every write to
the flag is made under the lock, and the clear in `light_core_port_condition_wait()` is not:
a signal can be wiped out between the look and the clear. That does no harm as long as one
core produces and tests the queue again afterwards; three messages for a queue of one, the
bound of the run, is what it takes for a flag left over from an earlier drain to be met.
Of SPI slave reception on RP2 and STM32H7, `ImplementsLossyLink` is the refinement: what the
application reads is what came in, in order, and a byte is lost only when FIFO or ring could be
full. `NoSilentLoss` says that every byte missing has been reported or still stands in a flag
that the next interrupt or read will report. `EverythingReadable` is why the RP2 needs its
receive timeout: without it bytes below the threshold stay in the FIFO.

**pwm_frequency.** `light_platform_pwm_set_frequency()` of the STM32 works out a divider of up to
0x10000, hands `light_platform_pwm_configure()` no more than 255 (`light_platform_pwm.c:277`), and
returns what the larger one would give (`:278-280`), which it also logs as "running at". The
header says "returning the frequency actually achieved". The counterexample asks for a frequency
low enough to need a larger divider than the block gets.

What the model of the timers had to say to be true is worth knowing: the RP2 port leaves a
stopped timer running, so `set_ms()` refuses it from then on; a new timer of the RP2 and of
the host starts with whatever its memory held; and a timer that has been over for half the
range of the clock counts down again.

### Bounds

* *stream*: with two slots and three threads a ring fills, wraps and has more than one
  sleeper; two streams let the sweep and the scan see one empty and one not. `Budget` is
  one ordinary message a thread, and the main thread can add a fatal one. One poll of the
  flush stands for all: the poll may fall anywhere.
* *object*: an allocated object, a singleton and a declared one that nobody initialised, two
  threads, at most two references held to each: enough for get against the last put, two
  racing puts, two racing dels, and a parent that dies in its callback.
* *framework*: four modules with a dependency reached twice, tables of three tasks, so that
  one overflows and the main task itself may be refused. Nothing depends on more messages
  than a full queue, one a pass, and one after the last pass.
* *command*: two children per parent, one option per command, names of three parts, three
  waiting commands: every limit is exceeded by some program of the instance and met by
  others. The deepest path has four commands under the sentinel.

* *cli*: launch lines of every sequence of up to four tokens over seven, two arguments and two
  options, so that each may be one too many (options excepted: a write past `option[]` has
  no meaning here); a queue of two, filled by a handler that queues three; alias depth one,
  exceeded by a chain of two and by a cycle.
* *rx_f4*: a FIFO of one byte, as the chip has, and bytes that arrive before and inside the
  interrupt.
* *peripherals*: two devices on a peripheral is what sharing needs; bursts of two and a FIFO
  of two leave a byte in DMA, FIFO and on the wire at once; a clock of four bits wraps within
  a run; two outputs on one block with one pacing timer make the second stream fail; a wait
  of four units against a pump of two is shorter than one write and a pump by one unit in
  hand; five bytes go through rings of one and three usable slots and a shallow FIFO, so that a
  ring wraps, fills, overflows, and overruns before and inside the interrupt. Values that only
  scale (rates, the limits 255 and 0x10000 of dividers) are small, in their order. `exercised` picks one
  driver a behaviour: they share nothing but the chip, so their product would add nothing.
  Timers and PWM of the F4 are left to the H7, whose code they share (`stm32_common`).

Every bound is a CONSTANT: `Budget`, `FlushPolls`, `MaxHeld`, `BootLog`, `PassLog`,
`StopLog`, `MaxBytes`, `MaxRead`, `MaxPayload`, `MaxBurst`, `MaxLogs`, `MaxLines`, `HalfRange`; the
rest are limits of the code.

`CHECK_DEADLOCK FALSE` is set where the system may stop: in the object runs threads may put all
they hold, in the receive runs the peer stops sending, and the RP2350 reboots after a panic.

### Fairness

Weak fairness, with two exceptions below. In `LightStream` the worker goes on whenever it can, as does a thread
inside a call, the main thread in its handshake, join and flush: a preemptive scheduler
gives each that much. Nobody is made to start a call. The lock is not assumed fair: since each thread sends a
bounded number of messages it cannot be taken from others for ever. `LightFramework` and `LightCommand` have one thread, which goes on;
that another log call is made, another command created or the root resolved a second time
is never required, nor anything of a program that followed the sentinel.

In `LightSpiSlave` the interrupt is taken when it is raised, the start of reception goes on,
and the application reads again and again, as a slave's periodic task does. In
`LightUsbWorker` both cores go on and time passes; a panic is never required. The exceptions
are strong fairness for the calls of `LightObject`, whose spinlock, compare-exchange and
interrupt mask are taken for not starving one caller for ever, and for the end of a console poll: the loop reads while there
is input, so that it ends takes somebody who pauses between keys.

## 4. Proofs

`LightStreamProofs` proves for any number of streams, threads and slots (`Depth` at most
255, as the counters are `uint8_t`):

* `Typing`: `TypeOK`. The ring's indices and the worker's cursor stay in range.
* `Wakeups`: `NoLostWakeup`.
* `Shutdowns`: `ShutdownWritesEverything`; `Flushes`: `FlushLeavesOnlyTheLast`.
* `Implementation`: `Spec => Log!Spec`, the refinement of `MessageLog`.

The inductive invariant `Inv` adds to the types: a stream's lock is held exactly by the
thread that fills a slot or writes synchronously (`LockInv`); a thread in a call has budget
left (`BudgetInv`); the worker's cursor is a stream when it is used as one (`WorkerInv`); a
filling thread owns the last place of its ring, and every other place, the worker's buffer
and the output hold messages that were handed over (`RingInv`, `DrainInv`). The last is
what makes a message *fresh* for the abstract log when its slot is filled. Lemmas on `%` (`ModWrap`, `ModDistinct`) carry the ring: a claim keeps the
place of every queued message and takes the one after the last (`ClaimKeepsPlaces`,
`ClaimTakesLastPlace`, `PlacesDiffer`). Each concrete step is then an abstract `Accept`
(`Fill`), `Emit` (`WorkerWrite`), `EmitNow` (`SyncWrite`) or a stutter.

For shutdown and flush `EndInv` says where a message is: written, in the worker's hands or in a
ring, never nowhere (`Accounted`). The stop flag stands exactly while the main thread joins and
after (`StopInv`); a queue the worker has seen empty since then holds nothing that was
owed when the flag went up (`ScanInv`); a queue the flush has seen empty holds nothing of the main
thread's (`FlushInv`). At the join the worker has seen them all and holds nothing.

`LightFrameworkProofs` proves, for any finite set of modules no larger than
`LF_STATIC_MODULES_MAX` whose dependencies are acyclic (`Rank` is the witness):

* `FrameworkTyping`: `TypeOK`. The module lists, appended to without a check, stay in
  their arrays, because no module enters twice.
* `LoadOrder`: `DependenciesFirst`; `UnloadOrder`: `DependenciesLoaded`.
* `TaskOrder`: `TasksFollowLoadOrder`. In table order, the tasks registered while modules
  are loaded have owners in the order of `active` (`Follows`).
* `LastLines`: `LastLinesWritten`. During the drain the messages still queued, with the turns
  already made, do not exceed the turns the loop makes.
* `ErrorsKept`: `ErrorsReachTheCaller`, an action property.
* `SizingRule`: `NeverHangs`, assuming that a pass logs at most one message and that the
  queue holds the larger of boot log and a pass, plus the shutdown log. This is the
  rule that replaces the one `framework_depth` refutes.

The invariant says of the recursion's frames that the modules entered are those active and
those with a frame, that what a frame has passed over has been entered, and that a frame is
of lower rank than those below it (`FramesInv`): so a dependency that was entered and is
not active would have to be a frame further down, of higher rank, which it cannot be. The
loaded modules are a prefix of `active` (`PrefixInv`) whose length follows the unload cursor,
which stays inside the list (`CursorInv`). `QueueInv` bounds the queue by what its stretch of the run can have logged.

`LightObjectProofs`, for any threads, objects and ports:

* `ObjectTyping`: `TypeOK`; `ExactCounts`: `CountIsReferences`; `ReleasedAtMostOnce`:
  `ReleasedOnce`.
* `OthersNotUsedAfterRelease`: nobody touches an object after its release, of all objects but
  the declared ones that are initialised again; with none of those, `NoUseOfReleased`
  (`NoUseAfterRelease`) and `StaticNeverFreed`. The run `object_static` shows that this
  hypothesis is needed.

`ExactCounts` is its own strengthening but for what a call knows: what stage a call is at and of
which object (`CallInv`), who is inside the critical section (`SectionInv`), that a count of zero
belongs to one call that will release (`ZeroInv`, `ReleaseInv`), and that a name somebody
holds is of a living object (`NameInv`, `AliveInv`). `Whereabouts` splits the references
of one object into those that a step of one thread can change and the rest.

`LightCommandProofs`, for any commands, options, link order and limits, cyclic declarations
included; the one assumption on declarations is that a static record does not name a run-time
command as its parent, whose address it could not know:

* `CommandTyping`: `TypeOK`; `AttachesOnce`: `AttachedOnce`; `RootIsFound`: `AppRootFound`.
* `NamesAvoidSentinel`: `NeverThroughSentinel`. A static record's name is never built through the
  sentinel; only `light_command_create()` under a parent that hangs nowhere builds one so.
* `RoomKeepsAll`: `NothingLostWithRoom`. Tables of distinct commands are no longer than the sets
  they are drawn from (`PassInv`, `RoomInv`).
* `NamesArePaths`: `FullNameIsPath` where no command is declared below itself (`Acyclic`); with a
  cycle of declared parents a name has no last part to start from and the property is false.

The invariant relates children lists and parents both ways (`TreeInv`, `ParentInv`), says what stands for the root
before and after it is resolved (`RootInv`), which commands wait (`QueueInv`) and what each
error stands for (`StatusInv`), and that above whatever hangs there is no sentinel, unless one
has been followed and the program has ended (`SafeInv`, `NameMeetsSentinel`). Walks up the tree are functions; `WalkExists` and `PathIsWalk` unfold them,
and induction is by the least counterexample (`LeastElement`).

`LightSpiSlaveProofs`, for every buffer length, FIFO depth, threshold and read size:

* `SlaveTyping`: `TypeOK`.
* `LossIsRecorded`: `NoSilentLoss` for a build that is not for the F4, where `rx_f4` shows it false;
  `RecordedUnlessF4` says the same of a model with the F4 in it.
* `Implementation`: `ImplementsLossyLink`, on all ports, the F4 included.

Reception goes through stages (`StageInv`), the handler is at a known place with a known rest of
the FIFO (`HandlerInv`), and head and tail bound what the ring holds (`RingInv`).

`LightPlatformProofs`:

* `TimerTyping`, `TimersKeepTime` (`TimerKeepsTime`), for any number of timers and a clock of any
  width: what has run and what the clock shows agree modulo the clock's range, of which no timer uses more than
  half (`TimersKeep`).
* `PwmTyping`, `PwmKeepsPromises` (`PwmAsPromised`, with its exception for the largest divider of
  an STM32), for any outputs, pools and limits of the divider: who has a DMA channel or a
  pacing timer is in the table and nobody else has it (`RowsInv`, `PoolInv`), and an output
  that is alone on its channel rests at mid-scale when it is stopped (`RestInv`).
* `PanicIsHeard`: `PanicMessageOut`, provided the wait leaves room for one pump
  (`UsbAssumption`), for every depth of queue and number of lines. Core 0 asks once, an answer
  is true, and the wait accounts for all the time core 1 was away (`PanicInv`).
* `LinesAccountedFor`: `ConsoleLinesKept`; `NothingLostBetweenCores`: both, which is `UsbLosesNothing`.

`LightBusProofs`, for any contexts and peripherals:

* `I2cTyping`, `I2cKeepsPromises` (`I2cWireAsPromised`). Between operations no peripheral has its
  restart flag up, whatever failed in the last one (`FlagsClear`): the first transfer of the next
  would continue the old one instead of opening with a START.
* `SpiTyping`, `SpiKeepsPromises` (`SpiAsPromised`), for any length of burst, depth of FIFO and clock rates.
  A peripheral carries one burst, and off the F4 holds bytes only of it (`OwnersInv`); what its device has seen,
  what the peripheral holds and what the DMA channel still has are, put together, what it is to
  see (`BurstsInv`), so that with the last two empty it has seen all; that they are empty is
  what the two looks of a poll establish, the second one not undoing the first (`PollInv`). For the blocking sends: no end of
  transfer is left over on the H7, and the F4 is enabled whenever it is to send (`FlagsInv`).

`LightCliProofs`, for any command tree, lines and limits:

* `QueuedLinesRun`: `EveryLineRuns`. What was accepted is what has run and what is queued
  (`LinesInv`). `cli_task()` comes first in every pass and takes a line, the console adds one, so at
  the console's turn nothing is queued, unless a handler has queued lines (`TurnInv`, `OneLineInv`).
* `DispatchFollowsAliases`: `DispatchOutcome`, for cyclic aliases too. The dispatch in progress is as
  far along the chain of its target as it has followed aliases, all of them aliases so far (`ChainInv`).
  `ChainExists` unfolds the chain, by the least length at which it would not exist.
* `ParserReadsLine`: what the parser makes of a line it accepts, token by token, is what the line
  says as a whole (`AsTyped`), for any tree, with duplicate names too. `LinesReadAsTyped`: hence
  `InvocationAsTyped`, for every line a process parses (`ParserInv`), assuming that no two
  options of a command share a name (`OptionNamesDistinct`): the property asks for values by the
  option's name, and the code does not refuse a second option of the same name. The argument: the
  words that lead down the tree stop at a first token that does not (`WalkStops`), up to which the
  parser has done nothing but name its target (`ParsedNames`); from there on its state stands as
  the tokens so far say, one option at most waiting for its value (`Stand`, `PendingOnce`), and each
  token keeps it so (`ParsedStands`). Both are shown by the least number of tokens for which they
  would fail.
* `CliTyping`: `TypeOK` of `LightCli`, in which no invocation holds more arguments or options than
  there is room for. That the arguments fit is the parser's doing; that the options do rests on
  `OptionsFit` (`ParsedBounded`).

The other assumptions of the proofs are those named in the modules: sizes are positive, sets of
threads, modules and commands finite, and a value that stands for "none" is no member of the set it is missing from.

Only model-checked, because these provers do not reach liveness: `EveryCallReturns`,
`EverythingWritten`, `DeadObjectsReleased`, `RunBegins`, `RunReturns`, `Settles`,
`EverythingReadable`, `Core0NeverHangs`.

## 5. Not modelled

* Text: formatting, truncation of messages and names, help output, quoting in lines.
* The overlap of a synchronous write with the drain inside one handler; stdio locks itself.
* Task tables changed by a module's handlers during shutdown: no pass follows, so nothing
  reads them again. Unregistering from inside a pass, which a comment forbids and nobody does.
* Input streams, the scans of linker sections.
* More options on a line than `option[]` holds: the write past the array.
* Compiler reordering of the ring's volatile accesses. The model takes them in program order,
  on one core. `light_ioport_spi_slave_set_rx_buffer()` is called once for a context.
* Bytes that a slave lost before its reception was enabled, and the moment at which an overrun
  latched by the RP2 is reported: it waits for the next interrupt.
* Slave reception on the host, where the backend refuses it (`dead`).
* On SPI, a burst and another transfer on the same peripheral at once: the contract of
  `burst_is_complete()` is read as one for each peripheral, though the header speaks of one context.
  `light_ioport_setup_io_spi_3p()` stores no reset pin; what it leaves is taken to be no pin, or one no
  device uses. A PIO context without a reset pin is not configured.
* The tree of SPI kernel clocks of the STM32 (a rate, or none), pin multiplexing, and the
  writes of an initialisation one by one.
* Of PWM: polarity and complementary-output bits, the 32-bit overflow of `(wrap + 1) * hz`, and a
  claimed DMA channel of another driver, which is the same as an absent one. Two sentences of
  `light_core/include/light_platform_pwm.h` are not stated as properties because the code does not
  keep them: `open()` does not return NULL for a block that is claimed (:25-26; it looks for that
  neither on RP2 nor on STM32, and the model opens it twice), and `close()` does not leave the pin
  alone (:29) on STM32, where it stops the counter of the block, and of every other pin on it.
* A panic after core 1 has left its loop, or of a core that holds a stream's lock, is in the
  model and is not printed: see `PanicMessageOut`. Host timers promise nothing.
* GPIO, clock set-up and chip consoles: register writes in a fixed order, no state to go wrong.
* The components of the inventory marked so in `PROJECT.json`, with the reason for each.

## 6. Plan

Every safety property that a passing run checks is proved. What is left: assumptions to weaken,
where a proof allows it, such as the sizes of `UsbAssumption`, the bound on what a pass logs in
`SizingRule`, and `OptionsFit`, should `option_count` come to be compared with its limit.
