---------------------------- MODULE LightSpiMaster ----------------------------
(***************************************************************************)
(* The SPI masters of light_ioport: contexts with a data/command line      *)
(* (SPI4), without one (SPI3) and on an RP2 state machine (PIO), their     *)
(* byte, burst and asynchronous burst sends, the clock, the mode and the   *)
(* reset line.                                                             *)
(*                                                                         *)
(* A blocking send is one action: the caller is inside it until its chip   *)
(* select is high again.  An asynchronous burst of the RP2 port is not:    *)
(* the DMA channel feeds the peripheral, the peripheral shifts bytes out,  *)
(* and the caller polls, each at its own pace; the poll itself reads two   *)
(* pieces of hardware one after the other.  On STM32 every wait is bounded *)
(* and the peripheral may be stuck for as long as one call.                *)
(*                                                                         *)
(* A device sees the bytes clocked while its chip select is low, each with *)
(* the level the data/command line has at that moment.                     *)
(***************************************************************************)
EXTENDS Integers, Sequences, SequencesExt, Platform

CONSTANTS
    SpiContexts,        \* the io_contexts of the devices on SPI
    SpiType,            \* SpiType[c] \in {"spi4", "spi3", "pio4"}
    SpiPort,            \* SpiPort[c]: the peripheral or PIO block it names
    HasReset,           \* the contexts whose caller names a reset pin
    MaxBurst,           \* bound on the bytes of a burst
    FifoDepth,          \* bytes the peripheral holds besides the DMA's
    KernelRates,        \* rates the SPI kernel clock may have, 0 for none
    AskedRates          \* rates a caller asks for

ASSUME SpiAssumption ==
    /\ MaxBurst \in Nat \ {0} /\ FifoDepth \in Nat \ {0}
    /\ \A c \in SpiContexts : SpiType[c] = "pio4" => c \in HasReset
    /\ "none" \notin SpiContexts
    /\ KernelRates \subseteq Nat /\ AskedRates \subseteq Nat

SpiPorts == {SpiPort[c] : c \in SpiContexts}
OnPort(p) == {c \in SpiContexts : SpiPort[c] = p}

VARIABLES
    resetPin,   \* resetPin[c]: what io->pin_reset holds once c is set up
    held,       \* contexts whose device the reset line holds in reset
    selected,   \* the contexts whose chip select is low
    dc,         \* dc[c]: level of the data/command line
    dma,        \* dma[c]: the bytes the DMA channel has still to feed
    fifo,       \* fifo[p]: the bytes the peripheral has still to shift out
    stall,      \* stall[p]: the sticky TXSTALL flag of a PIO state machine
    flags,      \* flags[p]: SPE and EOT of an STM32 peripheral
    seen,       \* seen[c]: what the device of c has been clocked in this frame
    want,       \* want[c]: what the call on c is to make it see
    inFlight,   \* contexts with a burst the caller has not been told is over
    poll,       \* the poll in progress: its context, or "none"
    frame,      \* the frame that has just been closed, or NoFrame
    clock       \* the light_ioport_set_spi_clock() that has just returned, or NoClock

wires == <<selected, dc, dma, fifo, stall, flags, seen, want>>
spiVars == <<resetPin, held, wires, inFlight, poll, frame, clock>>

NotSetUp == "not set up"
SetUp(c) == resetPin[c] # NotSetUp
NoFrame == [ctx |-> "none", got |-> <<>>, wanted |-> <<>>, timedOut |-> FALSE, behind |-> FALSE]
NoClock == [asked |-> 0, got |-> 0, source |-> 0]

\* n bytes sent on c with the data/command line at level; a context without
\* the line leaves its level alone.
Bytes(c, n, level) == [i \in 1..n |-> [from |-> c, nth |-> i, dc |-> level]]
Level(c, level) == IF SpiType[c] = "spi3" THEN dc[c] ELSE level

\* Items of a call as the device of c sees them if they are clocked now.
AsSeen(items, level) == [i \in DOMAIN items |-> [items[i] EXCEPT !.dc = level]]

\* A call in which c was selected, its device saw got, and c is high again.
\* timedOut: one of its waits did; behind: what an earlier one left went first.
Closed(c, got, wanted, timedOut, behind) ==
    /\ frame' = [ctx |-> c, got |-> got, wanted |-> wanted,
                 timedOut |-> timedOut, behind |-> behind]
    /\ clock' = NoClock

NoReport == frame' = NoFrame /\ clock' = NoClock

\* The contract of the asynchronous burst, read as one per peripheral: no
\* transfer is started while a burst on the same peripheral is outstanding.
PortQuiet(c) == inFlight \intersect OnPort(SpiPort[c]) = {}
Ready(c) == SetUp(c) /\ PortQuiet(c) /\ poll = "none"

-------------------------------------------------------------------------------
\* Set-up.  light_ioport_setup_io_spi_3p() does not store pin_reset: what the
\* port then finds in the context is whatever the allocation held: no pin, or
\* a pin nobody named, taken here to be one that no context uses.

Stored(c) == IF c \in HasReset THEN {"own"} ELSE {"none"}
Unstored(c) == {"none", "unknown"}

\* The RP2 ports make the reset pin an output without giving it a level, and
\* the output registers start low; the STM32 port drives it high.
Opened(c, pin) ==
    /\ resetPin' = [resetPin EXCEPT ![c] = pin]
    /\ held' = IF pin = "own" /\ platform = "rp2" THEN held \union {c} ELSE held

\* The RP2 ports raise the chip select before they drive it; the peripheral
\* or the state machine starts empty, and a PIO machine starts stalled.
Rp2Spi3PortInit(c) ==
    platform = "rp2" /\ UNCHANGED <<selected, dc, flags>>
Rp2Spi4PortInit(c) ==
    platform = "rp2" /\ dc' = [dc EXCEPT ![c] = FALSE] /\ UNCHANGED <<selected, flags>>
Rp2PioSpi4PortInit(c) ==
    platform = "rp2" /\ dc' = [dc EXCEPT ![c] = FALSE] /\ UNCHANGED <<selected, flags>>

StmSpi4PortInit(c) ==
    /\ platform \in {"h7", "f4"}
    /\ flags' = [flags EXCEPT ![SpiPort[c]] = [spe |-> TRUE, eot |-> FALSE]]
    /\ dc' = [dc EXCEPT ![c] = FALSE]
    /\ UNCHANGED selected
StmSpi3PortInit(c) ==
    /\ platform \in {"h7", "f4"}
    /\ flags' = [flags EXCEPT ![SpiPort[c]] = [spe |-> TRUE, eot |-> FALSE]]
    /\ UNCHANGED <<selected, dc>>
StmPioSpi4PortInit(c) ==
    platform \in {"h7", "f4"} /\ UNCHANGED <<selected, dc, flags>>
HostPortInit(c) ==
    platform = "host" /\ UNCHANGED <<selected, dc, flags>>

SetupSpi4p(c) ==
    /\ SpiType[c] = "spi4"
    /\ \E pin \in Stored(c) : Opened(c, pin)
    /\ Rp2Spi4PortInit(c) \/ StmSpi4PortInit(c) \/ HostPortInit(c)

SetupSpi3p(c) ==
    /\ SpiType[c] = "spi3"
    /\ \E pin \in Unstored(c) : Opened(c, pin)
    /\ Rp2Spi3PortInit(c) \/ StmSpi3PortInit(c) \/ HostPortInit(c)

SetupPioSpi4p(c) ==
    /\ SpiType[c] = "pio4"
    /\ \E pin \in Stored(c) : Opened(c, pin)
    /\ Rp2PioSpi4PortInit(c) \/ StmPioSpi4PortInit(c) \/ HostPortInit(c)

Setup(c) ==
    /\ ~SetUp(c) /\ PortQuiet(c) /\ poll = "none"
    /\ SetupSpi4p(c) \/ SetupSpi3p(c) \/ SetupPioSpi4p(c)
    /\ NoReport
    /\ UNCHANGED <<dma, fifo, stall, seen, want, inFlight, poll>>

-------------------------------------------------------------------------------
\* Blocking sends.

\* RP2: the SDK's write returns when the last byte has been shifted out, and
\* the PIO loop when its machine has stalled on an empty FIFO.
Rp2Send(c, n, level) ==
    LET items == Bytes(c, n, level)
        now == Level(c, level)
    IN  /\ platform = "rp2"
        /\ dc' = [dc EXCEPT ![c] = now]
        /\ stall' = [stall EXCEPT ![SpiPort[c]] = TRUE]
        /\ Closed(c, AsSeen(fifo[SpiPort[c]] \o items, now), AsSeen(items, now), FALSE, FALSE)
        /\ fifo' = [fifo EXCEPT ![SpiPort[c]] = <<>>]
        /\ UNCHANGED <<selected, dma, flags, seen, want>>

Rp2Spi3Send(c, n, level) == SpiType[c] = "spi3" /\ Rp2Send(c, n, level)
Rp2Spi4Send(c, n, level) == SpiType[c] = "spi4" /\ Rp2Send(c, n, level)
Rp2PioSpi4Send(c, n, level) == SpiType[c] = "pio4" /\ Rp2Send(c, n, level)

\* Mutant: the end-of-transfer flag is not cleared after the wait for it.
H7OutcomesEotKept(p, items, stuck) ==
    LET cut == stuck \/ flags[p].eot
    IN  {[got |-> SubSeq(items, 1, k), left |-> <<>>,
          flags |-> [spe |-> FALSE, eot |-> TRUE]] :
            k \in {n \in 0..Len(items) : cut \/ n = Len(items)}}

\* The STM32 transfer, as the outcomes it may have: the bytes the device got,
\* those left in the peripheral, and its flags.  The H7 programs each transfer
\* between clearing and setting SPE, which also empties its FIFO, waits for
\* EOT, and clears both whether the wait timed out or not; an EOT left over
\* from before would end the wait while bytes are still to go.
H7Outcomes(p, items, stuck) ==
    LET cut == stuck \/ flags[p].eot
    IN  {[got |-> SubSeq(items, 1, k), left |-> <<>>,
          flags |-> [spe |-> FALSE, eot |-> FALSE]] :
            k \in {n \in 0..Len(items) : cut \/ n = Len(items)}}

\* The F4 has no such switch: it moves bytes only with SPE set, and what it
\* had accepted when a wait timed out stays in its data and shift registers
\* and goes out ahead of the next transfer's bytes.
F4Outcomes(p, items, stuck) ==
    LET line == fifo[p] \o items
        clocked == IF stuck THEN 0..Len(line)
                   ELSE IF flags[p].spe THEN {Len(line)} ELSE {0}
        accepted(k) == {a \in Len(fifo[p])..Len(line) : k <= a /\ a <= k + 2}
    IN  UNION {{[got |-> SubSeq(line, 1, k), left |-> SubSeq(line, k + 1, a),
                 flags |-> flags[p]] : a \in accepted(k)} : k \in clocked}

StmOutcomes(p, items, stuck) ==
    IF platform = "h7" THEN H7Outcomes(p, items, stuck) ELSE F4Outcomes(p, items, stuck)

StmSend(c, n, level) ==
    LET items == Bytes(c, n, level)
        now == Level(c, level)
        p == SpiPort[c]
    IN  \E stuck \in BOOLEAN : \E r \in StmOutcomes(p, items, stuck) :
            /\ dc' = [dc EXCEPT ![c] = now]
            /\ fifo' = [fifo EXCEPT ![p] = r.left]
            /\ flags' = [flags EXCEPT ![p] = r.flags]
            /\ Closed(c, AsSeen(r.got, now), AsSeen(items, now), stuck, fifo[p] # <<>>)
            /\ UNCHANGED <<selected, dma, stall, seen, want>>

StmSpi4Send(c, n, level) == platform \in {"h7", "f4"} /\ SpiType[c] = "spi4" /\ StmSend(c, n, level)
StmSpi3Send(c, n, level) == platform \in {"h7", "f4"} /\ SpiType[c] = "spi3" /\ StmSend(c, n, level)
StmPioSpi4Send(c) ==
    platform \in {"h7", "f4"} /\ SpiType[c] = "pio4" /\ NoReport /\ UNCHANGED wires
HostSend(c) == platform = "host" /\ NoReport /\ UNCHANGED wires

\* light_ioport_send_command_byte(), _data_byte() and _data_burst(): dispatch
\* on the type of the context.
Send(c, n, level) ==
    /\ \/ Rp2Spi3Send(c, n, level) \/ Rp2Spi4Send(c, n, level) \/ Rp2PioSpi4Send(c, n, level)
       \/ StmSpi3Send(c, n, level) \/ StmSpi4Send(c, n, level) \/ StmPioSpi4Send(c)
       \/ HostSend(c)
    /\ UNCHANGED <<resetPin, held, inFlight, poll>>

SpiSendCommandByte(c) == Ready(c) /\ Send(c, 1, FALSE)
SpiSendDataByte(c) == Ready(c) /\ Send(c, 1, TRUE)
SpiSendDataBurst(c) == Ready(c) /\ \E n \in 1..MaxBurst : Send(c, n, TRUE)

-------------------------------------------------------------------------------
\* Asynchronous bursts and the poll that ends them.

\* The data/command line up, the chip select down, the DMA channel started.
StartDma(c, n) ==
    /\ platform = "rp2"
    /\ dc' = [dc EXCEPT ![c] = TRUE]
    /\ selected' = selected \union {c}
    /\ dma' = [dma EXCEPT ![c] = Bytes(c, n, TRUE)]
    /\ seen' = [seen EXCEPT ![c] = <<>>]
    /\ want' = [want EXCEPT ![c] = Bytes(c, n, TRUE)]
    /\ NoReport
    /\ UNCHANGED <<fifo, stall, flags>>

Rp2Spi4SendAsync(c, n) == SpiType[c] = "spi4" /\ StartDma(c, n)
Rp2PioSpi4SendAsync(c, n) == SpiType[c] = "pio4" /\ StartDma(c, n)

\* SPI3, and every transport of STM32 and of the host: the blocking send.
SendAsyncBlocking(c, n) ==
    \/ Rp2Spi3Send(c, n, TRUE)
    \/ StmSpi3Send(c, n, TRUE) \/ StmSpi4Send(c, n, TRUE) \/ StmPioSpi4Send(c)
    \/ HostSend(c)

SpiSendDataBurstAsync(c) ==
    /\ Ready(c)
    /\ \E n \in 1..MaxBurst :
        \/ Rp2Spi4SendAsync(c, n) \/ Rp2PioSpi4SendAsync(c, n) \/ SendAsyncBlocking(c, n)
    /\ inFlight' = inFlight \union {c}
    /\ UNCHANGED <<resetPin, held, poll>>

\* The DMA channel hands one byte to the peripheral.
DmaFeed(c) ==
    LET p == SpiPort[c]
    IN  /\ dma[c] # <<>>
        /\ Len(fifo[p]) < FifoDepth
        /\ fifo' = [fifo EXCEPT ![p] = Append(@, Head(dma[c]))]
        /\ dma' = [dma EXCEPT ![c] = Tail(@)]
        /\ NoReport
        /\ UNCHANGED <<resetPin, held, selected, dc, stall, flags, seen, want,
                       inFlight, poll>>

\* The peripheral shifts one byte out, to every device selected on its wires;
\* a PIO machine that runs dry stalls, which sets its flag.
ShiftOut(p) ==
    /\ fifo[p] # <<>>
    /\ fifo' = [fifo EXCEPT ![p] = Tail(@)]
    /\ seen' = [c \in SpiContexts |->
                  IF c \in selected /\ SpiPort[c] = p
                  THEN Append(seen[c], [Head(fifo[p]) EXCEPT !.dc = dc[c]])
                  ELSE seen[c]]
    /\ stall' = [stall EXCEPT ![p] = @ \/ Len(fifo[p]) = 1]
    /\ NoReport
    /\ UNCHANGED <<resetPin, held, selected, dc, dma, flags, want, inFlight, poll>>

\* The answer TRUE: the chip select goes up, which closes the frame, and the
\* caller may start another transfer.
Complete(c) ==
    /\ selected' = selected \ {c}
    /\ inFlight' = inFlight \ {c}
    /\ IF c \in selected
       THEN Closed(c, seen[c], want[c], FALSE, FALSE)
       ELSE NoReport
    /\ seen' = [seen EXCEPT ![c] = <<>>]
    /\ want' = [want EXCEPT ![c] = <<>>]
    /\ UNCHANGED <<resetPin, held, dc, dma, fifo, flags>>

Backed(c) == platform = "rp2" /\ SpiType[c] \in {"spi4", "pio4"}

\* light_ioport_burst_is_complete() where nothing is left in flight.
BurstIsCompleteAtOnce(c) ==
    /\ c \in inFlight /\ poll = "none" /\ ~Backed(c)
    /\ Complete(c)
    /\ UNCHANGED <<stall, poll>>

\* On the RP2 port it looks at the DMA channel first.  For a state machine it
\* then clears the stall flag, which a machine that is stalled sets again.
PollDma(c) ==
    /\ c \in inFlight /\ poll = "none" /\ Backed(c)
    /\ poll' = IF dma[c] # <<>> THEN "none" ELSE c
    /\ stall' = IF SpiType[c] = "pio4" /\ dma[c] = <<>>
                THEN [stall EXCEPT ![SpiPort[c]] = fifo[SpiPort[c]] = <<>>]
                ELSE stall
    /\ NoReport
    /\ UNCHANGED <<resetPin, held, selected, dc, dma, fifo, flags, seen, want, inFlight>>

\* SPI: then at the peripheral, and answers FALSE while that is busy.
Rp2Spi4BurstIsComplete(c) ==
    /\ poll = c /\ SpiType[c] = "spi4"
    /\ poll' = "none"
    /\ UNCHANGED stall
    /\ IF fifo[SpiPort[c]] = <<>>
       THEN Complete(c)
       ELSE /\ NoReport
            /\ UNCHANGED <<resetPin, held, wires, inFlight>>

\* PIO: waits until the machine has stalled.
Rp2PioSpi4BurstIsComplete(c) ==
    /\ poll = c /\ SpiType[c] = "pio4"
    /\ stall[SpiPort[c]]
    /\ poll' = "none"
    /\ Complete(c)
    /\ UNCHANGED stall

-------------------------------------------------------------------------------
\* Clock, mode and reset.

\* The divider is the first power of two from 2 to 256 that does not exceed
\* what was asked for, and the last of them when none does.
Divider(source, hz) ==
    CHOOSE d \in 0..7 :
        /\ d = 7 \/ source \div 2^(d + 1) <= hz
        /\ \A e \in 0..(d - 1) : source \div 2^(e + 1) > hz

\* Without a kernel clock the divider is left alone.  Only the F4 switches the
\* peripheral on again; the H7 leaves that to the next transfer.
StmSetClock(c, hz, source) ==
    /\ platform \in {"h7", "f4"}
    /\ clock' = [asked |-> hz, source |-> source,
                 got |-> IF source = 0 THEN 0 ELSE source \div 2^(Divider(source, hz) + 1)]
    /\ flags' = IF source = 0 THEN flags
                ELSE [flags EXCEPT ![SpiPort[c]].spe = (platform = "f4")]

\* The SDK answers with the rate its own divider achieves, the host with the
\* rate asked for.
Rp2SetClock(c, hz) ==
    platform = "rp2" /\ clock' = NoClock /\ UNCHANGED flags
HostSetClock(c, hz) ==
    platform = "host" /\ clock' = NoClock /\ UNCHANGED flags

SetSpiClock(c) ==
    /\ Ready(c) /\ SpiType[c] \in {"spi3", "spi4"}
    /\ \E hz \in AskedRates :
        \/ \E source \in KernelRates : StmSetClock(c, hz, source)
        \/ Rp2SetClock(c, hz) \/ HostSetClock(c, hz)
    /\ frame' = NoFrame
    /\ UNCHANGED <<resetPin, held, selected, dc, dma, fifo, stall, seen, want, inFlight, poll>>

\* A peripheral that was enabled is enabled again once the mode is written.
StmSetMode(c) ==
    LET wasEnabled == flags[SpiPort[c]].spe
    IN  /\ platform \in {"h7", "f4"}
        /\ flags' = [flags EXCEPT ![SpiPort[c]].spe = wasEnabled]

SetSpiMode(c) ==
    /\ Ready(c) /\ SpiType[c] \in {"spi3", "spi4"}
    /\ StmSetMode(c)
    /\ NoReport
    /\ UNCHANGED <<resetPin, held, selected, dc, dma, fifo, stall, seen, want, inFlight, poll>>

\* light_ioport_set_reset() drives the pin the context holds, active low, and
\* does nothing without one; on the host there is no pin.
Rp2SetReset(c, asserted) ==
    /\ platform = "rp2"
    /\ held' = IF resetPin[c] # "own" THEN held
               ELSE IF asserted THEN held \union {c} ELSE held \ {c}
StmSetReset(c, asserted) ==
    /\ platform \in {"h7", "f4"}
    /\ held' = IF resetPin[c] # "own" THEN held
               ELSE IF asserted THEN held \union {c} ELSE held \ {c}

\* light_ioport_signal_reset() pulses it and leaves it released.
Rp2SignalReset(c) == Rp2SetReset(c, FALSE)
StmSignalReset(c) == StmSetReset(c, FALSE)

DriveReset(c) ==
    /\ SetUp(c) /\ poll = "none"
    /\ \/ \E asserted \in BOOLEAN : Rp2SetReset(c, asserted) \/ StmSetReset(c, asserted)
       \/ Rp2SignalReset(c) \/ StmSignalReset(c)
    /\ NoReport
    /\ UNCHANGED <<resetPin, wires, inFlight, poll>>

-------------------------------------------------------------------------------
SpiInit ==
    /\ resetPin = [c \in SpiContexts |-> NotSetUp]
    /\ held = {} /\ selected = {} /\ inFlight = {} /\ poll = "none"
    /\ dc = [c \in SpiContexts |-> FALSE]
    /\ dma = [c \in SpiContexts |-> <<>>]
    /\ seen = [c \in SpiContexts |-> <<>>]
    /\ want = [c \in SpiContexts |-> <<>>]
    /\ fifo = [p \in SpiPorts |-> <<>>]
    /\ stall = [p \in SpiPorts |-> TRUE]
    /\ flags = [p \in SpiPorts |-> [spe |-> FALSE, eot |-> FALSE]]
    /\ frame = NoFrame
    /\ clock = NoClock

SpiNext ==
    \/ \E c \in SpiContexts :
        \/ Setup(c)
        \/ SpiSendCommandByte(c)
        \/ SpiSendDataByte(c)
        \/ SpiSendDataBurst(c)
        \/ SpiSendDataBurstAsync(c)
        \/ DmaFeed(c)
        \/ BurstIsCompleteAtOnce(c)
        \/ PollDma(c)
        \/ Rp2Spi4BurstIsComplete(c)
        \/ Rp2PioSpi4BurstIsComplete(c)
        \/ SetSpiClock(c)
        \/ SetSpiMode(c)
        \/ DriveReset(c)
    \/ \E p \in SpiPorts : ShiftOut(p)

SpiSpec == PlatformInit /\ SpiInit /\ [][SpiNext /\ UNCHANGED platform]_<<spiVars, platform>>

SpiTypeOK ==
    /\ held \union selected \union inFlight \subseteq SpiContexts
    /\ poll \in SpiContexts \union {"none"}
    /\ \A p \in SpiPorts : Len(fifo[p]) <= IF platform = "f4" THEN 2 ELSE FifoDepth
    /\ \A c \in SpiContexts : dma[c] # <<>> => c \in inFlight /\ c \in selected

(***************************************************************************)
(* Whenever a chip select goes up, its device has been clocked exactly the *)
(* bytes of the one call it framed, in order, each with the data/command   *)
(* level of that call: nothing of the tail is still in the peripheral, and *)
(* nothing of another call got in.  A call that gave up on a stuck STM32   *)
(* peripheral has delivered a prefix, and has not left the peripheral in a *)
(* state that spoils a later one; the F4 alone may send what was left in   *)
(* it ahead of the next call's bytes.  (When burst_is_complete() may raise *)
(* the chip select, and the clean-up after a timed-out wait.)              *)
(***************************************************************************)
FramesIntact ==
    frame.ctx # "none" /\ ~(platform = "f4" /\ frame.behind) =>
        IF frame.timedOut THEN IsPrefix(frame.got, frame.wanted)
                          ELSE frame.got = frame.wanted

(***************************************************************************)
(* A panel is never clocked faster than was asked for, unless even the     *)
(* largest divider cannot go that low.                                     *)
(***************************************************************************)
NeverOverclocked ==
    clock.got > clock.asked => clock.got = clock.source \div 256

(***************************************************************************)
(* Both together: the promises of light_ioport.h to a device on SPI.       *)
(***************************************************************************)
SpiAsPromised == FramesIntact /\ NeverOverclocked
===============================================================================
