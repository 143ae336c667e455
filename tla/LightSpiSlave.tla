---------------------------- MODULE LightSpiSlave ----------------------------
(***************************************************************************)
(* The receiving role of light_ioport: an SPI slave whose bytes arrive     *)
(* whenever the peer clocks them, a peripheral FIFO that overruns, the     *)
(* receive interrupt that moves bytes from the FIFO to a ring              *)
(* (portable/rp2/platform.c, portable/stm32/platform.c) and the polling    *)
(* reader above the backends (display_ioport.c).                           *)
(*                                                                         *)
(* The interrupt is served on the core that reads, so it preempts the      *)
(* reader between any two of its steps and runs to its end; bytes go on    *)
(* arriving all the while.  Both steps of a read-modify of the hardware    *)
(* are therefore separate from the arrival of bytes, and the reader's      *)
(* steps from the interrupt.                                               *)
(***************************************************************************)
EXTENDS Naturals, Sequences, SequencesExt, FiniteSets

CONSTANTS
  Ports,        \* the backends considered, of "rp2", "h7" and "f4"
  Depth,        \* the peripheral's FIFO depth, per backend
  Threshold,    \* the fill at which the receive interrupt is raised, per backend
  BufferSizes,  \* the buffer lengths a caller may offer, good and bad
  MaxRead,      \* bound: what a caller asks for in one read
  MaxBytes      \* bound: the bytes the peer sends

ASSUME LinkAssumption ==
  /\ Ports \subseteq {"rp2", "h7", "f4"}
  /\ Depth \in [Ports -> Nat \ {0}]
  /\ Threshold \in [Ports -> Nat \ {0}]
  /\ BufferSizes \subseteq Nat
  /\ MaxRead \in Nat \ {0} /\ MaxBytes \in Nat

VARIABLES
  port,       \* the backend of this build, never changed
  sent,       \* bytes the peer has clocked out, numbered from 1
  rxFifo,     \* the peripheral's receive FIFO
  overrun,    \* its latched overrun status
  irqOn,      \* the receive interrupt is enabled
  isr,        \* where the handler is: "idle", "test", "clear", "drain"
  mode,       \* "closed", "dead" (no such peripheral), "fifo", "starting", "enabling", "ring"
  size,       \* rx_mask + 1 once a ring is installed, 0 before
  ring,       \* rx_buf; 0 in a slot never written
  head, tail, \* rx_head, rx_tail
  overflow,   \* rx_overflow
  reader,     \* the reading task: [at |-> "idle"], or where it is in one call
  delivered,  \* ghost: the bytes given to the caller, in order
  reported,   \* ghost: the bytes missing when a receive overflow was last logged
  base        \* ghost: the last byte that predates buffering

ctx == <<mode, size, ring, head, tail, overflow>>
hw == <<rxFifo, overrun, irqOn>>
ghosts == <<delivered, reported, base>>
rxVars == <<port, sent, hw, isr, ctx, reader, ghosts>>

Lengths == BufferSizes \cup {0}
Slots == UNION {0 .. len : len \in Lengths}
NoRead == [at |-> "idle"]

PowerOfTwo(len) == \E k \in 0 .. len : 2 ^ k = len

\* The bytes of the ring from one index up to another.
Span(from, to) == [i \in 1 .. (to + size - from) % size |-> ring[(from + i - 1) % size]]

\* What has been received and not yet given to the caller, oldest first.
Waiting ==
  IF mode = "ring" THEN Span(tail, head) \o rxFifo
  ELSE IF reader.at = "poll" THEN reader.out \o rxFifo ELSE rxFifo

\* The bytes that will never be read, of those that arrived after buffering began.
Missing == {b \in base + 1 .. sent : b \notin Range(delivered) \cup Range(Waiting)}

RxInit ==
  /\ port \in Ports
  /\ sent = 0 /\ rxFifo = <<>> /\ overrun = FALSE /\ irqOn = FALSE /\ isr = "idle"
  /\ mode = "closed" /\ size = 0 /\ head = 0 /\ tail = 0 /\ overflow = FALSE
  /\ ring = [s \in Slots |-> 0]
  /\ reader = NoRead
  /\ delivered = <<>> /\ reported = {} /\ base = 0

------------------------------------------------------------------------------
\* The peripheral.  A full FIFO keeps what it has, drops the byte and latches the overrun.
ByteArrives ==
  /\ mode \notin {"closed", "dead"}
  /\ sent < MaxBytes
  /\ sent' = sent + 1
  /\ IF Len(rxFifo) < Depth[port]
     THEN rxFifo' = Append(rxFifo, sent + 1) /\ UNCHANGED overrun
     ELSE overrun' = TRUE /\ UNCHANGED rxFifo
  /\ UNCHANGED <<port, irqOn, isr, ctx, reader, ghosts>>

\* A read of the data register.  On the F4 it also takes the overrun status with it,
\* since every read here is followed by one of the status register.
TakeByte ==
  /\ rxFifo' = Tail(rxFifo)
  /\ overrun' = (overrun /\ port # "f4")

\* (NoTimeout is a mutant: only the threshold is enabled.)
\* The interrupt sources enabled: the fill threshold on every backend, the receive
\* timeout on the RP2, the overrun on the STM32.
RxRaised == Len(rxFifo) >= Threshold[port]
NoTimeout == FALSE
TimeoutRaised == port = "rp2" /\ rxFifo # <<>>
ErrorRaised == port \in {"h7", "f4"} /\ overrun

------------------------------------------------------------------------------
\* The backend's port init: a port id that names no peripheral is only warned of.
PortInit == mode' \in {"fifo", "dead"}

\* light_ioport_setup_io_spi_slave()
SetupSlave ==
  /\ mode = "closed"
  /\ PortInit
  /\ UNCHANGED <<port, sent, hw, isr, size, ring, head, tail, overflow, reader, ghosts>>

\* light_ioport_spi_slave_set_rx_buffer(), called once per context: refused for a length
\* that is no power of two; reverted when the backend cannot start.
SetRxBuffer(len) ==
  /\ reader = NoRead
  /\ \/ /\ len < 2 \/ ~PowerOfTwo(len) \/ mode = "dead"
        /\ mode \in {"fifo", "dead"}
        /\ head' = 0 /\ tail' = 0 /\ overflow' = FALSE
        /\ UNCHANGED <<mode, size>>
     \/ /\ len >= 2 /\ PowerOfTwo(len) /\ mode = "fifo"
        /\ mode' = "starting" /\ size' = len
        /\ head' = 0 /\ tail' = 0 /\ overflow' = FALSE
  /\ UNCHANGED <<port, sent, hw, isr, ring, reader, ghosts>>

\* _platform_spi_slave_start_rx(): what the FIFO holds is thrown away ...
StartRxDiscard ==
  /\ mode = "starting" /\ rxFifo # <<>>
  /\ TakeByte
  /\ UNCHANGED <<port, sent, irqOn, isr, ctx, reader, ghosts>>

StartRxDrained ==
  /\ mode = "starting" /\ rxFifo = <<>>
  /\ mode' = "enabling"
  /\ UNCHANGED <<port, sent, hw, isr, size, ring, head, tail, overflow, reader, ghosts>>

\* ... the overrun status is cleared and the interrupt enabled.
StartRxEnable ==
  /\ mode = "enabling"
  /\ overrun' = (overrun /\ port = "f4")
  /\ irqOn' = TRUE
  /\ mode' = "ring"
  /\ base' = sent
  /\ UNCHANGED <<port, sent, rxFifo, isr, size, ring, head, tail, overflow, reader,
                 delivered, reported>>

------------------------------------------------------------------------------
\* The receive interrupt, _spi_slave_rx_isr().
IsrEnter ==
  /\ irqOn /\ isr = "idle"
  /\ RxRaised \/ TimeoutRaised \/ ErrorRaised
  /\ isr' = "test"
  /\ UNCHANGED <<port, sent, hw, ctx, reader, ghosts>>

IsrTestOverrun ==
  /\ isr = "test"
  /\ isr' = (IF overrun THEN "clear" ELSE "drain")
  /\ overflow' = (overflow \/ overrun)
  /\ UNCHANGED <<port, sent, hw, mode, size, ring, head, tail, reader, ghosts>>

\* The F4 has no clear register: the status goes with a byte read from the data register.
IsrClearOverrun ==
  /\ isr = "clear"
  /\ isr' = "drain"
  /\ overrun' = FALSE
  /\ rxFifo' = IF port = "f4" THEN Tail(rxFifo) ELSE rxFifo
  /\ UNCHANGED <<port, sent, irqOn, ctx, reader, ghosts>>

\* Mutant of IsrDrain: a dropped byte is not recorded.
IsrDrainQuietly ==
  /\ isr = "drain" /\ rxFifo # <<>>
  /\ TakeByte
  /\ LET next == (head + 1) % size IN
       IF next = tail
       THEN UNCHANGED <<ring, head>>
       ELSE ring' = [ring EXCEPT ![head] = Head(rxFifo)] /\ head' = next
  /\ UNCHANGED <<port, sent, irqOn, isr, mode, size, tail, overflow, reader, ghosts>>

\* One byte from the FIFO into the ring: dropped, and recorded, when the ring is full.
IsrDrain ==
  /\ isr = "drain" /\ rxFifo # <<>>
  /\ TakeByte
  /\ LET next == (head + 1) % size IN
       IF next = tail
       THEN overflow' = TRUE /\ UNCHANGED <<ring, head>>
       ELSE /\ ring' = [ring EXCEPT ![head] = Head(rxFifo)]
            /\ head' = next
            /\ UNCHANGED overflow
  /\ UNCHANGED <<port, sent, irqOn, isr, mode, size, tail, reader, ghosts>>

IsrReturn ==
  /\ isr = "drain" /\ rxFifo = <<>>
  /\ isr' = "idle"
  /\ UNCHANGED <<port, sent, hw, ctx, reader, ghosts>>

Isr == IsrEnter \/ IsrTestOverrun \/ IsrClearOverrun \/ IsrDrain \/ IsrReturn

------------------------------------------------------------------------------
\* light_ioport_read_available().  The reader runs only while the interrupt does not.
ReaderRuns == isr = "idle"

ReadBegin(max) ==
  /\ reader = NoRead /\ ReaderRuns
  /\ \/ mode = "ring" /\ reader' = [at |-> IF overflow THEN "report" ELSE "sample", room |-> max]
     \/ mode = "fifo" /\ reader' = [at |-> "poll", room |-> max, out |-> <<>>]
  /\ UNCHANGED <<port, sent, hw, isr, ctx, ghosts>>

\* The flag goes down before the line is logged: a drop in between raises it again.
ReadReport ==
  /\ reader.at = "report" /\ ReaderRuns
  /\ overflow' = FALSE
  /\ reported' = reported \cup Missing
  /\ reader' = [reader EXCEPT !.at = "sample"]
  /\ UNCHANGED <<port, sent, hw, isr, mode, size, ring, head, tail, delivered, base>>

ReadSample ==
  /\ reader.at = "sample" /\ ReaderRuns
  /\ reader' = [at |-> "copy", room |-> reader.room, out |-> <<>>, head |-> head, tail |-> tail]
  /\ UNCHANGED <<port, sent, hw, isr, ctx, ghosts>>

ReadCopy ==
  /\ reader.at = "copy" /\ ReaderRuns
  /\ reader.room > 0 /\ reader.tail # reader.head
  /\ reader' = [reader EXCEPT !.room = @ - 1, !.tail = (@ + 1) % size,
                              !.out = Append(@, ring[reader.tail])]
  /\ UNCHANGED <<port, sent, hw, isr, ctx, ghosts>>

\* Mutant: the tail follows the interrupt, past bytes the caller had no room for.
ReadPublishHead ==
  /\ reader.at = "copy" /\ ReaderRuns
  /\ reader.room = 0 \/ reader.tail = reader.head
  /\ tail' = head
  /\ delivered' = delivered \o reader.out
  /\ reader' = NoRead
  /\ UNCHANGED <<port, sent, hw, isr, mode, size, ring, head, overflow, reported, base>>

\* The slots are given back to the interrupt all at once, when they have been copied.
ReadPublish ==
  /\ reader.at = "copy" /\ ReaderRuns
  /\ reader.room = 0 \/ reader.tail = reader.head
  /\ tail' = reader.tail
  /\ delivered' = delivered \o reader.out
  /\ reader' = NoRead
  /\ UNCHANGED <<port, sent, hw, isr, mode, size, ring, head, overflow, reported, base>>

\* _platform_spi_slave_read_available(): no ring, so straight from the FIFO.
PollByte ==
  /\ reader.at = "poll" /\ reader.room > 0 /\ rxFifo # <<>>
  /\ TakeByte
  /\ reader' = [reader EXCEPT !.room = @ - 1, !.out = Append(@, Head(rxFifo))]
  /\ UNCHANGED <<port, sent, irqOn, isr, ctx, ghosts>>

PollReturn ==
  /\ reader.at = "poll"
  /\ reader.room = 0 \/ rxFifo = <<>>
  /\ delivered' = delivered \o reader.out
  /\ reader' = NoRead
  /\ UNCHANGED <<port, sent, hw, isr, ctx, reported, base>>

\* One step of the polling task; it calls again as soon as it is back.
Poll ==
  \/ \E max \in 1 .. MaxRead : ReadBegin(max)
  \/ ReadReport \/ ReadSample \/ ReadCopy \/ ReadPublish
  \/ PollByte \/ PollReturn

StartRx == StartRxDiscard \/ StartRxDrained \/ StartRxEnable

RxNext ==
  \/ ByteArrives
  \/ SetupSlave
  \/ \E len \in BufferSizes : SetRxBuffer(len)
  \/ StartRx
  \/ Isr
  \/ Poll

\* The interrupt is served, and the reader is a periodic task of the framework's pass.
RxFairness == WF_rxVars(Isr) /\ WF_rxVars(Poll) /\ WF_rxVars(StartRx)

RxSpec == RxInit /\ [][RxNext]_rxVars /\ RxFairness

------------------------------------------------------------------------------
RxTypeOK ==
  /\ port \in Ports
  /\ sent \in 0 .. MaxBytes
  /\ rxFifo \in Seq(1 .. MaxBytes) /\ Len(rxFifo) <= Depth[port]
  /\ overrun \in BOOLEAN /\ irqOn \in BOOLEAN /\ overflow \in BOOLEAN
  /\ isr \in {"idle", "test", "clear", "drain"}
  /\ mode \in {"closed", "dead", "fifo", "starting", "enabling", "ring"}
  /\ size \in {0} \cup {len \in BufferSizes : len >= 2 /\ PowerOfTwo(len)}
  /\ ring \in [Slots -> 0 .. MaxBytes]
  /\ head \in Slots /\ tail \in Slots /\ (size > 0 => {head, tail} \subseteq 0 .. size - 1)
  /\ reader.at \in {"idle", "report", "sample", "copy", "poll"}
  /\ delivered \in Seq(1 .. MaxBytes)

\* A byte that arrived after buffering began and will never be read does not pass unnoticed
\* (light_ioport.h:72-73, rp2/platform.c:208-211): it has been reported, or rx_overflow
\* stands for the next read to report it, or the peripheral still holds the overrun for the
\* next interrupt to fold into rx_overflow.
NoSilentLoss == mode = "ring" => (Missing \subseteq reported \/ overflow \/ overrun)

\* The ring and the FIFO together are a link that delivers in order, once, and loses only
\* when at least min(FIFO depth, ring capacity) bytes are waiting, whatever the interrupt
\* preempts (display_ioport.c:143-155, rp2/platform.c:217-234).
Link == INSTANCE LossyLink WITH
  room <- IF mode # "ring" THEN Depth[port] ELSE Min({Depth[port], size - 1}),
  waiting <- Waiting,
  buffering <- mode = "ring"
LinkSpec == Link!Spec
ImplementsLossyLink == LinkSpec

\* With a ring, what has arrived is eventually given to the caller, the last bytes of a burst
\* too, which leave the FIFO below its threshold with no byte to follow them
\* (rp2/platform.c:260-264, stm32/platform.c:788-790): the link keeps running empty.
EverythingReadable == (mode = "ring") ~> (Waiting = <<>>)
==============================================================================
