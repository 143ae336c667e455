------------------------------ MODULE LossyLink ------------------------------
(***************************************************************************)
(* What a buffered SPI slave promises its caller, without rings, FIFOs or  *)
(* interrupts: bytes come out in the order the peer sent them, each once,  *)
(* none invented; a byte goes missing only when at least `room' bytes are   *)
(* waiting to be read, or while the link is not being buffered yet.        *)
(***************************************************************************)
EXTENDS Naturals, Sequences, SequencesExt

VARIABLES
  sent,       \* how many bytes the peer has clocked out; they are numbered from 1
  waiting,    \* bytes received and not read yet, oldest first
  delivered,  \* what the caller has been given
  room,       \* the backlog the link holds before it may lose a byte
  buffering   \* TRUE from light_ioport_spi_slave_set_rx_buffer() on

linkVars == <<sent, waiting, delivered, room, buffering>>

Init ==
  /\ sent = 0
  /\ waiting = <<>>
  /\ delivered = <<>>
  /\ room \in Nat
  /\ buffering = FALSE

Receive ==
  /\ sent' = sent + 1
  /\ waiting' = Append(waiting, sent + 1)
  /\ UNCHANGED <<delivered, room, buffering>>

MayLose == ~buffering \/ Len(waiting) >= room

\* The peer cannot be held off: what finds no room is gone.
LoseArriving ==
  /\ MayLose
  /\ sent' = sent + 1
  /\ UNCHANGED <<waiting, delivered, room, buffering>>

LoseWaiting ==
  /\ MayLose
  /\ \E i \in DOMAIN waiting : waiting' = RemoveAt(waiting, i)
  /\ UNCHANGED <<sent, delivered, room, buffering>>

Deliver ==
  /\ \E n \in DOMAIN waiting :
       /\ delivered' = delivered \o SubSeq(waiting, 1, n)
       /\ waiting' = SubSeq(waiting, n + 1, Len(waiting))
  /\ UNCHANGED <<sent, room, buffering>>

StartBuffering ==
  /\ ~buffering
  /\ buffering' = TRUE
  /\ room' \in Nat
  /\ UNCHANGED <<sent, waiting, delivered>>

Next == Receive \/ LoseArriving \/ LoseWaiting \/ Deliver \/ StartBuffering

Spec == Init /\ [][Next]_linkVars
==============================================================================
