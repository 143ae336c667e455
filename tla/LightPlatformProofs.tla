-------------------------- MODULE LightPlatformProofs --------------------------
(***************************************************************************)
(* What the chip packages do for the other modules: timers, PWM outputs    *)
(* and core 1 of the RP2350.                                               *)
(*                                                                         *)
(* Timers: what one reports as remaining, for any number of timers and any *)
(* range of the clock.  TimerKeepsTime looks at a timer through Remaining, *)
(* which says nothing of a timer's duration while it runs nor of its       *)
(* target while it rests.  TimerInv says what both hold: an idle timer the *)
(* rest of what was asked, a running one a target that is this rest away   *)
(* on the clock's circle.                                                  *)
(*                                                                         *)
(* PWM: the promises of the outputs, for any number of pins, instances,    *)
(* DMA channels and pacing timers, and any wiring of pins to blocks.       *)
(* PwmAsPromised is not inductive: that a stopped output stays silent      *)
(* needs that no DMA channel is busy on the channel of its pin             *)
(* (RestIsQuiet); that in turn needs that a busy channel belongs to an     *)
(* open instance and writes to its pin (PoolInv), and this that an         *)
(* instance that is free holds nothing (RowsInv).                          *)
(***************************************************************************)
EXTENDS LightTimer, LightPwm, LightUsbWorker, SequenceTheorems, WellFoundedInduction, TLAPS

-----------------------------------------------------------------------------
(* Sequences. *)

LEMMA AppendMoves ==
    \A S : \A s, t \in Seq(S), n \in S :
        s \o Append(t, n) = Append(s \o t, n) /\ s \o t \in Seq(S)
<1> TAKE S
<1> TAKE s, t \in Seq(S), n \in S
<1>1. s \o t \in Seq(S) /\ <<n>> \in Seq(S)
  BY ConcatProperties
<1>2. Append(t, n) = t \o <<n>> /\ Append(s \o t, n) = (s \o t) \o <<n>>
  BY <1>1, AppendIsConcat
<1> QED
  BY <1>1, <1>2, ConcatAssociative

AddsBehind(s, t, n) == s \o Append(t, n) = Append(s \o t, n) /\ s \o t \in Seq(Nat)

LEMMA AddExtends ==
    ASSUME NEW s \in Seq(Nat), NEW t \in Seq(Nat), NEW n \in Nat
    PROVE  AddsBehind(s, t, n)
<1>1. \A u, v \in Seq(Nat), m \in Nat :
        u \o Append(v, m) = Append(u \o v, m) /\ u \o v \in Seq(Nat)
  BY ONLY AppendMoves, Zenon
<1> QED
  BY <1>1 DEF AddsBehind

-----------------------------------------------------------------------------
(* PWM outputs. *)

Row == [inUse : BOOLEAN, pin : PwmPins \union {None}, dma : DmaChannels \union {None},
        timer : PacingTimers \union {None}, wrap : Nat]
BlockRow == [wrap : Nat, div : Nat, on : BOOLEAN]
StreamRow == [busy : BOOLEAN, pin : PwmPins \union {None}, timer : PacingTimers \union {None}]
Resources == DmaChannels \union PacingTimers

TypeParts ==
    /\ pwms \in [Pwms -> Row]
    /\ blocks \in [Blocks -> BlockRow]
    /\ level \in [Blocks -> [Channels -> Nat]]
    /\ drives \in [PwmPins -> {"block", "gpio"}]
    /\ claims \in [Resources -> {"free", "pwm", "other"}]
    /\ streams \in [DmaChannels -> StreamRow]
    /\ rest \subseteq InUse
    /\ returned \in [Blocks -> Nat]

\* An instance in use has a pin, one that is not holds nothing.
RowsInv ==
    /\ \A i \in InUse : pwms[i].pin \in PwmPins
    /\ \A i \in Pwms \ InUse : pwms[i].dma = None /\ pwms[i].timer = None
    /\ platform # "rp2" => \A i \in Pwms : pwms[i].dma = None /\ pwms[i].timer = None

\* A claim is held by one open instance, and what runs runs for one.
PoolInv ==
    /\ \A d \in DmaChannels : claims[d] = "pwm" <=> \E i \in InUse : pwms[i].dma = d
    /\ \A t \in PacingTimers : claims[t] = "pwm" <=> \E i \in InUse : pwms[i].timer = t
    /\ \A i \in InUse : \A j \in InUse \ {i} :
        /\ pwms[i].dma # None => pwms[j].dma # pwms[i].dma
        /\ pwms[i].timer # None => pwms[j].timer # pwms[i].timer
    /\ \A d \in DmaChannels : streams[d].busy =>
        \E i \in InUse : /\ d = pwms[i].dma
                         /\ streams[d].pin = pwms[i].pin /\ streams[d].timer = pwms[i].timer

SameChannel(p, q) == Block[p] = Block[q] /\ Channel[p] = Channel[q]

\* Nothing streams to the channel of an instance at rest.
RestIsQuiet ==
    \A i \in rest : \A d \in DmaChannels :
        streams[d].busy => ~SameChannel(streams[d].pin, pwms[i].pin)

USE PwmAssumption

\* The type invariant, over the row types named above.
LEMMA TypesAre == PwmTypeOK <=> TypeParts
  BY DEF PwmTypeOK, TypeParts, Row, BlockRow, StreamRow, Resources

\* A set of naturals has a least member: what the search for a free instance finds.
LEMMA LeastNatural ==
    ASSUME NEW S \in SUBSET Nat, S # {}
    PROVE  \E x \in S : \A y \in S : ~ (y < x)
<1>1. \E x \in S : \A y \in S : ~ (<<y, x>> \in OpToRel(<, Nat))
  BY NatLessThanWellFounded, WFMin
<1> QED
  BY <1>1 DEF OpToRel

\* open() takes an instance that was free.
LEMMA FirstFreeIsFree ==
    ASSUME InUse # Pwms
    PROVE  FirstFree \in Pwms \ InUse
<1> DEFINE S == Pwms \ InUse
<1>1. S \in SUBSET Nat /\ S # {}
  BY DEF InUse, Pwms
<1>2. \E i \in S : \A j \in S : ~ (j < i)
  BY <1>1, LeastNatural
<1>3. \E i \in S : \A j \in S : i <= j
  BY <1>1, <1>2
<1> QED
  BY <1>3 DEF FirstFree

\* A row of the table changed.
LEMMA RowChanged ==
    ASSUME pwms \in [Pwms -> Row], NEW i \in Pwms, NEW r \in Row, pwms' = [pwms EXCEPT ![i] = r]
    PROVE  /\ pwms' \in [Pwms -> Row]
           /\ pwms'[i] = r /\ \A j \in Pwms \ {i} : pwms'[j] = pwms[j]
           /\ InUse' = IF r.inUse THEN InUse \union {i} ELSE InUse \ {i}
<1>1. /\ pwms' \in [Pwms -> Row]
      /\ pwms'[i] = r /\ \A j \in Pwms \ {i} : pwms'[j] = pwms[j]
  OBVIOUS
<1>2. \A j \in Pwms \ {i} : j \in InUse' <=> j \in InUse
  BY <1>1 DEF InUse
<1>3. i \in InUse' <=> r.inUse
  BY <1>1 DEF InUse
<1>4. InUse \subseteq Pwms /\ InUse' \subseteq Pwms
  BY DEF InUse
<1>5. CASE r.inUse
  BY <1>2, <1>3, <1>4, <1>5
<1>6. CASE ~r.inUse
  BY <1>2, <1>3, <1>4, <1>6
<1> QED
  BY <1>1, <1>5, <1>6

OpenedAs(f, p) ==
    /\ f \in Pwms \ InUse /\ InUse' = InUse \union {f}
    /\ pwms' \in [Pwms -> Row] /\ \A j \in Pwms \ {f} : pwms'[j] = pwms[j]
    /\ pwms'[f].pin = p /\ pwms'[f].dma = None /\ pwms'[f].timer = None

\* open() gives the pin to a free instance that holds nothing.
LEMMA OpenEffect ==
    ASSUME TypeParts, RowsInv, NEW p \in PwmPins, Open(p)
    PROVE  /\ OpenedAs(FirstFree, p)
           /\ drives' = [drives EXCEPT ![p] = "block"]
           /\ rest' = rest \ {FirstFree}
           /\ UNCHANGED <<blocks, level, claims, streams, returned>>
<1> DEFINE f == FirstFree
<1>1. f \in Pwms \ InUse
  BY FirstFreeIsFree DEF Open
<1>2. /\ pwms[f] \in Row /\ pwms[f].dma = None /\ pwms[f].timer = None
  BY <1>1 DEF TypeParts, RowsInv
<1> HIDE DEF f
<1>3. CASE Rp2Open(p)
  <2> DEFINE r == [pwms[f] EXCEPT !.inUse = TRUE, !.pin = p, !.dma = None, !.timer = None]
  <2>1. r \in Row /\ r.inUse = TRUE /\ r.pin = p /\ r.dma = None /\ r.timer = None
    BY <1>2 DEF Row
  <2>2. pwms' = [pwms EXCEPT ![f] = r]
    BY <1>3 DEF Rp2Open, f
  <2> HIDE DEF r
  <2>3. OpenedAs(f, p)
    BY <1>1, <2>1, <2>2, RowChanged DEF OpenedAs, TypeParts
  <2> QED
    BY <1>3, <2>3 DEF Open, Rp2Open, f
<1>4. CASE StmOpen(p)
  <2> DEFINE r == [pwms[f] EXCEPT !.inUse = TRUE, !.pin = p, !.wrap = 0]
  <2>1. r \in Row /\ r.inUse = TRUE /\ r.pin = p /\ r.dma = None /\ r.timer = None
    BY <1>2 DEF Row
  <2>2. pwms' = [pwms EXCEPT ![f] = r]
    BY <1>4 DEF StmOpen, f
  <2> HIDE DEF r
  <2>3. OpenedAs(f, p)
    BY <1>1, <2>1, <2>2, RowChanged DEF OpenedAs, TypeParts
  <2> QED
    BY <1>4, <2>3 DEF Open, StmOpen, f
<1> QED
  BY <1>3, <1>4 DEF Open

\* Who uses the table and what for is as it was.
SameHolders ==
    /\ pwms' \in [Pwms -> Row] /\ InUse' = InUse
    /\ \A j \in Pwms : /\ pwms'[j].pin = pwms[j].pin /\ pwms'[j].dma = pwms[j].dma
                       /\ pwms'[j].timer = pwms[j].timer

\* A call that leaves the table alone changes no holder.
LEMMA SameHoldersKept ==
    ASSUME TypeParts, pwms' = pwms
    PROVE  SameHolders
  BY DEF TypeParts, SameHolders, InUse

\* Nor does one that records a wrap.
LEMMA WrapKept ==
    ASSUME TypeParts, NEW i \in InUse, NEW wrap \in Nat, pwms' = [pwms EXCEPT ![i].wrap = wrap]
    PROVE  SameHolders
<1> DEFINE r == [pwms[i] EXCEPT !.wrap = wrap]
<1>1. i \in Pwms /\ pwms[i] \in Row /\ pwms[i].inUse
  BY DEF TypeParts, InUse
<1>2. /\ r \in Row /\ r.inUse = pwms[i].inUse /\ r.pin = pwms[i].pin
      /\ r.dma = pwms[i].dma /\ r.timer = pwms[i].timer
  BY <1>1 DEF Row
<1>3. pwms' = [pwms EXCEPT ![i] = r]
  OBVIOUS
<1>4. r.inUse
  BY <1>1, <1>2, Zenon
<1> HIDE DEF r
<1>5. /\ pwms' \in [Pwms -> Row] /\ pwms'[i] = r /\ \A j \in Pwms \ {i} : pwms'[j] = pwms[j]
      /\ InUse' = IF r.inUse THEN InUse \union {i} ELSE InUse \ {i}
  BY <1>1, <1>2, <1>3, RowChanged DEF TypeParts
<1>6. InUse' = InUse
  BY <1>4, <1>5
<1> QED
  BY <1>1, <1>2, <1>5, <1>6 DEF SameHolders

\* An instance closed: what it held is free and does not run.
ClosedAs(i) ==
    /\ InUse' = InUse \ {i}
    /\ pwms' \in [Pwms -> Row] /\ \A j \in Pwms \ {i} : pwms'[j] = pwms[j]
    /\ pwms'[i].dma = None /\ pwms'[i].timer = None
    /\ claims' \in [Resources -> {"free", "pwm", "other"}]
    /\ \A r \in Resources :
        claims'[r] = IF r = pwms[i].dma \/ r = pwms[i].timer THEN "free" ELSE claims[r]

\* Every channel goes on as it was or is idle, that of instance i is.
Quieter ==
    /\ streams' \in [DmaChannels -> StreamRow]
    /\ \A d \in DmaChannels : streams'[d] = streams[d] \/ streams'[d].busy = FALSE

AbortedOf(i) ==
    Quieter /\ \A d \in DmaChannels : d = pwms[i].dma => streams'[d].busy = FALSE

\* The abort leaves the channel of instance i idle and the others as they were.
LEMMA AbortEffect ==
    ASSUME TypeParts, NEW i \in InUse, streams' = Aborted(pwms[i].dma)
    PROVE  AbortedOf(i)
<1>1. streams \in [DmaChannels -> StreamRow] /\ pwms[i].dma \in DmaChannels \union {None}
  BY DEF TypeParts, Row, InUse
<1>2. Idle \in StreamRow /\ Idle.busy = FALSE
  BY DEF Idle, StreamRow
<1>3. CASE pwms[i].dma = None
  BY <1>1, <1>3 DEF Aborted, AbortedOf, Quieter
<1>4. CASE pwms[i].dma # None
  <2>1. streams' = [streams EXCEPT ![pwms[i].dma] = Idle]
    BY <1>4 DEF Aborted
  <2> QED
    BY <1>1, <1>2, <1>4, <2>1 DEF AbortedOf, Quieter
<1> QED
  BY <1>3, <1>4

\* close() on either chip: on STM32 there is nothing to hand back.
LEMMA CloseEffect ==
    ASSUME TypeParts, RowsInv, NEW i \in Pwms, Close(i)
    PROVE  /\ i \in InUse /\ ClosedAs(i) /\ AbortedOf(i)
           /\ rest' = rest \ {i} /\ UNCHANGED <<level, drives, returned>>
           /\ blocks' = blocks \/ blocks' = [blocks EXCEPT ![PinBlock(i)].on = FALSE]
<1>0. i \in InUse /\ rest' = rest \ {i} /\ UNCHANGED <<level, drives, returned>>
  BY DEF Close
<1>1. pwms[i] \in Row /\ pwms \in [Pwms -> Row] /\ claims \in [Resources -> {"free", "pwm", "other"}]
  BY DEF TypeParts
<1>2. CASE platform = "rp2" /\ Rp2Close(i)
  <2> DEFINE r == [pwms[i] EXCEPT !.inUse = FALSE, !.dma = None, !.timer = None]
  <2>1. r \in Row /\ r.inUse = FALSE /\ r.dma = None /\ r.timer = None
    BY <1>1 DEF Row
  <2>2. pwms' = [pwms EXCEPT ![i] = r]
    BY <1>2 DEF Rp2Close
  <2>3. claims' = [q \in DOMAIN claims |->
                     IF q \in {pwms[i].dma, pwms[i].timer} THEN "free" ELSE claims[q]]
    BY <1>2 DEF Rp2Close
  <2>4. /\ claims' \in [Resources -> {"free", "pwm", "other"}]
        /\ \A q \in Resources :
             claims'[q] = IF q = pwms[i].dma \/ q = pwms[i].timer THEN "free" ELSE claims[q]
    BY <1>1, <2>3
  <2>5. AbortedOf(i)
    BY <1>0, <1>2, AbortEffect DEF Rp2Close
  <2> HIDE DEF r
  <2>6. ClosedAs(i)
    BY <1>1, <2>1, <2>2, <2>4, RowChanged DEF ClosedAs
  <2> QED
    BY <1>0, <1>2, <2>5, <2>6 DEF Rp2Close
<1>3. CASE platform # "rp2" /\ StmClose(i)
  <2> DEFINE r == [pwms[i] EXCEPT !.inUse = FALSE]
  <2>0. pwms[i].dma = None /\ pwms[i].timer = None
    BY <1>3 DEF RowsInv
  <2>1. r \in Row /\ r.inUse = FALSE /\ r.dma = None /\ r.timer = None
    BY <1>1, <2>0 DEF Row
  <2>2. pwms' = [pwms EXCEPT ![i] = r] /\ claims' = claims /\ streams' = streams
    BY <1>3 DEF StmClose
  <2>3. \A q \in Resources : q # None
    BY DEF Resources
  <2>4. AbortedOf(i)
    BY <2>0, <2>2, <2>3 DEF AbortedOf, Quieter, TypeParts, Resources
  <2> HIDE DEF r
  <2>5. ClosedAs(i)
    BY <1>1, <2>0, <2>1, <2>2, <2>3, RowChanged DEF ClosedAs
  <2> QED
    BY <1>0, <1>3, <2>4, <2>5 DEF StmClose, StmSetEnabled
<1> QED
  BY <1>2, <1>3 DEF Close

\* A stream started: with a channel and a timer the instance had or that were free, or
\* with a channel alone.
StartedAs(i, d, t) ==
    /\ d \in DmaChannels /\ streams[d].busy = FALSE
    /\ pwms[i].dma = d \/ (pwms[i].dma = None /\ claims[d] = "free")
    /\ IF t = None THEN pwms[i].timer = None
       ELSE /\ t \in PacingTimers
            /\ pwms[i].timer = t \/ (pwms[i].timer = None /\ claims[t] = "free")
    /\ InUse' = InUse
    /\ pwms' \in [Pwms -> Row] /\ \A j \in Pwms \ {i} : pwms'[j] = pwms[j]
    /\ pwms'[i].pin = pwms[i].pin /\ pwms'[i].dma = d /\ pwms'[i].timer = t
    /\ claims' \in [Resources -> {"free", "pwm", "other"}]
    /\ \A r \in Resources : claims'[r] = IF r = d \/ r = t THEN "pwm" ELSE claims[r]
    /\ streams' \in [DmaChannels -> StreamRow]
    /\ \A c \in DmaChannels :
        streams'[c] = IF c = d /\ t # None THEN [busy |-> TRUE, pin |-> pwms[i].pin, timer |-> t]
                      ELSE streams[c]

\* stream_start() succeeds, or fails for want of a timer with the channel kept.
LEMMA StartEffect ==
    ASSUME TypeParts, NEW i \in Pwms, StreamStart(i)
    PROVE  /\ i \in InUse /\ platform = "rp2"
           /\ \E d, t : StartedAs(i, d, t)
           /\ Rp2Configured(i, DacWrap, DacDivider)
           /\ returned' = [returned EXCEPT ![PinBlock(i)] = 0]
<1>0. i \in InUse /\ platform = "rp2" /\ returned' = [returned EXCEPT ![PinBlock(i)] = 0]
  BY DEF StreamStart
<1>1. /\ pwms[i] \in Row /\ pwms[i].inUse
      /\ pwms \in [Pwms -> Row] /\ claims \in [Resources -> {"free", "pwm", "other"}]
      /\ streams \in [DmaChannels -> StreamRow]
  BY <1>0 DEF TypeParts, InUse
<1>2. PICK d \in Candidates(DmaChannels, pwms[i].dma) :
        /\ ~streams[d].busy
        /\ Rp2Configured(i, DacWrap, DacDivider)
        /\ \/ /\ Candidates(PacingTimers, pwms[i].timer) = {}
              /\ pwms' = [pwms EXCEPT ![i].dma = d]
              /\ claims' = [claims EXCEPT ![d] = "pwm"]
              /\ UNCHANGED streams
           \/ \E t \in Candidates(PacingTimers, pwms[i].timer) :
                /\ pwms' = [pwms EXCEPT ![i].dma = d, ![i].timer = t]
                /\ claims' = [claims EXCEPT ![d] = "pwm", ![t] = "pwm"]
                /\ streams' = [streams EXCEPT ![d] =
                                 [busy |-> TRUE, pin |-> pwms[i].pin, timer |-> t]]
  BY DEF StreamStart
<1>3. d \in DmaChannels /\ (pwms[i].dma = d \/ (pwms[i].dma = None /\ claims[d] = "free"))
  BY <1>1, <1>2 DEF Candidates, Row
<1>4. streams[d].busy = FALSE
  <2>1. streams[d].busy \in BOOLEAN
    BY <1>1, <1>3 DEF StreamRow
  <2> QED
    BY <1>2, <2>1, Zenon
<1>5. CASE /\ Candidates(PacingTimers, pwms[i].timer) = {}
           /\ pwms' = [pwms EXCEPT ![i].dma = d]
           /\ claims' = [claims EXCEPT ![d] = "pwm"]
           /\ UNCHANGED streams
  <2> DEFINE r == [pwms[i] EXCEPT !.dma = d]
  <2>1. pwms[i].timer = None
    BY <1>5 DEF Candidates
  <2>2. /\ r \in Row /\ r.inUse = pwms[i].inUse /\ r.pin = pwms[i].pin /\ r.dma = d /\ r.timer = None
    BY <1>1, <1>3, <2>1 DEF Row
  <2>3. r.inUse
    BY <1>1, <2>2, Zenon
  <2>4. pwms' = [pwms EXCEPT ![i] = r]
    BY <1>5
  <2> HIDE DEF r
  <2>5. /\ pwms' \in [Pwms -> Row] /\ pwms'[i] = r /\ \A j \in Pwms \ {i} : pwms'[j] = pwms[j]
        /\ InUse' = InUse
    <3>1. /\ pwms' \in [Pwms -> Row] /\ pwms'[i] = r /\ \A j \in Pwms \ {i} : pwms'[j] = pwms[j]
          /\ InUse' = IF r.inUse THEN InUse \union {i} ELSE InUse \ {i}
      BY <1>1, <2>2, <2>4, RowChanged
    <3> QED
      BY <1>0, <2>3, <3>1
  <2>6. /\ claims' \in [Resources -> {"free", "pwm", "other"}]
        /\ \A q \in Resources : claims'[q] = IF q = d \/ q = None THEN "pwm" ELSE claims[q]
    BY <1>1, <1>3, <1>5 DEF Resources
  <2>7. StartedAs(i, d, None)
    BY <1>1, <1>3, <1>4, <1>5, <2>1, <2>2, <2>5, <2>6 DEF StartedAs
  <2> QED
    BY <1>0, <1>2, <2>7
<1>6. CASE \E t \in Candidates(PacingTimers, pwms[i].timer) :
                /\ pwms' = [pwms EXCEPT ![i].dma = d, ![i].timer = t]
                /\ claims' = [claims EXCEPT ![d] = "pwm", ![t] = "pwm"]
                /\ streams' = [streams EXCEPT ![d] =
                                 [busy |-> TRUE, pin |-> pwms[i].pin, timer |-> t]]
  <2>0. PICK t \in Candidates(PacingTimers, pwms[i].timer) :
                /\ pwms' = [pwms EXCEPT ![i].dma = d, ![i].timer = t]
                /\ claims' = [claims EXCEPT ![d] = "pwm", ![t] = "pwm"]
                /\ streams' = [streams EXCEPT ![d] =
                                 [busy |-> TRUE, pin |-> pwms[i].pin, timer |-> t]]
    BY <1>6
  <2> DEFINE r == [pwms[i] EXCEPT !.dma = d, !.timer = t]
             run == [busy |-> TRUE, pin |-> pwms[i].pin, timer |-> t]
  <2>1. t \in PacingTimers /\ t # None /\ (pwms[i].timer = t \/ (pwms[i].timer = None /\ claims[t] = "free"))
    BY <1>1, <2>0 DEF Candidates, Row
  <2>2. /\ r \in Row /\ r.inUse = pwms[i].inUse /\ r.pin = pwms[i].pin /\ r.dma = d /\ r.timer = t
    BY <1>1, <1>3, <2>1 DEF Row
  <2>3. r.inUse
    BY <1>1, <2>2, Zenon
  <2>4. pwms' = [pwms EXCEPT ![i] = r]
    BY <1>1, <2>0
  <2> HIDE DEF r
  <2>5. /\ pwms' \in [Pwms -> Row] /\ pwms'[i] = r /\ \A j \in Pwms \ {i} : pwms'[j] = pwms[j]
        /\ InUse' = InUse
    <3>1. /\ pwms' \in [Pwms -> Row] /\ pwms'[i] = r /\ \A j \in Pwms \ {i} : pwms'[j] = pwms[j]
          /\ InUse' = IF r.inUse THEN InUse \union {i} ELSE InUse \ {i}
      BY <1>1, <2>2, <2>4, RowChanged
    <3> QED
      BY <1>0, <2>3, <3>1
  <2>6. /\ claims' \in [Resources -> {"free", "pwm", "other"}]
        /\ \A q \in Resources : claims'[q] = IF q = d \/ q = t THEN "pwm" ELSE claims[q]
    BY <1>1, <1>3, <2>0, <2>1 DEF Resources
  <2>7. /\ streams' \in [DmaChannels -> StreamRow]
        /\ \A c \in DmaChannels : streams'[c] = IF c = d THEN run ELSE streams[c]
    <3>1. run \in StreamRow
      BY <1>1, <2>1 DEF Row, StreamRow
    <3> HIDE DEF run
    <3>2. streams' = [streams EXCEPT ![d] = run]
      BY <2>0 DEF run
    <3> QED
      BY <1>1, <1>3, <3>1, <3>2
  <2>8. StartedAs(i, d, t)
    BY <1>1, <1>3, <1>4, <2>1, <2>2, <2>5, <2>6, <2>7 DEF StartedAs
  <2> QED
    BY <1>0, <1>2, <2>8
<1> QED
  BY <1>2, <1>5, <1>6

\* The pools after open(): nothing changes hands.
LEMMA PoolOpened ==
    ASSUME TypeParts, RowsInv, PoolInv, NEW f, NEW p \in PwmPins, OpenedAs(f, p),
           claims' = claims, streams' = streams, platform' = platform
    PROVE  RowsInv' /\ PoolInv'
<1>1. RowsInv'
  <2>1. InUse \subseteq Pwms /\ InUse' = InUse \union {f}
    BY DEF InUse, OpenedAs
  <2>2. /\ pwms'[f].pin = p /\ pwms'[f].dma = None /\ pwms'[f].timer = None
        /\ \A j \in Pwms \ {f} : pwms'[j] = pwms[j]
    BY DEF OpenedAs
  <2> QED
    BY <2>1, <2>2 DEF RowsInv
<1>2. /\ \A d \in DmaChannels : d # None
      /\ \A t \in PacingTimers : t # None
      /\ InUse \subseteq Pwms
  BY DEF InUse
<1>3. \A d \in DmaChannels : claims'[d] = "pwm" <=> \E j \in InUse' : pwms'[j].dma = d
  BY <1>2 DEF PoolInv, OpenedAs
<1>4. \A t \in PacingTimers : claims'[t] = "pwm" <=> \E j \in InUse' : pwms'[j].timer = t
  BY <1>2 DEF PoolInv, OpenedAs
<1>5. \A i \in InUse' : \A j \in InUse' \ {i} :
        /\ pwms'[i].dma # None => pwms'[j].dma # pwms'[i].dma
        /\ pwms'[i].timer # None => pwms'[j].timer # pwms'[i].timer
  BY <1>2 DEF PoolInv, OpenedAs
<1>6. \A d \in DmaChannels : streams'[d].busy =>
        \E i \in InUse' : /\ d = pwms'[i].dma
                          /\ streams'[d].pin = pwms'[i].pin /\ streams'[d].timer = pwms'[i].timer
  BY <1>2 DEF PoolInv, OpenedAs
<1> QED
  BY <1>1, <1>3, <1>4, <1>5, <1>6 DEF PoolInv

\* The pools after a call that claims nothing and starts nothing.
LEMMA PoolSame ==
    ASSUME TypeParts, RowsInv, PoolInv, SameHolders, claims' = claims, Quieter, platform' = platform
    PROVE  RowsInv' /\ PoolInv'
<1>0. InUse \subseteq Pwms
  BY DEF InUse
<1>1. RowsInv'
  BY <1>0 DEF RowsInv, SameHolders
<1>2. \A d \in DmaChannels : streams'[d].busy =>
        \E i \in InUse' : /\ d = pwms'[i].dma
                          /\ streams'[d].pin = pwms'[i].pin /\ streams'[d].timer = pwms'[i].timer
  BY <1>0 DEF PoolInv, SameHolders, Quieter
<1> QED
  BY <1>0, <1>1, <1>2 DEF PoolInv, SameHolders

\* Another driver takes only what is free.
LEMMA PoolClaimed ==
    ASSUME TypeParts, RowsInv, PoolInv, pwms' = pwms, streams' = streams, platform' = platform,
           NEW t \in PacingTimers, claims[t] = "free", claims' = [claims EXCEPT ![t] = "other"]
    PROVE  RowsInv' /\ PoolInv'
<1>1. InUse' = InUse
  BY DEF InUse
<1>2. \A r \in Resources : claims'[r] = "pwm" <=> claims[r] = "pwm"
  BY DEF TypeParts, Resources
<1>3. \A d \in DmaChannels : d \in Resources
  BY DEF Resources
<1>4. \A q \in PacingTimers : q \in Resources
  BY DEF Resources
<1> QED
  BY <1>1, <1>2, <1>3, <1>4 DEF RowsInv, PoolInv

\* What a closed instance held is free, and nobody else held it.
LEMMA PoolClosed ==
    ASSUME TypeParts, RowsInv, PoolInv, NEW i \in InUse, ClosedAs(i), AbortedOf(i),
           platform' = platform
    PROVE  RowsInv' /\ PoolInv'
<1>0. /\ InUse \subseteq Pwms /\ InUse' = InUse \ {i} /\ \A j \in InUse' : pwms'[j] = pwms[j]
      /\ \A d \in DmaChannels : d \in Resources /\ d # None /\ d \notin PacingTimers
      /\ \A t \in PacingTimers : t \in Resources /\ t # None /\ t \notin DmaChannels
      /\ \A j \in Pwms : /\ pwms[j].dma \in DmaChannels \union {None}
                         /\ pwms[j].timer \in PacingTimers \union {None}
  BY DEF InUse, ClosedAs, Resources, TypeParts, Row
<1>1. RowsInv'
  BY <1>0 DEF RowsInv, ClosedAs
<1>2. ASSUME NEW d \in DmaChannels
      PROVE  claims'[d] = "pwm" <=> \E j \in InUse' : pwms'[j].dma = d
  <2>1. claims'[d] = IF d = pwms[i].dma THEN "free" ELSE claims[d]
    BY <1>0 DEF ClosedAs
  <2>2. claims[d] = "pwm" <=> \E j \in InUse : pwms[j].dma = d
    BY DEF PoolInv
  <2>3. \A j \in InUse \ {i} : pwms[i].dma # None => pwms[j].dma # pwms[i].dma
    BY DEF PoolInv
  <2> QED
    BY <1>0, <2>1, <2>2, <2>3
<1>3. ASSUME NEW t \in PacingTimers
      PROVE  claims'[t] = "pwm" <=> \E j \in InUse' : pwms'[j].timer = t
  <2>1. claims'[t] = IF t = pwms[i].timer THEN "free" ELSE claims[t]
    BY <1>0 DEF ClosedAs
  <2>2. claims[t] = "pwm" <=> \E j \in InUse : pwms[j].timer = t
    BY DEF PoolInv
  <2>3. \A j \in InUse \ {i} : pwms[i].timer # None => pwms[j].timer # pwms[i].timer
    BY DEF PoolInv
  <2> QED
    BY <1>0, <2>1, <2>2, <2>3
<1>4. \A k \in InUse' : \A j \in InUse' \ {k} :
        /\ pwms'[k].dma # None => pwms'[j].dma # pwms'[k].dma
        /\ pwms'[k].timer # None => pwms'[j].timer # pwms'[k].timer
  BY <1>0 DEF PoolInv
<1>5. ASSUME NEW d \in DmaChannels, streams'[d].busy
      PROVE  \E j \in InUse' : /\ d = pwms'[j].dma
                               /\ streams'[d].pin = pwms'[j].pin /\ streams'[d].timer = pwms'[j].timer
  <2>1. streams'[d] = streams[d] /\ d # pwms[i].dma
    BY <1>5 DEF AbortedOf, Quieter
  <2>2. PICK j \in InUse : /\ d = pwms[j].dma
                           /\ streams[d].pin = pwms[j].pin /\ streams[d].timer = pwms[j].timer
    BY <1>5, <2>1 DEF PoolInv
  <2> QED
    BY <1>0, <2>1, <2>2
<1> QED
  BY <1>1, <1>2, <1>3, <1>4, <1>5 DEF PoolInv

\* What a stream claims was its own or free.
LEMMA PoolStarted ==
    ASSUME TypeParts, RowsInv, PoolInv, NEW i \in InUse, platform = "rp2", platform' = platform,
           NEW d, NEW t, StartedAs(i, d, t)
    PROVE  RowsInv' /\ PoolInv'
<1>0. /\ InUse \subseteq Pwms /\ InUse' = InUse /\ \A j \in Pwms \ {i} : pwms'[j] = pwms[j]
      /\ pwms'[i].pin = pwms[i].pin /\ pwms'[i].dma = d /\ pwms'[i].timer = t
      /\ \A c \in DmaChannels : c \in Resources /\ c # None /\ c \notin PacingTimers
      /\ \A c \in PacingTimers : c \in Resources /\ c # None /\ c \notin DmaChannels
      /\ \A r \in Resources : claims'[r] = IF r = d \/ r = t THEN "pwm" ELSE claims[r]
      /\ d \in DmaChannels /\ t \in PacingTimers \union {None}
  BY DEF InUse, StartedAs, Resources
<1>1. RowsInv'
  BY <1>0 DEF RowsInv
<1>2. /\ \A j \in InUse \ {i} : pwms[j].dma # d
      /\ pwms[i].dma \in {d, None}
  <2>1. CASE pwms[i].dma = d
    BY <1>0, <2>1 DEF PoolInv
  <2>2. CASE pwms[i].dma = None /\ claims[d] = "free"
    BY <1>0, <2>2 DEF PoolInv
  <2> QED
    BY <2>1, <2>2 DEF StartedAs
<1>3. /\ t # None => \A j \in InUse \ {i} : pwms[j].timer # t
      /\ pwms[i].timer \in {t, None}
  <2>1. CASE pwms[i].timer = t
    BY <1>0, <2>1 DEF PoolInv
  <2>2. CASE pwms[i].timer = None /\ t # None /\ claims[t] = "free"
    BY <1>0, <2>2 DEF PoolInv
  <2> QED
    BY <2>1, <2>2 DEF StartedAs
<1>4. ASSUME NEW c \in DmaChannels
      PROVE  claims'[c] = "pwm" <=> \E j \in InUse' : pwms'[j].dma = c
  <2>1. claims[c] = "pwm" <=> \E j \in InUse : pwms[j].dma = c
    BY DEF PoolInv
  <2> QED
    BY <1>0, <1>2, <2>1
<1>5. ASSUME NEW c \in PacingTimers
      PROVE  claims'[c] = "pwm" <=> \E j \in InUse' : pwms'[j].timer = c
  <2>1. claims[c] = "pwm" <=> \E j \in InUse : pwms[j].timer = c
    BY DEF PoolInv
  <2> QED
    BY <1>0, <1>3, <2>1
<1>6. ASSUME NEW k \in InUse', NEW j \in InUse' \ {k}
      PROVE  /\ pwms'[k].dma # None => pwms'[j].dma # pwms'[k].dma
             /\ pwms'[k].timer # None => pwms'[j].timer # pwms'[k].timer
  BY <1>0, <1>2, <1>3 DEF PoolInv
<1>7. ASSUME NEW c \in DmaChannels, streams'[c].busy
      PROVE  \E j \in InUse' : /\ c = pwms'[j].dma
                               /\ streams'[c].pin = pwms'[j].pin /\ streams'[c].timer = pwms'[j].timer
  <2>1. CASE c = d /\ t # None
    <3>1. streams'[c] = [busy |-> TRUE, pin |-> pwms[i].pin, timer |-> t]
      BY <2>1 DEF StartedAs
    <3> QED
      BY <1>0, <2>1, <3>1
  <2>2. CASE ~(c = d /\ t # None)
    <3>1. streams'[c] = streams[c]
      BY <2>2 DEF StartedAs
    <3>2. c # d
      BY <1>7, <3>1 DEF StartedAs
    <3>3. PICK j \in InUse : /\ c = pwms[j].dma
                             /\ streams[c].pin = pwms[j].pin /\ streams[c].timer = pwms[j].timer
      BY <1>7, <3>1 DEF PoolInv
    <3>4. j # i
      BY <1>0, <1>2, <3>2, <3>3
    <3> QED
      BY <1>0, <3>1, <3>3, <3>4
  <2> QED
    BY <2>1, <2>2
<1> QED
  BY <1>1, <1>4, <1>5, <1>6, <1>7 DEF PoolInv

-----------------------------------------------------------------------------
(* Outputs at rest. *)

RestInv ==
    /\ rest \subseteq InUse /\ RestIsQuiet /\ StoppedStreamsRest
    /\ platform # "rp2" => rest = {}

LevelSet(i, v) ==
    /\ level' \in [Blocks -> [Channels -> Nat]]
    /\ \A b \in Blocks : \A c \in Channels :
        level'[b][c] = IF b = PinBlock(i) /\ c = PinChannel(i) THEN v ELSE level[b][c]

\* An instance in use has a block and a channel.
LEMMA PinPlaces ==
    ASSUME RowsInv, NEW i \in InUse
    PROVE  PinBlock(i) \in Blocks /\ PinChannel(i) \in Channels /\ i \in Pwms
  BY DEF RowsInv, PinBlock, PinChannel, Blocks, Channels, InUse

\* One compare register changes.
LEMMA SetLevelEffect ==
    ASSUME TypeParts, RowsInv, NEW i \in InUse, NEW v \in Nat, level' = SetLevel(i, v)
    PROVE  LevelSet(i, v)
<1>1. PinBlock(i) \in Blocks /\ PinChannel(i) \in Channels
  BY PinPlaces
<1> QED
  BY <1>1 DEF SetLevel, LevelSet, TypeParts

\* What a step does to instances at rest: they keep their pins, their levels and the
\* silence of their channels.
LEMMA RestKept ==
    ASSUME RowsInv, RestInv, platform' = platform, rest' \subseteq rest,
           rest' \subseteq InUse',
           \A k \in rest' : /\ pwms'[k].pin = pwms[k].pin
                            /\ level'[PinBlock(k)][PinChannel(k)] = level[PinBlock(k)][PinChannel(k)],
           \A k \in rest' : \A d \in DmaChannels :
             \/ streams'[d] = streams[d]
             \/ streams'[d].busy = FALSE
             \/ ~SameChannel(streams'[d].pin, pwms[k].pin)
    PROVE  RestInv'
<1>1. RestIsQuiet'
  <2> SUFFICES ASSUME NEW k \in rest', NEW d \in DmaChannels, streams'[d].busy
               PROVE  ~SameChannel(streams'[d].pin, pwms'[k].pin)
    BY DEF RestIsQuiet
  <2>1. k \in rest /\ pwms'[k].pin = pwms[k].pin
    OBVIOUS
  <2> QED
    BY <2>1 DEF RestInv, RestIsQuiet
<1>2. StoppedStreamsRest'
  BY DEF RestInv, StoppedStreamsRest, PinBlock, PinChannel
<1> QED
  BY <1>1, <1>2 DEF RestInv

\* open(): the new instance is not at rest.
LEMMA RestOpened ==
    ASSUME RowsInv, RestInv, NEW f, NEW p, OpenedAs(f, p), rest' = rest \ {f},
           level' = level, streams' = streams, platform' = platform
    PROVE  RestInv'
<1>1. rest' \subseteq InUse' /\ \A k \in rest' : pwms'[k] = pwms[k]
  BY DEF RestInv, OpenedAs, InUse
<1> QED
  BY <1>1, RestKept

\* close(): a closed instance is no longer at rest.
LEMMA RestClosed ==
    ASSUME RowsInv, RestInv, NEW i \in InUse, ClosedAs(i), AbortedOf(i), rest' = rest \ {i},
           level' = level, platform' = platform
    PROVE  RestInv'
<1>1. rest' \subseteq InUse' /\ \A k \in rest' : pwms'[k] = pwms[k]
  BY DEF RestInv, ClosedAs, InUse
<1>2. \A d \in DmaChannels : streams'[d] = streams[d] \/ streams'[d].busy = FALSE
  BY DEF AbortedOf, Quieter
<1> QED
  BY <1>1, <1>2, RestKept

\* A call that writes no compare register and starts nothing.
LEMMA RestSame ==
    ASSUME TypeParts, RowsInv, RestInv, SameHolders, rest' = rest, level' = level,
           streams' = streams, platform' = platform
    PROVE  RestInv'
<1>1. rest' \subseteq InUse' /\ \A k \in rest' : pwms'[k].pin = pwms[k].pin
  BY DEF RestInv, SameHolders, InUse
<1> QED
  BY <1>1, RestKept

\* A call that writes the compare registers of a block wakes every instance on it.
LEMMA RestWoken ==
    ASSUME TypeParts, RowsInv, RestInv, NEW i \in InUse, platform' = platform, InUse' = InUse,
           \A j \in Pwms : pwms'[j].pin = pwms[j].pin,
           rest' = rest \ SharesBlock(i),
           \A b \in Blocks : b # PinBlock(i) => level'[b] = level[b],
           \A d \in DmaChannels :
             streams'[d] = streams[d] \/ streams'[d].pin = pwms[i].pin
    PROVE  RestInv'
<1>1. ASSUME NEW k \in rest'
      PROVE  /\ k \in rest /\ k \in InUse /\ k \in Pwms
             /\ PinBlock(k) \in Blocks /\ PinBlock(k) # PinBlock(i)
  BY PinPlaces DEF RestInv, SharesBlock
<1>2. \A k \in rest' : ~SameChannel(pwms[i].pin, pwms[k].pin)
  BY <1>1 DEF SameChannel, PinBlock
<1>3. \A k \in rest' : /\ pwms'[k].pin = pwms[k].pin
                       /\ level'[PinBlock(k)][PinChannel(k)] = level[PinBlock(k)][PinChannel(k)]
  BY <1>1
<1>4. \A k \in rest' : \A d \in DmaChannels :
        streams'[d] = streams[d] \/ ~SameChannel(streams'[d].pin, pwms[k].pin)
  BY <1>2
<1>5. rest' \subseteq rest /\ rest' \subseteq InUse'
  BY <1>1
<1> QED
  BY <1>3, <1>4, <1>5, RestKept

\* A stop silences the channel, aborts the stream, and nobody else streams there.
LEMMA RestStopped ==
    ASSUME TypeParts, RowsInv, PoolInv, RestInv, NEW i \in InUse, platform = "rp2",
           platform' = platform, pwms' = pwms, AbortedOf(i), LevelSet(i, Silence),
           rest' = IF \A j \in SharesBlock(i) \ {i} : PinChannel(j) # PinChannel(i)
                   THEN rest \union {i} ELSE rest
    PROVE  RestInv'
<1>1. InUse' = InUse
  BY DEF InUse
<1>2. \A k \in rest' : k \in InUse /\ (k \in rest \/ k = i)
  BY DEF RestInv
<1>3. StoppedStreamsRest'
  <2> SUFFICES ASSUME NEW k \in rest'
               PROVE  level'[PinBlock(k)][PinChannel(k)] = Silence
    BY DEF StoppedStreamsRest, PinBlock, PinChannel
  <2>1. k \in InUse /\ (k \in rest \/ k = i)
    BY <1>2
  <2>2. PinBlock(k) \in Blocks /\ PinChannel(k) \in Channels
    BY <2>1, PinPlaces
  <2> QED
    BY <2>1, <2>2 DEF LevelSet, RestInv, StoppedStreamsRest
<1>4. RestIsQuiet'
  <2> SUFFICES ASSUME NEW k \in rest', NEW d \in DmaChannels, streams'[d].busy
               PROVE  ~SameChannel(streams'[d].pin, pwms[k].pin)
    BY DEF RestIsQuiet
  <2>1. streams'[d] = streams[d] /\ d # pwms[i].dma
    BY DEF AbortedOf, Quieter
  <2>2. CASE k \in rest
    BY <2>1, <2>2 DEF RestInv, RestIsQuiet
  <2>3. CASE k = i /\ k \notin rest
    <3>1. \A j \in SharesBlock(i) \ {i} : PinChannel(j) # PinChannel(i)
      BY <2>3
    <3>2. PICK j \in InUse : d = pwms[j].dma /\ streams[d].pin = pwms[j].pin
      BY <2>1 DEF PoolInv
    <3>3. j # i
      BY <2>1, <3>2
    <3> QED
      BY <2>1, <2>3, <3>1, <3>2, <3>3 DEF SharesBlock, SameChannel, PinBlock, PinChannel
  <2> QED
    BY <1>2, <2>2, <2>3
<1> QED
  BY <1>1, <1>2, <1>3, <1>4 DEF RestInv

\* A sample goes to a channel nobody at rest is on.
LEMMA RestSampled ==
    ASSUME TypeParts, RowsInv, PoolInv, RestInv, NEW d \in DmaChannels, streams[d].busy,
           platform' = platform, pwms' = pwms, rest' = rest, Quieter,
           level' = [level EXCEPT ![Block[streams[d].pin]][Channel[streams[d].pin]] = DacWrap]
    PROVE  RestInv' /\ level' \in [Blocks -> [Channels -> Nat]]
<1>1. PICK i \in InUse : d = pwms[i].dma /\ streams[d].pin = pwms[i].pin
  BY DEF PoolInv
<1>2. level' = SetLevel(i, DacWrap)
  BY <1>1 DEF SetLevel, PinBlock, PinChannel
<1>3. LevelSet(i, DacWrap)
  BY <1>2, SetLevelEffect DEF DacWrap
<1>4. ASSUME NEW k \in rest
      PROVE  level'[PinBlock(k)][PinChannel(k)] = level[PinBlock(k)][PinChannel(k)]
  <2>1. ~SameChannel(pwms[i].pin, pwms[k].pin)
    BY <1>1 DEF RestInv, RestIsQuiet
  <2>2. k \in InUse /\ PinBlock(k) \in Blocks /\ PinChannel(k) \in Channels
    BY PinPlaces DEF RestInv
  <2> QED
    BY <1>3, <2>1, <2>2 DEF LevelSet, SameChannel, PinBlock, PinChannel
<1>5. rest' \subseteq InUse'
  BY DEF RestInv, InUse
<1>6. \A c \in DmaChannels : streams'[c] = streams[c] \/ streams'[c].busy = FALSE
  BY DEF Quieter
<1>7. RestInv'
  BY <1>4, <1>5, <1>6, RestKept
<1> QED
  BY <1>3, <1>7 DEF LevelSet

-----------------------------------------------------------------------------
(* Frequencies. *)

\* Block b is set to divider div and wrap wrap, and v is what the caller was told of it.
BlockSet(b, wrap, div, v) ==
    /\ blocks' = [blocks EXCEPT ![b] = [wrap |-> wrap, div |-> div, on |-> TRUE]]
    /\ returned' = [returned EXCEPT ![b] = v]
    /\ div \in Nat /\ v \in Nat /\ (v # 0 => Told(v, div, wrap))

FrequencyInv ==
    /\ blocks \in [Blocks -> BlockRow] /\ returned \in [Blocks -> Nat]
    /\ FrequencyAsReturned

\* What is told of a block set anew is true of it, and no other is disturbed.
LEMMA FrequencySet ==
    ASSUME FrequencyInv, NEW b \in Blocks, NEW wrap \in Nat, NEW div, NEW v,
           BlockSet(b, wrap, div, v), UNCHANGED platform
    PROVE  FrequencyInv'
<1> DEFINE r == [wrap |-> wrap, div |-> div, on |-> TRUE]
<1>1. r \in BlockRow /\ r.wrap = wrap /\ r.div = div
  BY DEF BlockRow, BlockSet
<1>2. blocks' = [blocks EXCEPT ![b] = r]
  BY DEF BlockSet
<1> HIDE DEF r
<1>3. /\ blocks' \in [Blocks -> BlockRow] /\ blocks'[b] = r
      /\ \A c \in Blocks \ {b} : blocks'[c] = blocks[c]
  BY <1>1, <1>2 DEF FrequencyInv
<1>4. /\ returned' \in [Blocks -> Nat] /\ returned'[b] = v
      /\ \A c \in Blocks \ {b} : returned'[c] = returned[c]
  BY DEF FrequencyInv, BlockSet
<1>5. FrequencyAsReturned'
  <2> SUFFICES ASSUME NEW c \in Blocks, returned'[c] # 0
               PROVE  Told(returned'[c], blocks'[c].div, blocks'[c].wrap)
    BY DEF FrequencyAsReturned, Told
  <2>1. CASE c = b
    BY <1>1, <1>3, <1>4, <2>1 DEF BlockSet
  <2>2. CASE c # b
    BY <1>3, <1>4, <2>2 DEF FrequencyInv, FrequencyAsReturned, Told
  <2> QED
    BY <2>1, <2>2
<1> QED
  BY <1>3, <1>4, <1>5 DEF FrequencyInv

\* Switching a block on or off leaves its frequency alone.
LEMMA FrequencyKept ==
    ASSUME FrequencyInv, NEW b \in Blocks, NEW enabled \in BOOLEAN, UNCHANGED <<returned, platform>>,
           blocks' = blocks \/ blocks' = [blocks EXCEPT ![b].on = enabled]
    PROVE  FrequencyInv'
<1>1. CASE blocks' = blocks
  BY <1>1 DEF FrequencyInv, FrequencyAsReturned, Told
<1>2. CASE blocks' = [blocks EXCEPT ![b].on = enabled]
  <2> DEFINE r == [blocks[b] EXCEPT !.on = enabled]
  <2>1. r \in BlockRow /\ r.wrap = blocks[b].wrap /\ r.div = blocks[b].div
    BY DEF BlockRow, FrequencyInv
  <2>2. blocks' = [blocks EXCEPT ![b] = r]
    BY <1>2
  <2> HIDE DEF r
  <2>3. /\ blocks' \in [Blocks -> BlockRow] /\ blocks'[b] = r
        /\ \A c \in Blocks \ {b} : blocks'[c] = blocks[c]
    BY <2>1, <2>2 DEF FrequencyInv
  <2>4. \A c \in Blocks : blocks'[c].wrap = blocks[c].wrap /\ blocks'[c].div = blocks[c].div
    BY <2>1, <2>3
  <2> QED
    BY <2>3, <2>4 DEF FrequencyInv, FrequencyAsReturned, Told
<1> QED
  BY <1>1, <1>2

\* Division of naturals.
LEMMA Quotients ==
    ASSUME NEW a \in Nat, NEW b \in Nat \ {0}
    PROVE  a \div b \in Nat
  OBVIOUS

\* Products of positive naturals.
LEMMA Products ==
    ASSUME NEW a \in Nat \ {0}, NEW b \in Nat \ {0}
    PROVE  a * b \in Nat \ {0}
  OBVIOUS

\* A frequency is a natural number.
LEMMA RateIsNat ==
    ASSUME NEW div \in Nat \ {0}, NEW wrap \in Nat
    PROVE  Rate(div, wrap) \in Nat
<1>1. div * (wrap + 1) \in Nat \ {0}
  BY Products
<1> QED
  BY <1>1, Quotients DEF Rate

\* A natural number that fits a times into n is at most the quotient.
LEMMA QuotientIsLargest ==
    ASSUME NEW n \in Nat, NEW a \in Nat \ {0}, NEW q \in Nat, q * a <= n
    PROVE  q <= n \div a
<1> DEFINE k == n \div a
<1>1. k \in Nat /\ n < (k + 1) * a
  OBVIOUS
<1> HIDE DEF k
<1>2. q * a < (k + 1) * a
  BY <1>1
<1>3. q < k + 1
  BY <1>1, <1>2
<1> QED
  BY <1>1, <1>3 DEF k

\* A larger divider gives no larger a frequency.
LEMMA RateFalls ==
    ASSUME NEW small \in Nat \ {0}, NEW large \in Nat \ {0}, small <= large, NEW wrap \in Nat
    PROVE  Rate(large, wrap) <= Rate(small, wrap)
<1> DEFINE s == small * (wrap + 1)
           l == large * (wrap + 1)
           q == PwmSourceHz \div l
<1>1. s \in Nat \ {0} /\ l \in Nat \ {0} /\ s <= l
  OBVIOUS
<1> HIDE DEF s, l
<1>2. q \in Nat /\ q * l <= PwmSourceHz
  BY <1>1
<1> HIDE DEF q
<1>3. q * s <= q * l
  BY <1>1, <1>2
<1>4. q * s \in Nat /\ q * l \in Nat
  BY <1>1, <1>2
<1>5. q * s <= PwmSourceHz
  BY <1>2, <1>3, <1>4
<1> QED
  BY <1>1, <1>2, <1>5, QuotientIsLargest DEF Rate, s, l, q

\* The divider of an RP2 slice is at least 1 and at most MaxDivider.
LEMMA Rp2DividerIs ==
    ASSUME NEW hz \in Nat \ {0}, NEW period \in Nat \ {0}
    PROVE  Rp2Divider(hz, period) \in 1..MaxDivider
<1>1. hz * period \in Nat \ {0}
  BY Products
<1>2. (hz * period) \div 2 \in Nat
  BY <1>1, Quotients
<1>3. (PwmSourceHz + (hz * period) \div 2) \div (hz * period) \in Nat
  BY <1>1, <1>2, Quotients
<1> QED
  BY <1>3 DEF Rp2Divider, Clamp

\* The registers of a block: the divider is at least 1, its levels are cleared.
LEMMA Rp2ConfiguredEffect ==
    ASSUME TypeParts, RowsInv, NEW i \in InUse, NEW wrap \in Nat, NEW clkdiv \in Nat,
           Rp2Configured(i, wrap, clkdiv)
    PROVE  /\ level' \in [Blocks -> [Channels -> Nat]]
           /\ \A b \in Blocks : b # PinBlock(i) => level'[b] = level[b]
           /\ drives' \in [PwmPins -> {"block", "gpio"}]
           /\ rest' = rest \ SharesBlock(i)
           /\ blocks' = [blocks EXCEPT ![PinBlock(i)] =
                           [wrap |-> wrap, div |-> IF clkdiv < 1 THEN 1 ELSE clkdiv, on |-> TRUE]]
<1>1. PinBlock(i) \in Blocks
  BY PinPlaces
<1> QED
  BY <1>1 DEF Rp2Configured, TypeParts

\* The same on STM32, where only the own level is cleared.
LEMMA StmConfigureEffect ==
    ASSUME TypeParts, RowsInv, NEW i \in InUse, NEW wrap \in Nat, NEW clkdiv \in Nat,
           StmConfigure(i, wrap, clkdiv)
    PROVE  /\ level' \in [Blocks -> [Channels -> Nat]]
           /\ drives' \in [PwmPins -> {"block", "gpio"}]
           /\ SameHolders
           /\ UNCHANGED <<claims, streams, rest>>
           /\ blocks' = [blocks EXCEPT ![PinBlock(i)] =
                           [wrap |-> wrap, div |-> IF clkdiv > 0 THEN clkdiv ELSE 1, on |-> TRUE]]
<1>1. LevelSet(i, 0)
  BY SetLevelEffect DEF StmConfigure
<1>2. SameHolders
  BY WrapKept DEF StmConfigure
<1> QED
  BY <1>1, <1>2 DEF StmConfigure, TypeParts, LevelSet

-----------------------------------------------------------------------------
(* The inductive invariant, and each action. *)

PwmInv == TypeParts /\ RowsInv /\ PoolInv /\ RestInv /\ FrequencyAsReturned

\* The part of the invariant about frequencies.
LEMMA InvFrequency == PwmInv => FrequencyInv
  BY DEF PwmInv, TypeParts, FrequencyInv

\* The invariant holds before the first call.
LEMMA InitInv ==
    ASSUME PwmInit
    PROVE  PwmInv
<1>1. InUse = {}
  BY DEF PwmInit, InUse
<1>2. TypeParts
  BY <1>1 DEF PwmInit, TypeParts, Row, BlockRow, StreamRow, Idle, Resources
<1>3. RowsInv /\ RestInv /\ FrequencyAsReturned
  BY <1>1 DEF PwmInit, RowsInv, RestInv, RestIsQuiet, StoppedStreamsRest, FrequencyAsReturned
<1>4. PoolInv
  BY <1>1 DEF PwmInit, PoolInv, Idle
<1> QED
  BY <1>2, <1>3, <1>4 DEF PwmInv

\* What is left to show of a step.
LEMMA AssembleInv ==
    ASSUME pwms' \in [Pwms -> Row], level' \in [Blocks -> [Channels -> Nat]],
           drives' \in [PwmPins -> {"block", "gpio"}],
           claims' \in [Resources -> {"free", "pwm", "other"}],
           streams' \in [DmaChannels -> StreamRow],
           RowsInv', PoolInv', RestInv', FrequencyInv'
    PROVE  PwmInv'
  BY DEF PwmInv, TypeParts, RestInv, FrequencyInv

\* The invariant under open().
LEMMA OpenKeeps ==
    ASSUME PwmInv, NEW p \in PwmPins, Open(p), UNCHANGED platform
    PROVE  PwmInv'
<1> USE DEF PwmInv
<1>1. /\ OpenedAs(FirstFree, p) /\ drives' = [drives EXCEPT ![p] = "block"]
      /\ rest' = rest \ {FirstFree} /\ UNCHANGED <<blocks, level, claims, streams, returned>>
  BY OpenEffect
<1>2. RowsInv' /\ PoolInv'
  BY <1>1, PoolOpened
<1>3. RestInv'
  BY <1>1, RestOpened
<1>4. FrequencyInv'
  BY <1>1 DEF TypeParts, FrequencyInv, FrequencyAsReturned, Told
<1>5. drives' \in [PwmPins -> {"block", "gpio"}] /\ pwms' \in [Pwms -> Row]
  BY <1>1 DEF TypeParts, OpenedAs
<1> HIDE DEF PwmInv
<1>6. TypeParts
  BY DEF PwmInv
<1> QED
  BY <1>1, <1>2, <1>3, <1>4, <1>5, <1>6, AssembleInv DEF TypeParts

\* What both forms of configure() and set_frequency() do on an RP2.
LEMMA Rp2ConfigureKeeps ==
    ASSUME PwmInv, NEW i \in InUse, NEW wrap \in Nat, NEW clkdiv \in Nat, NEW v,
           platform = "rp2", UNCHANGED platform, Rp2Configure(i, wrap, clkdiv),
           BlockSet(PinBlock(i), wrap, IF clkdiv < 1 THEN 1 ELSE clkdiv, v)
    PROVE  PwmInv'
<1>1. TypeParts /\ RowsInv /\ PoolInv /\ RestInv /\ FrequencyInv
  BY InvFrequency DEF PwmInv
<1>2. Rp2Configured(i, wrap, clkdiv) /\ UNCHANGED <<pwms, claims, streams>>
  BY DEF Rp2Configure
<1>3. /\ level' \in [Blocks -> [Channels -> Nat]]
      /\ \A b \in Blocks : b # PinBlock(i) => level'[b] = level[b]
      /\ drives' \in [PwmPins -> {"block", "gpio"}]
      /\ rest' = rest \ SharesBlock(i)
  BY <1>1, <1>2, Rp2ConfiguredEffect
<1>4. SameHolders /\ Quieter /\ InUse' = InUse
  BY <1>1, <1>2, SameHoldersKept DEF Quieter, TypeParts, InUse
<1>5. RowsInv' /\ PoolInv'
  BY <1>1, <1>2, <1>4, PoolSame
<1>6. RestInv'
  BY <1>1, <1>2, <1>3, <1>4, RestWoken
<1>7. PinBlock(i) \in Blocks
  BY <1>1, PinPlaces
<1>8. FrequencyInv'
  BY <1>1, <1>7, FrequencySet
<1> QED
  BY <1>1, <1>2, <1>3, <1>5, <1>6, <1>8, AssembleInv DEF TypeParts

\* The same on STM32.
LEMMA StmConfigureKeeps ==
    ASSUME PwmInv, NEW i \in InUse, NEW wrap \in Nat, NEW clkdiv \in Nat, NEW v,
           platform # "rp2", UNCHANGED platform, StmConfigure(i, wrap, clkdiv),
           BlockSet(PinBlock(i), wrap, IF clkdiv > 0 THEN clkdiv ELSE 1, v)
    PROVE  PwmInv'
<1>1. TypeParts /\ RowsInv /\ PoolInv /\ RestInv /\ FrequencyInv
  BY InvFrequency DEF PwmInv
<1>2. /\ level' \in [Blocks -> [Channels -> Nat]]
      /\ drives' \in [PwmPins -> {"block", "gpio"}]
      /\ SameHolders /\ UNCHANGED <<claims, streams, rest>>
  BY <1>1, StmConfigureEffect
<1>3. Quieter
  BY <1>1, <1>2 DEF Quieter, TypeParts
<1>4. RowsInv' /\ PoolInv'
  BY <1>1, <1>2, <1>3, PoolSame
<1>5. RestInv'
  BY <1>1, <1>2 DEF RestInv, RestIsQuiet, StoppedStreamsRest
<1>6. PinBlock(i) \in Blocks
  BY <1>1, PinPlaces
<1>7. FrequencyInv'
  BY <1>1, <1>6, FrequencySet
<1>8. pwms' \in [Pwms -> Row]
  BY <1>2 DEF SameHolders
<1> QED
  BY <1>1, <1>2, <1>4, <1>5, <1>7, <1>8, AssembleInv DEF TypeParts

\* The invariant under configure().
LEMMA ConfigureKeeps ==
    ASSUME PwmInv, NEW i \in Pwms, Configure(i), UNCHANGED platform
    PROVE  PwmInv'
<1>1. i \in InUse /\ returned' = [returned EXCEPT ![PinBlock(i)] = 0]
  BY DEF Configure
<1>2. PICK wrap \in Wraps, clkdiv \in Dividers :
        \/ platform = "rp2" /\ Rp2Configure(i, wrap, clkdiv)
        \/ platform \in {"h7", "f4"} /\ StmConfigure(i, wrap, clkdiv)
  BY DEF Configure
<1>3. wrap \in Nat /\ clkdiv \in Nat
  OBVIOUS
<1>4. TypeParts /\ RowsInv
  BY DEF PwmInv
<1>5. CASE platform = "rp2" /\ Rp2Configure(i, wrap, clkdiv)
  <2>1. BlockSet(PinBlock(i), wrap, IF clkdiv < 1 THEN 1 ELSE clkdiv, 0)
    BY <1>1, <1>3, <1>4, <1>5, Rp2ConfiguredEffect DEF Rp2Configure, BlockSet
  <2> QED
    BY <1>1, <1>3, <1>5, <2>1, Rp2ConfigureKeeps
<1>6. CASE platform \in {"h7", "f4"} /\ StmConfigure(i, wrap, clkdiv)
  <2>1. BlockSet(PinBlock(i), wrap, IF clkdiv > 0 THEN clkdiv ELSE 1, 0)
    BY <1>1, <1>3, <1>4, <1>6, StmConfigureEffect DEF BlockSet
  <2> QED
    BY <1>1, <1>3, <1>6, <2>1, StmConfigureKeeps
<1> QED
  BY <1>2, <1>5, <1>6

\* The divider set is the one the returned frequency is worked out from, or the largest.
LEMMA SetFrequencyKeeps ==
    ASSUME PwmInv, NEW i \in Pwms, SetFrequency(i), UNCHANGED platform
    PROVE  PwmInv'
<1>1. i \in InUse
  BY DEF SetFrequency
<1>2. PICK hz \in AskedHz, wrap \in Wraps :
        \/ platform = "rp2" /\ Rp2SetFrequency(i, hz, wrap)
        \/ platform \in {"h7", "f4"} /\ StmSetFrequency(i, hz, wrap)
  BY DEF SetFrequency
<1>3. hz \in Nat \ {0} /\ wrap \in Nat /\ wrap + 1 \in Nat \ {0}
  OBVIOUS
<1>4. TypeParts /\ RowsInv
  BY DEF PwmInv
<1>5. CASE platform = "rp2" /\ Rp2SetFrequency(i, hz, wrap)
  <2> DEFINE div == Rp2Divider(hz, wrap + 1)
             v == Rate(div, wrap)
  <2>1. div \in 1..MaxDivider
    BY <1>3, Rp2DividerIs
  <2>2. Rp2Configure(i, wrap, div) /\ returned' = [returned EXCEPT ![PinBlock(i)] = v]
    BY <1>5 DEF Rp2SetFrequency
  <2> HIDE DEF div
  <2>3. div \in Nat \ {0} /\ div \in Nat /\ (IF div < 1 THEN 1 ELSE div) = div
    BY <2>1
  <2>4. v \in Nat
    BY <1>3, <2>3, RateIsNat
  <2>5. blocks' = [blocks EXCEPT ![PinBlock(i)] =
                    [wrap |-> wrap, div |-> IF div < 1 THEN 1 ELSE div, on |-> TRUE]]
    BY <1>1, <1>3, <1>4, <2>2, <2>3, Rp2ConfiguredEffect DEF Rp2Configure
  <2>6. BlockSet(PinBlock(i), wrap, IF div < 1 THEN 1 ELSE div, v)
    BY <1>5, <2>2, <2>3, <2>4, <2>5 DEF BlockSet, Told
  <2> QED
    BY <1>1, <1>3, <1>5, <2>2, <2>3, <2>6, Rp2ConfigureKeeps
<1>6. CASE platform \in {"h7", "f4"} /\ StmSetFrequency(i, hz, wrap)
  <2> DEFINE wanted == PwmSourceHz \div ((wrap + 1) * hz)
             div == StmDivider(hz, wrap + 1)
             set == Clamp(div, 1, MaxDivider)
             v == Rate(div, wrap)
  <2>1. wanted \in Nat
    BY <1>3, Products, Quotients
  <2>2. StmConfigure(i, wrap, set) /\ returned' = [returned EXCEPT ![PinBlock(i)] = v]
    BY <1>6 DEF StmSetFrequency
  <2>3. div \in Nat \ {0}
    BY <2>1 DEF StmDivider, Clamp
  <2> HIDE DEF wanted, div
  <2>4. /\ set \in Nat \ {0} /\ (IF set > 0 THEN set ELSE 1) = set
        /\ set = div \/ (set = MaxDivider /\ set <= div)
    BY <2>3 DEF Clamp
  <2> HIDE DEF set
  <2>5. v \in Nat /\ (set <= div => v <= Rate(set, wrap))
    BY <1>3, <2>3, <2>4, RateIsNat, RateFalls
  <2>6. set = div => v = Rate(set, wrap)
    OBVIOUS
  <2>7. platform # "rp2" /\ Rate(set, wrap) \in Nat
    BY <1>3, <1>6, <2>4, RateIsNat
  <2> HIDE DEF v
  <2>8. Told(v, set, wrap)
    BY <2>4, <2>5, <2>6, <2>7 DEF Told
  <2>9. blocks' = [blocks EXCEPT ![PinBlock(i)] =
                    [wrap |-> wrap, div |-> IF set > 0 THEN set ELSE 1, on |-> TRUE]]
    BY <1>1, <1>3, <1>4, <2>2, <2>4, StmConfigureEffect
  <2>10. BlockSet(PinBlock(i), wrap, IF set > 0 THEN set ELSE 1, v)
    BY <2>2, <2>4, <2>5, <2>9, <2>8 DEF BlockSet
  <2> QED
    BY <1>1, <1>3, <1>6, <2>2, <2>4, <2>10, StmConfigureKeeps
<1> QED
  BY <1>2, <1>5, <1>6

\* The invariant under set_duty().
LEMMA SetDutyKeeps ==
    ASSUME PwmInv, NEW i \in Pwms, SetDuty(i), UNCHANGED platform
    PROVE  PwmInv'
<1>1. TypeParts /\ RowsInv /\ PoolInv /\ RestInv /\ FrequencyInv
  BY InvFrequency DEF PwmInv
<1>2. /\ i \in InUse /\ rest' = rest \ SharesBlock(i)
      /\ UNCHANGED <<pwms, blocks, drives, claims, streams, returned>>
  BY DEF SetDuty
<1>3. PICK duty \in Wraps :
        level' = SetLevel(i, IF platform = "rp2" THEN duty ELSE StmClampedDuty(i, duty))
  BY DEF SetDuty
<1>4. (IF platform = "rp2" THEN duty ELSE StmClampedDuty(i, duty)) \in Nat
  BY <1>1 DEF StmClampedDuty, TypeParts, Row
<1>5. PICK v \in Nat : LevelSet(i, v)
  BY <1>1, <1>2, <1>3, <1>4, SetLevelEffect
<1>6. SameHolders /\ Quieter /\ InUse' = InUse
  BY <1>1, <1>2, SameHoldersKept DEF Quieter, TypeParts, InUse
<1>7. RowsInv' /\ PoolInv'
  BY <1>1, <1>2, <1>6, PoolSame
<1>8. \A b \in Blocks : b # PinBlock(i) => level'[b] = level[b]
  BY <1>1, <1>5 DEF LevelSet, TypeParts
<1>9. RestInv'
  BY <1>1, <1>2, <1>6, <1>8, RestWoken
<1>10. FrequencyInv'
  BY <1>1, <1>2 DEF FrequencyInv, FrequencyAsReturned, Told
<1> QED
  BY <1>1, <1>2, <1>5, <1>7, <1>9, <1>10, AssembleInv DEF TypeParts, LevelSet

\* Neither set_enabled() nor release_pin() touches anything but a block's enable and a
\* pin's function.
LEMMA SwitchKeeps ==
    ASSUME PwmInv, NEW i \in InUse, NEW enabled \in BOOLEAN, UNCHANGED platform,
           blocks' = blocks \/ blocks' = [blocks EXCEPT ![PinBlock(i)].on = enabled],
           drives' = drives \/ drives' = [drives EXCEPT ![pwms[i].pin] = "gpio"],
           UNCHANGED <<pwms, level, claims, streams, rest, returned>>
    PROVE  PwmInv'
<1>1. TypeParts /\ RowsInv /\ PoolInv /\ RestInv /\ FrequencyInv
  BY InvFrequency DEF PwmInv
<1>2. SameHolders /\ Quieter
  BY <1>1, SameHoldersKept DEF Quieter, TypeParts
<1>3. RowsInv' /\ PoolInv'
  BY <1>1, <1>2, PoolSame
<1>4. RestInv'
  BY <1>1, <1>2, RestSame
<1>5. PinBlock(i) \in Blocks
  BY <1>1, PinPlaces
<1>6. FrequencyInv'
  BY <1>1, <1>5, FrequencyKept
<1> QED
  BY <1>1, <1>3, <1>4, <1>6, AssembleInv DEF TypeParts

\* The invariant under set_enabled().
LEMMA SetEnabledKeeps ==
    ASSUME PwmInv, NEW i \in Pwms, SetEnabled(i), UNCHANGED platform
    PROVE  PwmInv'
<1>1. i \in InUse /\ UNCHANGED <<pwms, level, drives, claims, streams, rest, returned>>
  BY DEF SetEnabled
<1>2. PICK enabled \in BOOLEAN : blocks' = [blocks EXCEPT ![PinBlock(i)].on = enabled]
  BY DEF SetEnabled, Rp2SetEnabled, StmSetEnabled
<1> QED
  BY <1>1, <1>2, SwitchKeeps

\* The invariant under release_pin().
LEMMA ReleasePinKeeps ==
    ASSUME PwmInv, NEW i \in Pwms, ReleasePin(i), UNCHANGED platform
    PROVE  PwmInv'
<1>1. i \in InUse /\ UNCHANGED <<pwms, level, claims, streams, rest, returned>>
  BY DEF ReleasePin
<1>2. /\ drives' = [drives EXCEPT ![pwms[i].pin] = "gpio"]
      /\ blocks' = blocks \/ blocks' = [blocks EXCEPT ![PinBlock(i)].on = FALSE]
  BY DEF ReleasePin, Rp2ReleasePin, StmReleasePin
<1> QED
  BY <1>1, <1>2, SwitchKeeps

\* The invariant under stream_start().
LEMMA StreamStartKeeps ==
    ASSUME PwmInv, NEW i \in Pwms, StreamStart(i), UNCHANGED platform
    PROVE  PwmInv'
<1>1. TypeParts /\ RowsInv /\ PoolInv /\ RestInv /\ FrequencyInv
  BY InvFrequency DEF PwmInv
<1>2. /\ i \in InUse /\ platform = "rp2"
      /\ Rp2Configured(i, DacWrap, DacDivider)
      /\ returned' = [returned EXCEPT ![PinBlock(i)] = 0]
  BY <1>1, StartEffect
<1>3. PICK d, t : StartedAs(i, d, t)
  BY <1>1, StartEffect
<1>4. DacWrap \in Nat /\ DacDivider \in Nat /\ (IF DacDivider < 1 THEN 1 ELSE DacDivider) = 1
  BY DEF DacWrap, DacDivider
<1>5. /\ level' \in [Blocks -> [Channels -> Nat]]
      /\ \A b \in Blocks : b # PinBlock(i) => level'[b] = level[b]
      /\ drives' \in [PwmPins -> {"block", "gpio"}]
      /\ rest' = rest \ SharesBlock(i)
      /\ blocks' = [blocks EXCEPT ![PinBlock(i)] = [wrap |-> DacWrap, div |-> 1, on |-> TRUE]]
  BY <1>1, <1>2, <1>4, Rp2ConfiguredEffect
<1>6. RowsInv' /\ PoolInv'
  BY <1>1, <1>2, <1>3, PoolStarted
<1>7. RestInv'
  <2>1. InUse' = InUse /\ \A j \in Pwms : pwms'[j].pin = pwms[j].pin
    BY <1>3 DEF StartedAs
  <2>2. \A c \in DmaChannels : streams'[c] = streams[c] \/ streams'[c].pin = pwms[i].pin
    BY <1>3 DEF StartedAs
  <2> QED
    BY <1>1, <1>2, <1>5, <2>1, <2>2, RestWoken
<1>8. FrequencyInv'
  <2>1. BlockSet(PinBlock(i), DacWrap, 1, 0)
    BY <1>2, <1>5 DEF BlockSet
  <2>2. PinBlock(i) \in Blocks
    BY <1>1, <1>2, PinPlaces
  <2> QED
    BY <1>1, <1>4, <2>1, <2>2, FrequencySet
<1> QED
  BY <1>3, <1>5, <1>6, <1>7, <1>8, AssembleInv DEF StartedAs

\* The invariant under stream_stop().
LEMMA StreamStopKeeps ==
    ASSUME PwmInv, NEW i \in Pwms, StreamStop(i), UNCHANGED platform
    PROVE  PwmInv'
<1>1. TypeParts /\ RowsInv /\ PoolInv /\ RestInv /\ FrequencyInv
  BY InvFrequency DEF PwmInv
<1>2. /\ i \in InUse /\ platform = "rp2" /\ streams' = Aborted(pwms[i].dma)
      /\ level' = SetLevel(i, Silence)
      /\ rest' = IF \A j \in SharesBlock(i) \ {i} : PinChannel(j) # PinChannel(i)
                 THEN rest \union {i} ELSE rest
      /\ UNCHANGED <<pwms, blocks, drives, claims, returned>>
  BY DEF StreamStop
<1>3. AbortedOf(i)
  BY <1>1, <1>2, AbortEffect
<1>4. LevelSet(i, Silence)
  BY <1>1, <1>2, SetLevelEffect DEF Silence
<1>5. SameHolders /\ Quieter
  BY <1>1, <1>2, <1>3, SameHoldersKept DEF AbortedOf
<1>6. RowsInv' /\ PoolInv'
  BY <1>1, <1>2, <1>5, PoolSame
<1>7. RestInv'
  BY <1>1, <1>2, <1>3, <1>4, RestStopped
<1>8. FrequencyInv'
  BY <1>1, <1>2 DEF FrequencyInv, FrequencyAsReturned, Told
<1>9. streams' \in [DmaChannels -> StreamRow] /\ level' \in [Blocks -> [Channels -> Nat]]
  BY <1>4, <1>5 DEF Quieter, LevelSet
<1> QED
  BY <1>1, <1>2, <1>6, <1>7, <1>8, <1>9, AssembleInv DEF TypeParts

\* The invariant under close().
LEMMA CloseKeeps ==
    ASSUME PwmInv, NEW i \in Pwms, Close(i), UNCHANGED platform
    PROVE  PwmInv'
<1>1. TypeParts /\ RowsInv /\ PoolInv /\ RestInv /\ FrequencyInv
  BY InvFrequency DEF PwmInv
<1>2. /\ i \in InUse /\ ClosedAs(i) /\ AbortedOf(i)
      /\ rest' = rest \ {i} /\ UNCHANGED <<level, drives, returned>>
      /\ blocks' = blocks \/ blocks' = [blocks EXCEPT ![PinBlock(i)].on = FALSE]
  BY <1>1, CloseEffect
<1>3. RowsInv' /\ PoolInv'
  BY <1>1, <1>2, PoolClosed
<1>4. RestInv'
  BY <1>1, <1>2, RestClosed
<1>5. PinBlock(i) \in Blocks
  BY <1>1, <1>2, PinPlaces
<1>6. FrequencyInv'
  BY <1>1, <1>2, <1>5, FrequencyKept
<1>7. /\ pwms' \in [Pwms -> Row] /\ claims' \in [Resources -> {"free", "pwm", "other"}]
      /\ streams' \in [DmaChannels -> StreamRow]
  BY <1>2 DEF ClosedAs, AbortedOf, Quieter
<1> QED
  BY <1>1, <1>2, <1>3, <1>4, <1>6, <1>7, AssembleInv DEF TypeParts

\* The invariant under one transfer of the DMA engine.
LEMMA DmaSampleKeeps ==
    ASSUME PwmInv, NEW d \in DmaChannels, DmaSample(d), UNCHANGED platform
    PROVE  PwmInv'
<1>1. TypeParts /\ RowsInv /\ PoolInv /\ RestInv /\ FrequencyInv
  BY InvFrequency DEF PwmInv
<1>2. /\ streams[d].busy
      /\ level' = [level EXCEPT ![Block[streams[d].pin]][Channel[streams[d].pin]] = DacWrap]
      /\ streams' = streams \/ streams' = [streams EXCEPT ![d] = Idle]
      /\ UNCHANGED <<pwms, blocks, drives, claims, rest, returned>>
  BY DEF DmaSample
<1>3. Quieter
  <2>1. Idle \in StreamRow /\ Idle.busy = FALSE
    BY DEF Idle, StreamRow
  <2> HIDE DEF Idle
  <2> QED
    BY <1>1, <1>2, <2>1 DEF Quieter, TypeParts
<1>4. SameHolders
  BY <1>1, <1>2, SameHoldersKept
<1>5. RowsInv' /\ PoolInv'
  BY <1>1, <1>2, <1>3, <1>4, PoolSame
<1>6. RestInv' /\ level' \in [Blocks -> [Channels -> Nat]]
  BY <1>1, <1>2, <1>3, RestSampled
<1>7. FrequencyInv'
  BY <1>1, <1>2 DEF FrequencyInv, FrequencyAsReturned, Told
<1> QED
  BY <1>1, <1>2, <1>3, <1>5, <1>6, <1>7, AssembleInv DEF TypeParts, Quieter

\* The invariant under a claim of another driver.
LEMMA OthersClaimKeeps ==
    ASSUME PwmInv, NEW t \in PacingTimers, OthersClaim(t), UNCHANGED platform
    PROVE  PwmInv'
<1>1. TypeParts /\ RowsInv /\ PoolInv /\ RestInv /\ FrequencyInv
  BY InvFrequency DEF PwmInv
<1>2. /\ claims[t] = "free" /\ claims' = [claims EXCEPT ![t] = "other"]
      /\ UNCHANGED <<pwms, blocks, level, drives, streams, rest, returned>>
  BY DEF OthersClaim
<1>3. RowsInv' /\ PoolInv'
  BY <1>1, <1>2, PoolClaimed
<1>4. SameHolders
  BY <1>1, <1>2, SameHoldersKept
<1>5. RestInv'
  BY <1>1, <1>2, <1>4, RestSame
<1>6. FrequencyInv'
  BY <1>1, <1>2 DEF FrequencyInv, FrequencyAsReturned, Told
<1>7. claims' \in [Resources -> {"free", "pwm", "other"}]
  BY <1>1, <1>2 DEF TypeParts
<1> QED
  BY <1>1, <1>2, <1>3, <1>5, <1>6, <1>7, AssembleInv DEF TypeParts

\* The invariant under a step of somebody else.
LEMMA StutterKeeps ==
    ASSUME PwmInv, UNCHANGED <<pwmVars, platform>>
    PROVE  PwmInv'
  BY DEF PwmInv, TypeParts, RowsInv, PoolInv, RestInv, RestIsQuiet, StoppedStreamsRest,
         FrequencyAsReturned, Told, pwmVars, InUse, PinBlock, PinChannel

\* The table, the pools, the outputs at rest and the returned frequencies, under every
\* order of the calls of light_platform_pwm.h and of the DMA engine's transfers.
THEOREM PwmInvariance == PwmSpec => []PwmInv
<1>1. PlatformInit /\ PwmInit => PwmInv
  BY InitInv
<1>2. PwmInv /\ [PwmNext /\ UNCHANGED platform]_<<pwmVars, platform>> => PwmInv'
  <2> SUFFICES ASSUME PwmInv, [PwmNext /\ UNCHANGED platform]_<<pwmVars, platform>>
               PROVE  PwmInv'
    OBVIOUS
  <2>1. CASE PwmNext /\ UNCHANGED platform
    <3>1. ASSUME NEW p \in PwmPins, Open(p)
          PROVE  PwmInv'
      BY <2>1, <3>1, OpenKeeps
    <3>2. ASSUME NEW i \in Pwms,
                 \/ Configure(i) \/ SetFrequency(i) \/ SetDuty(i) \/ SetEnabled(i)
                 \/ ReleasePin(i) \/ StreamStart(i) \/ StreamStop(i) \/ Close(i)
          PROVE  PwmInv'
      BY <2>1, <3>2, ConfigureKeeps, SetFrequencyKeeps, SetDutyKeeps, SetEnabledKeeps,
         ReleasePinKeeps, StreamStartKeeps, StreamStopKeeps, CloseKeeps
    <3>3. ASSUME NEW d \in DmaChannels, DmaSample(d)
          PROVE  PwmInv'
      BY <2>1, <3>3, DmaSampleKeeps
    <3>4. ASSUME NEW t \in PacingTimers, OthersClaim(t)
          PROVE  PwmInv'
      BY <2>1, <3>4, OthersClaimKeeps
    <3> QED
      BY <2>1, <3>1, <3>2, <3>3, <3>4 DEF PwmNext
  <2>2. CASE UNCHANGED <<pwmVars, platform>>
    BY <2>2, StutterKeeps
  <2> QED
    BY <2>1, <2>2
<1> QED
  BY <1>1, <1>2, PTL DEF PwmSpec

\* Instances, registers, pools, streams and reports are of the types they have in C.
THEOREM PwmTyping == PwmSpec => []PwmTypeOK
<1>1. PwmInv => PwmTypeOK
  BY TypesAre DEF PwmInv
<1> QED
  BY <1>1, PwmInvariance, PTL

\* The invariant says of the pools what the header promises.
LEMMA HoldingsAreExclusive ==
    ASSUME PwmInv
    PROVE  StreamsOwnWhatTheyUse
<1>1. TypeParts /\ RowsInv /\ PoolInv /\ InUse \subseteq Pwms
  BY DEF PwmInv, InUse
<1>2. /\ DOMAIN claims = Resources
      /\ \A d \in DmaChannels : d # None /\ d \notin PacingTimers
      /\ \A t \in PacingTimers : t # None /\ t \notin DmaChannels
      /\ \A i \in InUse : /\ pwms[i].dma \in DmaChannels \union {None}
                           /\ pwms[i].timer \in PacingTimers \union {None}
  BY <1>1 DEF TypeParts, Row
<1>3. {r \in DOMAIN claims : claims[r] = "pwm"} = UNION {Holds(i) : i \in InUse}
  <2>1. ASSUME NEW r \in Resources, claims[r] = "pwm"
        PROVE  \E i \in InUse : r \in Holds(i)
    BY <1>1, <1>2, <2>1 DEF PoolInv, Resources, Holds
  <2>2. ASSUME NEW i \in InUse, NEW r \in Holds(i)
        PROVE  r \in Resources /\ claims[r] = "pwm"
    BY <1>1, <1>2 DEF PoolInv, Resources, Holds
  <2> QED
    BY <1>2, <2>1, <2>2
<1>4. \A i, j \in InUse : i # j => Holds(i) \intersect Holds(j) = {}
  <2> SUFFICES ASSUME NEW i \in InUse, NEW j \in InUse, i # j,
                      NEW r, r \in Holds(i), r \in Holds(j)
               PROVE  FALSE
    OBVIOUS
  <2> QED
    BY <1>1, <1>2 DEF PoolInv, Holds
<1>5. ASSUME NEW d \in DmaChannels, streams[d].busy
      PROVE  \E i \in InUse : /\ d = pwms[i].dma
                               /\ streams[d] = [busy |-> TRUE, pin |-> pwms[i].pin,
                                                timer |-> pwms[i].timer]
  <2>1. PICK i \in InUse : /\ d = pwms[i].dma
                           /\ streams[d].pin = pwms[i].pin /\ streams[d].timer = pwms[i].timer
    BY <1>1, <1>5 DEF PoolInv
  <2>2. streams[d] \in StreamRow
    BY <1>1 DEF TypeParts
  <2>3. streams[d].busy = TRUE
    <3>1. streams[d].busy \in BOOLEAN
      BY <2>2 DEF StreamRow
    <3> QED
      BY <1>5, <3>1, Zenon
  <2>4. streams[d] = [busy |-> streams[d].busy, pin |-> streams[d].pin, timer |-> streams[d].timer]
    BY <2>2 DEF StreamRow
  <2> QED
    BY <2>1, <2>3, <2>4
<1> QED
  BY <1>3, <1>4, <1>5 DEF StreamsOwnWhatTheyUse

\* The promises of light_platform_pwm.h: what streaming instances hold is exactly what is
\* claimed, nobody's twice, and a DMA channel runs only for an open instance, on its pin and
\* timer (close(), stream_start()); an output stopped alone on its channel is silent
\* (stream_stop()); the frequency set_frequency() returned is the one the block runs at until
\* it is configured anew, except on STM32 at the largest divider, where it may be too low.
THEOREM PwmKeepsPromises == PwmSpec => []PwmAsPromised
<1>1. PwmInv => PwmAsPromised
  BY HoldingsAreExclusive DEF PwmInv, RestInv, PwmAsPromised
<1> QED
  BY <1>1, PwmInvariance, PTL

-----------------------------------------------------------------------------
(* Timers. *)

TimerRow == [state : {"idle", "run", "other"}, duration : ClockValues, target : ClockValues]
PromiseRow == [asked : {-1} \union AskedMs, counted : Nat]

TimerTypes ==
    /\ platform \in {"rp2", "h7", "f4", "host"}
    /\ timers \in Seq(TimerRow) /\ promised \in Seq(PromiseRow)
    /\ Len(promised) = Len(timers) /\ Len(timers) <= MaxTimers
    /\ clockMs \in ClockValues

\* On a clock that reads now, a timer whose target this is has left ms to go, or has been
\* over for -left ms.
Away(target, now, left) ==
    \/ target - now = left
    \/ target - now = left + 2 * HalfRange
    \/ target - now = left - 2 * HalfRange

\* What a timer holds of a promise that still stands.
Keeps(t, p, now) ==
    (p # NeverSet /\ ~Forgotten(p)) =>
        /\ p.asked \in AskedMs
        /\ t.state = "idle" => /\ p.counted <= p.asked
                               /\ t.duration = p.asked - p.counted
        /\ t.state = "run" => Away(t.target, now, p.asked - p.counted)
        /\ t.state # "other"

TimersKeep ==
    platform # "host" => \A i \in 1..Len(timers) : Keeps(timers[i], promised[i], clockMs)

TimerInv == TimerTypes /\ TimersKeep

USE TimerAssumption, PlatformAssumption

-----------------------------------------------------------------------------
(* The circle of the clock. *)

\* The remainder is found in the first turn.
LEMMA RemainderIs ==
    ASSUME NEW d \in Nat \ {0}, NEW n \in Int, NEW k \in Int, NEW r \in 0..(d - 1), n = k * d + r
    PROVE  n % d = r
<1>1. n \div d \in Int /\ n % d \in 0..(d - 1) /\ n = d * (n \div d) + (n % d)
  OBVIOUS
<1> QED
  BY <1>1

\* Within one turn of the clock, either way.
LEMMA WrapIs ==
    ASSUME NEW n \in Int, n >= -(2 * HalfRange), n < 4 * HalfRange
    PROVE  Wrap(n) = IF n < 0 THEN n + 2 * HalfRange
                     ELSE IF n < 2 * HalfRange THEN n ELSE n - 2 * HalfRange
<1> DEFINE d == 2 * HalfRange
<1>1. d \in Nat \ {0} /\ n >= -d /\ n < d + d
  OBVIOUS
<1> HIDE DEF d
<1>2. \A k \in Int : \A r \in 0..(d - 1) : n = k * d + r => n % d = r
  BY <1>1, RemainderIs
<1>3. CASE n < 0
  <2>1. n + d \in 0..(d - 1) /\ n = (-1) * d + (n + d)
    BY <1>1, <1>3
  <2>2. n % d = n + d
    BY <1>2, <2>1
  <2> QED
    BY <1>3, <2>2 DEF Wrap, d
<1>4. CASE n >= 0 /\ n < d
  <2>1. n \in 0..(d - 1) /\ n = 0 * d + n
    BY <1>1, <1>4
  <2>2. n % d = n
    BY <1>2, <2>1
  <2> QED
    BY <1>4, <2>2 DEF Wrap, d
<1>5. CASE n >= d
  <2>1. n - d \in 0..(d - 1) /\ n = 1 * d + (n - d)
    BY <1>1, <1>5
  <2>2. n % d = n - d
    BY <1>2, <2>1
  <2> QED
    BY <1>1, <1>5, <2>2 DEF Wrap, d
<1> QED
  BY <1>1, <1>3, <1>4, <1>5

\* The signed difference is what is left, and zero once nothing is.
LEMMA DifferenceIsLeft ==
    ASSUME NEW target \in ClockValues, NEW now \in ClockValues, NEW left \in Int,
           left < HalfRange, left >= -HalfRange, Away(target, now, left)
    PROVE  SignedRemainder(Wrap(target - now)) = IF left > 0 THEN left ELSE 0
<1> DEFINE n == target - now
<1>1. n \in Int /\ n >= -(2 * HalfRange) /\ n < 2 * HalfRange
  BY DEF ClockValues
<1>2. Wrap(n) = IF n < 0 THEN n + 2 * HalfRange ELSE n
  BY <1>1, WrapIs
<1>3. n = left \/ n = left + 2 * HalfRange \/ n = left - 2 * HalfRange
  BY DEF Away
<1> HIDE DEF n
<1>4. SignedRemainder(Wrap(n)) = IF left > 0 THEN left ELSE 0
  BY <1>1, <1>2, <1>3 DEF SignedRemainder
<1> QED
  BY <1>4 DEF n

\* A target set to ms from now is ms away.
LEMMA TargetIsAway ==
    ASSUME NEW now \in ClockValues, NEW ms \in 0..(HalfRange - 1)
    PROVE  Wrap(now + ms) \in ClockValues /\ Away(Wrap(now + ms), now, ms)
<1> DEFINE n == now + ms
<1>1. n \in Int /\ n >= 0 /\ n < 4 * HalfRange /\ n < 3 * HalfRange
  BY DEF ClockValues
<1>2. Wrap(n) = IF n < 2 * HalfRange THEN n ELSE n - 2 * HalfRange
  BY <1>1, WrapIs
<1>3. Wrap(n) \in ClockValues
  BY <1>1, <1>2 DEF ClockValues
<1> QED
  BY <1>2, <1>3 DEF Away, ClockValues

\* A millisecond brings every target one closer.
LEMMA OneMillisecond ==
    ASSUME NEW now \in ClockValues
    PROVE  /\ Wrap(now + 1) \in ClockValues
           /\ \A target \in ClockValues, left \in Int :
                Away(target, now, left) /\ left <= HalfRange /\ left >= -HalfRange
                    => Away(target, Wrap(now + 1), left - 1)
<1>1. Wrap(now + 1) = IF now + 1 < 2 * HalfRange THEN now + 1 ELSE 0
  BY WrapIs DEF ClockValues
<1> QED
  BY <1>1 DEF Away, ClockValues

-----------------------------------------------------------------------------
(* One timer. *)

\* A duration the clock can hold, from any moment on, is a target the clock can show.
LEMMA TargetIsTyped ==
    ASSUME NEW now \in ClockValues, NEW ms \in ClockValues
    PROVE  Wrap(now + ms) \in ClockValues
<1> DEFINE n == now + ms
<1>1. n \in Int /\ n >= 0 /\ n < 4 * HalfRange
  BY DEF ClockValues
<1>2. Wrap(n) = IF n < 2 * HalfRange THEN n ELSE n - 2 * HalfRange
  BY <1>1, WrapIs
<1> QED
  BY <1>1, <1>2 DEF ClockValues

\* What was asked is less than half the range of the clock, or nothing was.
LEMMA AskedIs ==
    ASSUME NEW p \in PromiseRow
    PROVE  /\ p.asked \in Int /\ p.counted \in Nat
           /\ p.asked \in AskedMs => p.asked \in Nat /\ p.asked < HalfRange
<1>1. \A ms \in AskedMs : ms \in Nat /\ ms < HalfRange
  <2>1. \A ms \in AskedMs : ms \in 0..(HalfRange - 1)
    OBVIOUS
  <2> QED
    BY <2>1
<1>2. p.asked \in {-1} \union AskedMs /\ p.counted \in Nat
  BY DEF PromiseRow
<1>3. CASE p.asked = -1
  <2>1. \A ms \in AskedMs : ms # -1
    BY <1>1
  <2> QED
    BY <1>2, <1>3, <2>1
<1>4. CASE p.asked \in AskedMs
  <2> DEFINE a == p.asked
  <2>1. a \in Nat /\ a < HalfRange
    BY <1>1, <1>4
  <2>2. a \in Int
    BY <2>1
  <2> QED
    BY <1>2, <2>1, <2>2
<1> QED
  BY <1>2, <1>3, <1>4

\* light_platform_timer_run() keeps what is promised: a timer that rests for what is left
\* gets a target that far away.
LEMMA RunningKeeps ==
    ASSUME TimerTypes, NEW t \in TimerRow, NEW p \in PromiseRow
    PROVE  /\ Running(t) \in TimerRow
           /\ platform # "host" /\ Keeps(t, p, clockMs) => Keeps(Running(t), p, clockMs)
<1>1. CASE t.state # "idle"
  <2>1. Running(t) = t
    BY <1>1 DEF Running
  <2> QED
    BY <2>1
<1>2. CASE t.state = "idle" /\ platform # "host"
  <2> DEFINE r == [t EXCEPT !.target = Wrap(clockMs + t.duration), !.state = "run"]
  <2>1. Running(t) = r
    BY <1>2 DEF Running, Rp2Run, StmRun, TimerTypes
  <2>2. Wrap(clockMs + t.duration) \in ClockValues
    BY TargetIsTyped DEF TimerTypes, TimerRow
  <2>3. /\ r \in TimerRow /\ r.state = "run" /\ r.target = Wrap(clockMs + t.duration)
    BY <2>2 DEF TimerRow
  <2>4. ASSUME Keeps(t, p, clockMs), p # NeverSet, ~Forgotten(p)
        PROVE  Away(r.target, clockMs, p.asked - p.counted)
    <3>1. /\ p.asked \in AskedMs /\ p.counted <= p.asked
          /\ t.duration = p.asked - p.counted
      BY <1>2, <2>4 DEF Keeps
    <3>2. p.asked - p.counted \in 0..(HalfRange - 1)
      BY <3>1, AskedIs
    <3> QED
      BY <2>3, <3>1, <3>2, TargetIsAway DEF TimerTypes
  <2> HIDE DEF r
  <2>5. Keeps(t, p, clockMs) => Keeps(r, p, clockMs)
    BY <2>3, <2>4 DEF Keeps
  <2> QED
    BY <2>1, <2>3, <2>5
<1>3. CASE t.state = "idle" /\ platform = "host"
  <2>1. Running(t) = [t EXCEPT !.state = "run"]
    BY <1>3 DEF Running, HostRun
  <2> QED
    BY <1>3, <2>1 DEF TimerRow
<1> QED
  BY <1>1, <1>2, <1>3

\* A timer set anew rests for what was asked.
LEMMA SetKeeps ==
    ASSUME NEW t \in TimerRow, t.state = "idle", NEW ms \in AskedMs, NEW now
    PROVE  /\ [t EXCEPT !.duration = ms] \in TimerRow
           /\ [asked |-> ms, counted |-> 0] \in PromiseRow
           /\ Keeps([t EXCEPT !.duration = ms], [asked |-> ms, counted |-> 0], now)
  BY DEF TimerRow, ClockValues, PromiseRow, Keeps

\* What light_platform_timer_stop() makes of a timer.
Stopped(t) ==
    CASE platform = "rp2"          -> Rp2Stop(t)
      [] platform \in {"h7", "f4"} -> StmStop(t)
      [] platform = "host"         -> HostStop(t)

Settled(p) ==
    [p EXCEPT !.counted = IF platform \in {"h7", "f4"} /\ p.asked \in 0..@ /\ ~Forgotten(p)
                          THEN p.asked ELSE @]

\* An STM32 timer stopped rests for what was left; an RP2 timer goes on running.
LEMMA StoppedKeeps ==
    ASSUME TimerTypes, NEW t \in TimerRow, NEW p \in PromiseRow, t.state = "run"
    PROVE  /\ Stopped(t) \in TimerRow /\ Settled(p) \in PromiseRow
           /\ platform # "host" /\ Keeps(t, p, clockMs) => Keeps(Stopped(t), Settled(p), clockMs)
<1>1. /\ t.target \in ClockValues /\ t.duration \in ClockValues /\ clockMs \in ClockValues
      /\ p.asked \in Int /\ p.counted \in Nat
      /\ p.asked \in AskedMs => p.asked \in Nat /\ p.asked < HalfRange
  BY AskedIs DEF TimerTypes, TimerRow
<1>2. CASE platform = "rp2"
  <2> DEFINE r == [t EXCEPT !.duration = IF t.target <= clockMs THEN 0 ELSE t.target - clockMs]
  <2>1. Stopped(t) = r
    BY <1>2 DEF Stopped, Rp2Stop
  <2>2. r \in TimerRow /\ r.state = "run" /\ r.target = t.target
    BY <1>1 DEF TimerRow, ClockValues
  <2>3. Settled(p) = p
    BY <1>2 DEF Settled, PromiseRow
  <2> HIDE DEF r
  <2> QED
    BY <2>1, <2>2, <2>3 DEF Keeps
<1>3. CASE platform \in {"h7", "f4"}
  <2> DEFINE left == p.asked - p.counted
             rem == SignedRemainder(Wrap(t.target - clockMs))
             r == [t EXCEPT !.duration = rem, !.state = "idle"]
             c == IF p.asked \in 0..p.counted /\ ~Forgotten(p) THEN p.asked ELSE p.counted
             q == [p EXCEPT !.counted = c]
  <2>1. Stopped(t) = r /\ Settled(p) = q
    BY <1>3 DEF Stopped, StmStop, Settled
  <2>2. rem \in ClockValues
    <3>1. Wrap(t.target - clockMs) \in ClockValues
      <4>1. t.target - clockMs \in Int /\ t.target - clockMs >= -(2 * HalfRange)
            /\ t.target - clockMs < 2 * HalfRange
        BY <1>1 DEF ClockValues
      <4> QED
        BY <4>1, WrapIs DEF ClockValues
    <3> QED
      BY <3>1 DEF SignedRemainder, ClockValues
  <2>3. c \in Nat
    BY <1>1
  <2>4. r \in TimerRow /\ r.state = "idle" /\ r.duration = rem
    BY <2>2 DEF TimerRow
  <2>5. q \in PromiseRow /\ q.asked = p.asked /\ q.counted = c
    BY <2>3 DEF PromiseRow
  <2>6. ASSUME Keeps(t, p, clockMs), q # NeverSet, ~Forgotten(q)
        PROVE  q.asked \in AskedMs /\ q.counted <= q.asked /\ rem = q.asked - q.counted
    <3>1. ~Forgotten(p)
      BY <1>1, <2>5, <2>6 DEF Forgotten
    <3>2. p # NeverSet
      <4> SUFFICES ASSUME p = NeverSet
                   PROVE  FALSE
        OBVIOUS
      <4>1. p.asked = -1 /\ p.counted = 0
        BY DEF NeverSet
      <4>2. c = 0
        BY <4>1
      <4>3. q = NeverSet
        BY <4>1, <4>2 DEF NeverSet, PromiseRow
      <4> QED
        BY <2>6, <4>3
    <3>3. p.asked \in AskedMs /\ Away(t.target, clockMs, left)
      BY <2>6, <3>1, <3>2 DEF Keeps
    <3>4. left \in Int /\ left < HalfRange /\ left >= -HalfRange
      BY <1>1, <3>1, <3>3 DEF Forgotten
    <3>5. rem = IF left > 0 THEN left ELSE 0
      BY <1>1, <3>3, <3>4, DifferenceIsLeft
    <3> HIDE DEF rem
    <3> QED
      BY <1>1, <2>5, <3>1, <3>3, <3>5
  <2> HIDE DEF r, q, rem
  <2>7. Keeps(t, p, clockMs) => Keeps(r, q, clockMs)
    BY <2>4, <2>6 DEF Keeps
  <2> QED
    BY <2>1, <2>4, <2>5, <2>7
<1>4. CASE platform = "host"
  <2>1. Stopped(t) = t /\ Settled(p) = p
    BY <1>4 DEF Stopped, HostStop, Settled, PromiseRow
  <2> QED
    BY <1>4, <2>1
<1> QED
  BY <1>2, <1>3, <1>4 DEF TimerTypes

\* What a millisecond makes of a promise.
Counted(t, p) ==
    IF t.state = "run" /\ p # NeverSet /\ ~Forgotten(p) THEN [p EXCEPT !.counted = @ + 1] ELSE p

\* A running timer comes one closer to its end, or is over by one more.
LEMMA MillisecondKeeps ==
    ASSUME TimerTypes, NEW t \in TimerRow, NEW p \in PromiseRow
    PROVE  /\ Counted(t, p) \in PromiseRow
           /\ Keeps(t, p, clockMs) => Keeps(t, Counted(t, p), Wrap(clockMs + 1))
<1>1. /\ t.target \in ClockValues /\ clockMs \in ClockValues
      /\ p.asked \in Int /\ p.counted \in Nat
      /\ p.asked \in AskedMs => p.asked \in Nat /\ p.asked < HalfRange
  BY AskedIs DEF TimerTypes, TimerRow
<1>2. CASE t.state = "run" /\ p # NeverSet /\ ~Forgotten(p)
  <2> DEFINE q == [p EXCEPT !.counted = @ + 1]
             left == p.asked - p.counted
  <2>1. Counted(t, p) = q
    BY <1>2 DEF Counted
  <2>2. q \in PromiseRow /\ q.asked = p.asked /\ q.counted = p.counted + 1
    BY DEF PromiseRow
  <2> HIDE DEF q
  <2>3. ASSUME Keeps(t, p, clockMs), ~Forgotten(q)
        PROVE  p.asked \in AskedMs /\ Away(t.target, Wrap(clockMs + 1), q.asked - q.counted)
    <3>1. p.asked \in AskedMs /\ Away(t.target, clockMs, left)
      BY <1>2, <2>3 DEF Keeps
    <3>2. left \in Int /\ left <= HalfRange /\ left >= -HalfRange
      BY <1>1, <1>2, <3>1 DEF Forgotten
    <3>3. Away(t.target, Wrap(clockMs + 1), left - 1)
      BY <1>1, <3>1, <3>2, OneMillisecond
    <3>4. q.asked - q.counted = left - 1
      BY <1>1, <2>2
    <3> HIDE DEF left
    <3> QED
      BY <3>1, <3>3, <3>4
  <2>4. Keeps(t, p, clockMs) => Keeps(t, q, Wrap(clockMs + 1))
    BY <1>2, <2>2, <2>3 DEF Keeps
  <2> QED
    BY <2>1, <2>2, <2>4
<1>3. CASE ~(t.state = "run" /\ p # NeverSet /\ ~Forgotten(p))
  BY <1>3 DEF Counted, Keeps
<1> QED
  BY <1>2, <1>3

-----------------------------------------------------------------------------
(* The table. *)

\* One timer and one promise change.
LEMMA RowsChanged ==
    ASSUME TimerTypes, NEW i \in 1..Len(timers), NEW t \in TimerRow, NEW p \in PromiseRow,
           timers' = [timers EXCEPT ![i] = t], promised' = [promised EXCEPT ![i] = p],
           UNCHANGED <<clockMs, platform>>,
           TimersKeep, platform # "host" => Keeps(t, p, clockMs)
    PROVE  TimerInv'
<1>1. /\ timers' \in Seq(TimerRow) /\ Len(timers') = Len(timers)
      /\ \A j \in 1..Len(timers) : timers'[j] = IF j = i THEN t ELSE timers[j]
  BY ExceptSeq DEF TimerTypes
<1>2. /\ promised' \in Seq(PromiseRow) /\ Len(promised') = Len(promised)
      /\ \A j \in 1..Len(timers) : promised'[j] = IF j = i THEN p ELSE promised[j]
  BY ExceptSeq DEF TimerTypes
<1>3. TimersKeep'
  BY <1>1, <1>2 DEF TimersKeep
<1> QED
  BY <1>1, <1>2, <1>3 DEF TimerInv, TimerTypes

LEMMA RowsAre ==
    ASSUME TimerTypes, NEW i \in 1..Len(timers)
    PROVE  timers[i] \in TimerRow /\ promised[i] \in PromiseRow
  BY ElementOfSeq DEF TimerTypes

-----------------------------------------------------------------------------
(* The invariant, and each call. *)

LEMMA TimerInitInv ==
    ASSUME PlatformInit, TimerInit
    PROVE  TimerInv
  BY EmptySeq DEF PlatformInit, TimerInit, TimerInv, TimerTypes, TimersKeep

\* A new timer promises nothing, whatever its block of memory holds.
LEMMA NewTimerKeeps ==
    ASSUME TimerInv, NewTimer, UNCHANGED platform
    PROVE  TimerInv'
<1>0. TimerTypes /\ TimersKeep
  BY DEF TimerInv
<1>1. PICK t \in TimerRow : timers' = Append(timers, t)
  <2>1. Rp2NewTimer \subseteq TimerRow /\ HostNewTimer \subseteq TimerRow
    BY DEF Rp2NewTimer, HostNewTimer, TimerRow, ClockValues
  <2>2. StmNewTimer \subseteq TimerRow
    BY DEF StmNewTimer, TimerRow, ClockValues
  <2>3. platform \in {"rp2", "h7", "f4", "host"}
    BY <1>0 DEF TimerTypes
  <2>4. \E t \in Rp2NewTimer \cup StmNewTimer \cup HostNewTimer : timers' = Append(timers, t)
    BY <2>3 DEF NewTimer
  <2> QED
    BY <2>1, <2>2, <2>4
<1>2. /\ promised' = Append(promised, NeverSet) /\ clockMs' = clockMs
      /\ Len(timers) < MaxTimers
  BY DEF NewTimer
<1>3. NeverSet \in PromiseRow
  BY DEF NeverSet, PromiseRow
<1>4. /\ timers' \in Seq(TimerRow) /\ Len(timers') = Len(timers) + 1
      /\ \A i \in 1..Len(timers) : timers'[i] = timers[i]
  BY <1>0, <1>1, AppendProperties DEF TimerTypes
<1>5. /\ promised' \in Seq(PromiseRow) /\ Len(promised') = Len(promised) + 1
      /\ \A i \in 1..Len(promised) : promised'[i] = promised[i]
      /\ promised'[Len(promised) + 1] = NeverSet
  BY <1>0, <1>2, <1>3, AppendProperties DEF TimerTypes
<1>6. Len(timers) \in Nat /\ Len(promised) = Len(timers)
  BY <1>0, LenProperties DEF TimerTypes
<1>7. TimerTypes'
  BY <1>0, <1>2, <1>4, <1>5, <1>6 DEF TimerTypes
<1>8. TimersKeep'
  <2> SUFFICES ASSUME platform # "host", NEW i \in 1..(Len(timers) + 1)
               PROVE  Keeps(timers'[i], promised'[i], clockMs)
    BY <1>2, <1>4 DEF TimersKeep
  <2>1. CASE i \in 1..Len(timers)
    BY <1>0, <1>4, <1>5, <1>6, <2>1 DEF TimersKeep
  <2>2. CASE i = Len(timers) + 1
    BY <1>5, <1>6, <2>2 DEF Keeps
  <2> QED
    BY <1>6, <2>1, <2>2
<1> QED
  BY <1>7, <1>8 DEF TimerInv

LEMMA RunKeeps ==
    ASSUME TimerInv, NEW i \in 1..Len(timers), Run(i), UNCHANGED platform
    PROVE  TimerInv'
<1>0. TimerTypes /\ TimersKeep /\ timers[i] \in TimerRow /\ promised[i] \in PromiseRow
  BY RowsAre DEF TimerInv
<1>1. /\ timers' = [timers EXCEPT ![i] = Running(timers[i])]
      /\ promised' = [promised EXCEPT ![i] = promised[i]] /\ clockMs' = clockMs
  BY <1>0 DEF Run, TimerTypes
<1>2. /\ Running(timers[i]) \in TimerRow
      /\ platform # "host" => Keeps(Running(timers[i]), promised[i], clockMs)
  BY <1>0, RunningKeeps DEF TimersKeep
<1> QED
  BY <1>0, <1>1, <1>2, RowsChanged

LEMMA SetMsKeeps ==
    ASSUME TimerInv, NEW i \in 1..Len(timers), SetMs(i), UNCHANGED platform
    PROVE  TimerInv'
<1>0. TimerTypes /\ TimersKeep /\ timers[i] \in TimerRow /\ promised[i] \in PromiseRow
  BY RowsAre DEF TimerInv
<1>1. timers[i].state = "idle" /\ clockMs' = clockMs
  BY DEF SetMs
<1>2. PICK ms \in AskedMs, start \in BOOLEAN :
        /\ timers' = [timers EXCEPT ![i] = IF start THEN Running([timers[i] EXCEPT !.duration = ms])
                                           ELSE [timers[i] EXCEPT !.duration = ms]]
        /\ promised' = [promised EXCEPT ![i] = [asked |-> ms, counted |-> 0]]
  BY DEF SetMs
<1> DEFINE t == [timers[i] EXCEPT !.duration = ms]
           p == [asked |-> ms, counted |-> 0]
<1>3. t \in TimerRow /\ p \in PromiseRow /\ Keeps(t, p, clockMs)
  BY <1>0, <1>1, SetKeeps
<1>4. timers' = [timers EXCEPT ![i] = IF start THEN Running(t) ELSE t]
      /\ promised' = [promised EXCEPT ![i] = p]
  BY <1>2
<1> HIDE DEF t, p
<1>5. CASE start
  <2>1. timers' = [timers EXCEPT ![i] = Running(t)]
    BY <1>4, <1>5
  <2>2. /\ Running(t) \in TimerRow
        /\ platform # "host" => Keeps(Running(t), p, clockMs)
    BY <1>0, <1>3, RunningKeeps
  <2> QED
    BY <1>0, <1>1, <1>3, <1>4, <2>1, <2>2, RowsChanged
<1>6. CASE ~start
  <2>1. timers' = [timers EXCEPT ![i] = t]
    BY <1>4, <1>6
  <2> QED
    BY <1>0, <1>1, <1>3, <1>4, <2>1, RowsChanged
<1> QED
  BY <1>5, <1>6

LEMMA StopKeeps ==
    ASSUME TimerInv, NEW i \in 1..Len(timers), Stop(i), UNCHANGED platform
    PROVE  TimerInv'
<1>0. TimerTypes /\ TimersKeep /\ timers[i] \in TimerRow /\ promised[i] \in PromiseRow
  BY RowsAre DEF TimerInv
<1>1. /\ timers[i].state = "run" /\ clockMs' = clockMs
      /\ timers' = [timers EXCEPT ![i] = Stopped(timers[i])]
  BY <1>0 DEF Stop, Stopped, TimerTypes
<1>2. promised' = [promised EXCEPT ![i] = Settled(promised[i])]
  BY <1>0 DEF Stop, Settled, TimerTypes, PromiseRow
<1>3. /\ Stopped(timers[i]) \in TimerRow /\ Settled(promised[i]) \in PromiseRow
      /\ platform # "host" => Keeps(Stopped(timers[i]), Settled(promised[i]), clockMs)
  BY <1>0, <1>1, StoppedKeeps DEF TimersKeep
<1> QED
  BY <1>0, <1>1, <1>2, <1>3, RowsChanged

LEMMA MillisecondStepKeeps ==
    ASSUME TimerInv, Millisecond, UNCHANGED platform
    PROVE  TimerInv'
<1>0. TimerTypes /\ TimersKeep
  BY DEF TimerInv
<1>1. /\ clockMs' = Wrap(clockMs + 1) /\ timers' = timers
      /\ promised' = [i \in DOMAIN promised |-> Counted(timers[i], promised[i])]
  BY DEF Millisecond, Counted
<1>2. /\ Len(timers) \in Nat /\ Len(promised) = Len(timers)
      /\ DOMAIN promised = 1..Len(timers)
  BY <1>0, LenProperties DEF TimerTypes
<1>3. \A i \in 1..Len(timers) : Counted(timers[i], promised[i]) \in PromiseRow
  BY <1>0, RowsAre, MillisecondKeeps
<1>4. promised' \in [1..Len(timers) -> PromiseRow]
  BY <1>1, <1>2, <1>3
<1>5. promised' \in Seq(PromiseRow) /\ Len(promised') = Len(timers)
  BY <1>2, <1>4, SeqDef, LenProperties
<1>6. Wrap(clockMs + 1) \in ClockValues
  BY <1>0, OneMillisecond DEF TimerTypes
<1>7. TimersKeep'
  <2> SUFFICES ASSUME platform # "host", NEW i \in 1..Len(timers)
               PROVE  Keeps(timers[i], Counted(timers[i], promised[i]), Wrap(clockMs + 1))
    BY <1>1, <1>2 DEF TimersKeep
  <2> QED
    BY <1>0, RowsAre, MillisecondKeeps DEF TimersKeep
<1> QED
  BY <1>0, <1>1, <1>5, <1>6, <1>7 DEF TimerInv, TimerTypes

\* Every timer holds what it was asked, less what has passed while it ran.
THEOREM TimerInvariance == TimerSpec => []TimerInv
<1>1. PlatformInit /\ TimerInit => TimerInv
  BY TimerInitInv
<1>2. TimerInv /\ [TimerNext /\ UNCHANGED platform]_<<timerVars, platform>> => TimerInv'
  <2> SUFFICES ASSUME TimerInv, [TimerNext /\ UNCHANGED platform]_<<timerVars, platform>>
               PROVE  TimerInv'
    OBVIOUS
  <2>0. DOMAIN timers = 1..Len(timers)
    BY LenProperties DEF TimerInv, TimerTypes
  <2>1. CASE TimerNext /\ UNCHANGED platform
    BY <2>0, <2>1, NewTimerKeeps, RunKeeps, SetMsKeeps, StopKeeps, MillisecondStepKeeps
       DEF TimerNext
  <2>2. CASE UNCHANGED <<timerVars, platform>>
    BY <2>2 DEF timerVars, TimerInv, TimerTypes, TimersKeep
  <2> QED
    BY <2>1, <2>2
<1> QED
  BY <1>1, <1>2, PTL DEF TimerSpec

\* The table never holds more timers than LIGHT_PLATFORM_MAX_TIMERS, and every field is one
\* the clock can show.
THEOREM TimerTyping == TimerSpec => []TimerTypeOK
<1>1. TimerInv => TimerTypeOK
  BY DEF TimerInv, TimerTypes, TimerTypeOK, TimerRow
<1> QED
  BY <1>1, TimerInvariance, PTL

\* light_platform_timer_get_remaining_ms() answers what was asked less the time the timer
\* has run, and zero once it is over, through every stop and start and across the wrap of
\* the clock, until it has been over for half the clock's range.
THEOREM TimersKeepTime == TimerSpec => []TimerKeepsTime
<1>1. ASSUME TimerInv
      PROVE  TimerKeepsTime
  <2>0. TimerTypes /\ TimersKeep /\ DOMAIN timers = 1..Len(timers)
    BY <1>1, LenProperties DEF TimerInv, TimerTypes
  <2> SUFFICES ASSUME platform # "host", NEW i \in 1..Len(timers),
                      promised[i] # NeverSet, ~Forgotten(promised[i])
               PROVE  LET left == promised[i].asked - promised[i].counted
                      IN  Remaining(timers[i]) = IF left > 0 THEN left ELSE 0
    BY <2>0 DEF TimerKeepsTime
  <2> DEFINE t == timers[i]
             p == promised[i]
             left == p.asked - p.counted
  <2>1. t \in TimerRow /\ p \in PromiseRow /\ Keeps(t, p, clockMs)
    BY <2>0, RowsAre DEF TimersKeep
  <2>2. /\ p.asked \in AskedMs /\ p.asked \in Nat /\ p.asked < HalfRange /\ p.counted \in Nat
        /\ left \in Int /\ left < HalfRange /\ left >= -HalfRange
    BY <2>1, AskedIs DEF Keeps, Forgotten
  <2>3. CASE t.state = "idle"
    <3>1. Remaining(t) = t.duration
      BY <2>3 DEF Remaining
    <3>2. p.counted <= p.asked /\ t.duration = left
      BY <2>1, <2>3 DEF Keeps
    <3> QED
      BY <2>2, <3>1, <3>2
  <2>4. CASE t.state = "run"
    <3>1. Away(t.target, clockMs, left)
      BY <2>1, <2>4 DEF Keeps
    <3>2. t.target \in ClockValues /\ clockMs \in ClockValues
      BY <2>0, <2>1 DEF TimerRow, TimerTypes
    <3>3. SignedRemainder(Wrap(t.target - clockMs)) = IF left > 0 THEN left ELSE 0
      BY <2>2, <3>1, <3>2, DifferenceIsLeft
    <3> QED
      BY <2>4, <3>3 DEF Remaining
  <2> QED
    BY <2>1, <2>3, <2>4 DEF Keeps, TimerRow
<1> QED
  BY <1>1, TimerInvariance, PTL

-----------------------------------------------------------------------------
(* Core 1 of the RP2350, for any depth of the queues and any time the      *)
(* hand-off is given, as long as it is given the time of a pump: neither   *)
(* a panic's message nor a typed line is lost without a word.              *)

Core1Places ==
    MainLoop \union Left \union {"reset", "start", "printed", "pump_forever", "panicked"}

ConsoleTypes ==
    /\ core1 \in Core1Places
    /\ typed \in Nat
    /\ lines \in Seq(Nat) /\ taken \in Seq(Nat)
    /\ Len(lines) <= QueueDepth

PanicTypes ==
    /\ core1 \in Core1Places
    /\ busy \in Nat /\ waited \in Nat /\ lag \in Nat

\* Core 0 asks once, and its clock starts when it does.
AskedOnce ==
    core0 \notin {"handed_over", "rebooted"} => ~panicPending /\ waited = 0 /\ lag = 0

\* Core 1 says it has printed, and goes to pump for good, when the host has the message.
AnswerIsTrue == panicPrinted \/ core1 = "pump_forever" => onWire

\* Core 0 gives up on an answer only when its time has run out.
WaitsForAnswer ==
    core0 = "rebooted" /\ panicPending /\ core1 # "panicked" =>
        panicPrinted \/ waited = HandoffTimeout

\* The time core 0 has waited that was not spent in a write nobody reads is the time
\* core 1 has pumped the message.
PumpedFor == IF core1 # "printed" \/ busy > PumpTime THEN 0 ELSE PumpTime - busy

Heard == onWire \/ lockHeld \/ core1 \in Left \union {"panicked"}

WaitAccounted == Heard \/ waited - lag <= PumpedFor

PanicInv == PanicTypes /\ AskedOnce /\ AnswerIsTrue /\ WaitsForAnswer /\ WaitAccounted

\* The line core 1 is dealing with has not been announced as dropped.
HandNotDropped == core1 \in {"test_room", "add"} => typed \notin dropped

\* Core 1 does nothing until core 0 launches it.
BootFirst == core0 = "boot" => core1 = "reset"

ConsoleInv == ConsoleTypes /\ BootFirst /\ HandNotDropped /\ ConsoleLinesKept

USE UsbAssumption

-----------------------------------------------------------------------------
(* The hand-off of a panic. *)

\* Nobody has asked for anything yet.
LEMMA PanicInvInit ==
    ASSUME UsbInit
    PROVE  PanicInv
  BY DEF UsbInit, PanicInv, PanicTypes, Core1Places, AskedOnce, AnswerIsTrue, WaitsForAnswer,
         WaitAccounted, PumpedFor, Heard

\* A tick is counted as lag or as pumping; every other step leaves the clock and keeps
\* what has been pumped from shrinking.
LEMMA PanicInvStep ==
    ASSUME PanicInv, [UsbNext]_usbVars
    PROVE  PanicInv'
<1> USE DEF PanicTypes, Core1Places, MainLoop, Left
<1>1. CASE WorkerLaunch
  <2>1. PanicTypes'
    BY <1>1 DEF WorkerLaunch, panicVars, PanicInv
  <2>2. AskedOnce' /\ AnswerIsTrue' /\ WaitsForAnswer'
    BY <1>1 DEF WorkerLaunch, panicVars, PanicInv, AskedOnce, AnswerIsTrue, WaitsForAnswer
  <2>3. WaitAccounted'
    BY <1>1 DEF WorkerLaunch, panicVars, PanicInv, AskedOnce, WaitAccounted, PumpedFor, Heard
  <2> QED
    BY <2>1, <2>2, <2>3 DEF PanicInv
<1>2. CASE PlatformUp
  BY <1>2 DEF PlatformUp, PanicInv, PanicTypes, Core1Places, MainLoop, Left, AskedOnce, AnswerIsTrue, WaitsForAnswer, WaitAccounted, PumpedFor, Heard, panicVars
<1>3. CASE StreamsUp
  BY <1>3 DEF StreamsUp, PanicInv, PanicTypes, Core1Places, MainLoop, Left, AskedOnce, AnswerIsTrue, WaitsForAnswer, WaitAccounted, PumpedFor, Heard, panicVars
<1>4. CASE Log
  BY <1>4 DEF Log, ClaimSlot, PanicInv, PanicTypes, Core1Places, MainLoop, Left, AskedOnce, AnswerIsTrue, WaitsForAnswer, WaitAccounted, PumpedFor, Heard, panicVars
<1>5. CASE RoomSeen
  BY <1>5 DEF RoomSeen, PanicInv, PanicTypes, Core1Places, MainLoop, Left, AskedOnce, AnswerIsTrue, WaitsForAnswer, WaitAccounted, PumpedFor, Heard, panicVars
<1>6. CASE RoomClear
  BY <1>6 DEF RoomClear, PanicInv, PanicTypes, Core1Places, MainLoop, Left, AskedOnce, AnswerIsTrue, WaitsForAnswer, WaitAccounted, PumpedFor, Heard, panicVars
<1>7. CASE Retry
  BY <1>7 DEF Retry, ClaimSlot, PanicInv, PanicTypes, Core1Places, MainLoop, Left, AskedOnce, AnswerIsTrue, WaitsForAnswer, WaitAccounted, PumpedFor, Heard, panicVars
<1>8. CASE TakeLine
  BY <1>8 DEF TakeLine, PanicInv, PanicTypes, Core1Places, MainLoop, Left, AskedOnce, AnswerIsTrue, WaitsForAnswer, WaitAccounted, PumpedFor, Heard, panicVars
<1>9. CASE SignalStop
  BY <1>9 DEF SignalStop, PanicInv, PanicTypes, Core1Places, MainLoop, Left, AskedOnce, AnswerIsTrue, WaitsForAnswer, WaitAccounted, PumpedFor, Heard, panicVars
<1>10. CASE WorkerJoin
  BY <1>10 DEF WorkerJoin, PanicInv, PanicTypes, Core1Places, MainLoop, Left, AskedOnce, AnswerIsTrue, WaitsForAnswer, WaitAccounted, PumpedFor, Heard, panicVars
<1>11. CASE Panic
  <2>1. PanicTypes'
    BY <1>11 DEF Panic, panicVars, PanicInv
  <2>2. AskedOnce' /\ AnswerIsTrue' /\ WaitsForAnswer'
    BY <1>11 DEF Panic, panicVars, PanicInv, AskedOnce, AnswerIsTrue, WaitsForAnswer
  <2>3. WaitAccounted'
    BY <1>11 DEF Panic, panicVars, PanicInv, AskedOnce, WaitAccounted, PumpedFor, Heard
  <2> QED
    BY <2>1, <2>2, <2>3 DEF PanicInv
<1>12. CASE PanicReboot
  BY <1>12 DEF PanicReboot, PanicInv, PanicTypes, Core1Places, MainLoop, Left, AskedOnce, AnswerIsTrue, WaitsForAnswer, WaitAccounted, PumpedFor, Heard, panicVars
<1>13. CASE UsbInitCore1
  BY <1>13 DEF UsbInitCore1, Core1At, Core1Goes, PanicInv, PanicTypes, Core1Places, MainLoop, Left, AskedOnce, AnswerIsTrue, WaitsForAnswer, WaitAccounted, PumpedFor, Heard, panicVars
<1>14. CASE TestStop
  BY <1>14 DEF TestStop, Core1At, Core1Goes, PanicInv, PanicTypes, Core1Places, MainLoop, Left, AskedOnce, AnswerIsTrue, WaitsForAnswer, WaitAccounted, PumpedFor, Heard, panicVars
<1>15. CASE TestPanic
  <2>1. PanicTypes'
    BY <1>15 DEF TestPanic, Core1At, Core1Goes, panicVars, PanicInv
  <2>2. AskedOnce' /\ AnswerIsTrue' /\ WaitsForAnswer'
    BY <1>15 DEF TestPanic, Core1At, Core1Goes, panicVars, PanicInv, AskedOnce, AnswerIsTrue, WaitsForAnswer
  <2>3. WaitAccounted'
    BY <1>15 DEF TestPanic, Core1At, Core1Goes, panicVars, PanicInv, AskedOnce, WaitAccounted, PumpedFor, Heard
  <2> QED
    BY <2>1, <2>2, <2>3 DEF PanicInv
<1>16. CASE DrainPanic
  BY <1>16 DEF DrainPanic, Core1At, Core1Goes, PanicInv, PanicTypes, Core1Places, MainLoop, Left, AskedOnce, AnswerIsTrue, WaitsForAnswer, WaitAccounted, PumpedFor, Heard, panicVars
<1>17. CASE Service
  <2>1. PanicTypes'
    BY <1>17 DEF Service, Core1At, Core1Goes, Sweep, Writes, panicVars, PanicInv
  <2>2. AskedOnce' /\ AnswerIsTrue' /\ WaitsForAnswer'
    BY <1>17 DEF Service, Core1At, Core1Goes, Sweep, Writes, panicVars, PanicInv, AskedOnce, AnswerIsTrue, WaitsForAnswer
  <2>3. WaitAccounted'
    BY <1>17 DEF Service, Core1At, Core1Goes, Sweep, Writes, panicVars, PanicInv, AskedOnce, WaitAccounted, PumpedFor, Heard
  <2> QED
    BY <2>1, <2>2, <2>3 DEF PanicInv
<1>18. CASE ConsoleIdle
  BY <1>18 DEF ConsoleIdle, Core1At, Core1Goes, PanicInv, PanicTypes, Core1Places, MainLoop, Left, AskedOnce, AnswerIsTrue, WaitsForAnswer, WaitAccounted, PumpedFor, Heard, panicVars
<1>19. CASE ConsoleKey
  <2>1. PanicTypes'
    BY <1>19 DEF ConsoleKey, Core1At, Core1Goes, Writes, panicVars, PanicInv
  <2>2. AskedOnce' /\ AnswerIsTrue' /\ WaitsForAnswer'
    BY <1>19 DEF ConsoleKey, Core1At, Core1Goes, Writes, panicVars, PanicInv, AskedOnce, AnswerIsTrue, WaitsForAnswer
  <2>3. WaitAccounted'
    BY <1>19 DEF ConsoleKey, Core1At, Core1Goes, Writes, panicVars, PanicInv, AskedOnce, WaitAccounted, PumpedFor, Heard
  <2> QED
    BY <2>1, <2>2, <2>3 DEF PanicInv
<1>20. CASE ConsoleEnter
  <2>1. PanicTypes'
    BY <1>20 DEF ConsoleEnter, Core1At, Core1Goes, Writes, panicVars, PanicInv
  <2>2. AskedOnce' /\ AnswerIsTrue' /\ WaitsForAnswer'
    BY <1>20 DEF ConsoleEnter, Core1At, Core1Goes, Writes, panicVars, PanicInv, AskedOnce, AnswerIsTrue, WaitsForAnswer
  <2>3. WaitAccounted'
    BY <1>20 DEF ConsoleEnter, Core1At, Core1Goes, Writes, panicVars, PanicInv, AskedOnce, WaitAccounted, PumpedFor, Heard
  <2> QED
    BY <2>1, <2>2, <2>3 DEF PanicInv
<1>21. CASE ConsoleFull
  <2>1. PanicTypes'
    BY <1>21 DEF ConsoleFull, Core1At, Core1Goes, Writes, panicVars, PanicInv
  <2>2. AskedOnce' /\ AnswerIsTrue' /\ WaitsForAnswer'
    BY <1>21 DEF ConsoleFull, Core1At, Core1Goes, Writes, panicVars, PanicInv, AskedOnce, AnswerIsTrue, WaitsForAnswer
  <2>3. WaitAccounted'
    BY <1>21 DEF ConsoleFull, Core1At, Core1Goes, Writes, panicVars, PanicInv, AskedOnce, WaitAccounted, PumpedFor, Heard
  <2> QED
    BY <2>1, <2>2, <2>3 DEF PanicInv
<1>22. CASE ConsoleAdd
  BY <1>22 DEF ConsoleAdd, Core1At, Core1Goes, PanicInv, PanicTypes, Core1Places, MainLoop, Left, AskedOnce, AnswerIsTrue, WaitsForAnswer, WaitAccounted, PumpedFor, Heard, panicVars
<1>23. CASE FinalDrain
  <2>1. PanicTypes'
    BY <1>23 DEF FinalDrain, Core1At, Core1Goes, Sweep, Writes, panicVars, PanicInv
  <2>2. AskedOnce' /\ AnswerIsTrue' /\ WaitsForAnswer'
    BY <1>23 DEF FinalDrain, Core1At, Core1Goes, Sweep, Writes, panicVars, PanicInv, AskedOnce, AnswerIsTrue, WaitsForAnswer
  <2>3. WaitAccounted'
    BY <1>23 DEF FinalDrain, Core1At, Core1Goes, Sweep, Writes, panicVars, PanicInv, AskedOnce, WaitAccounted, PumpedFor, Heard
  <2> QED
    BY <2>1, <2>2, <2>3 DEF PanicInv
<1>24. CASE SignalFinished
  BY <1>24 DEF SignalFinished, Core1At, Core1Goes, PanicInv, PanicTypes, Core1Places, MainLoop, Left, AskedOnce, AnswerIsTrue, WaitsForAnswer, WaitAccounted, PumpedFor, Heard, panicVars
<1>25. CASE PanicOnCore1
  BY <1>25 DEF PanicOnCore1, Core1Goes, PanicInv, PanicTypes, Core1Places, MainLoop, Left, AskedOnce, AnswerIsTrue, WaitsForAnswer, WaitAccounted, PumpedFor, Heard, panicVars
<1>26. CASE Tick
  <2>1. PanicTypes'
    BY <1>26 DEF Tick, PanicInv
  <2>2. AskedOnce' /\ AnswerIsTrue' /\ WaitsForAnswer'
    BY <1>26 DEF Tick, PanicInv, AskedOnce, AnswerIsTrue, WaitsForAnswer
  <2>3. WaitAccounted'
    <3>1. /\ core1' = core1 /\ onWire' = onWire /\ lockHeld' = lockHeld
          /\ busy \in Nat /\ waited \in Nat /\ lag \in Nat /\ PumpTime \in Nat
          /\ busy' = IF busy > 0 THEN busy - 1 ELSE 0
      BY <1>26 DEF Tick, PanicInv
    <3>2. CASE Heard
      BY <3>1, <3>2 DEF WaitAccounted, Heard
    <3>3. CASE ~Heard /\ waited' = waited /\ lag' = lag
      BY <3>1, <3>3 DEF PanicInv, WaitAccounted, PumpedFor, Heard
    <3>4. CASE ~Heard /\ ~(waited' = waited /\ lag' = lag)
      <4>1. /\ waited' = waited + 1
            /\ lag' = IF busy > (IF core1 = "printed" THEN PumpTime ELSE 0) THEN lag + 1 ELSE lag
        BY <1>26, <3>4 DEF Tick
      <4>2. busy > 0
        BY <1>26, <3>4 DEF Tick, Spent, Barred, PanicInv, AnswerIsTrue, Heard
      <4>3. waited - lag <= PumpedFor
        BY <3>4 DEF PanicInv, WaitAccounted
      <4> QED
        BY <3>1, <4>1, <4>2, <4>3 DEF WaitAccounted, PumpedFor
    <3> QED
      BY <3>2, <3>3, <3>4
  <2> QED
    BY <2>1, <2>2, <2>3 DEF PanicInv
<1>27. CASE UNCHANGED usbVars
  BY <1>27 DEF usbVars, PanicInv, PanicTypes, Core1Places, MainLoop, Left, AskedOnce, AnswerIsTrue, WaitsForAnswer, WaitAccounted, PumpedFor, Heard, panicVars
<1> QED
  BY <1>1, <1>2, <1>3, <1>4, <1>5, <1>6, <1>7, <1>8, <1>9, <1>10, <1>11, <1>12, <1>13, <1>14, <1>15, <1>16, <1>17, <1>18, <1>19, <1>20, <1>21, <1>22, <1>23, <1>24, <1>25, <1>26, <1>27 DEF UsbNext, Core0Next, Core1Next

-----------------------------------------------------------------------------
(* The lines of the console. *)

\* What the application has been given or will be, and the line core 1 is dealing with.
Delivered == taken \o lines
InHand == IF core1 \in {"test_room", "add"} THEN {typed} ELSE {}

Ascending(s) == \A i, j \in DOMAIN s : i < j => s[i] < s[j]

Accounted(s, hand) ==
    /\ Ascending(s)
    /\ ToSet(s) \intersect (dropped \union hand) = {}
    /\ core1 # "panicked" => ToSet(s) \union dropped \union hand = 1..typed

\* ConsoleLinesKept, said of the two.
LEMMA LinesKept ==
    ConsoleLinesKept <=> Accounted(Delivered, InHand) /\ (core1 = "add" => Len(lines) < QueueDepth)
  BY DEF ConsoleLinesKept, Accounted, Ascending, Delivered, InHand

\* A line added at the end is one more, and keeps the order if it is the latest.
LEMMA ToSetAppend ==
    ASSUME NEW s \in Seq(Nat), NEW n \in Nat
    PROVE  ToSet(Append(s, n)) = ToSet(s) \union {n}
<1> DEFINE a == Append(s, n)
<1>1. /\ DOMAIN a = 1..Len(s) + 1 /\ DOMAIN s = 1..Len(s) /\ Len(s) \in Nat
      /\ a[Len(s) + 1] = n /\ \A i \in 1..Len(s) : a[i] = s[i]
  OBVIOUS
<1> HIDE DEF a
<1>2. ASSUME NEW x PROVE x \in ToSet(a) <=> x \in ToSet(s) \/ x = n
  <2>1. x \in ToSet(a) <=> \E i \in 1..Len(s) + 1 : x = a[i]
    BY <1>1 DEF ToSet
  <2>2. x \in ToSet(s) <=> \E i \in 1..Len(s) : x = s[i]
    BY <1>1 DEF ToSet
  <2>3. \A i : i \in 1..Len(s) + 1 <=> i \in 1..Len(s) \/ i = Len(s) + 1
    BY <1>1
  <2>4. a[Len(s) + 1] = n /\ \A i \in 1..Len(s) : a[i] = s[i]
    BY <1>1
  <2> QED
    BY <2>1, <2>2, <2>3, <2>4, Zenon
<1> QED
  BY <1>2 DEF a

LEMMA AscendingAppend ==
    ASSUME NEW s \in Seq(Nat), NEW n \in Nat, Ascending(s), \A m \in ToSet(s) : m < n
    PROVE  Ascending(Append(s, n))
<1> DEFINE a == Append(s, n)
<1>1. /\ DOMAIN a = 1..Len(s) + 1 /\ DOMAIN s = 1..Len(s) /\ Len(s) \in Nat
      /\ a[Len(s) + 1] = n /\ \A i \in 1..Len(s) : a[i] = s[i]
  OBVIOUS
<1>2. \A i \in 1..Len(s) : s[i] < n
  BY <1>1 DEF ToSet
<1> QED
  BY <1>1, <1>2 DEF Ascending

\* A line taken moves from one queue to the other, a line added ends the second.
LEMMA TakeMoves ==
    ASSUME NEW s \in Seq(Nat), NEW t \in Seq(Nat), t # <<>>
    PROVE  /\ Append(s, Head(t)) \o Tail(t) = s \o t
           /\ Append(s, Head(t)) \in Seq(Nat) /\ Tail(t) \in Seq(Nat) /\ Len(Tail(t)) = Len(t) - 1
<1> DEFINE a == Append(s, Head(t))
           b == Tail(t)
<1>1. /\ Head(t) = t[1] /\ Head(t) \in Nat /\ Len(t) \in Nat \ {0} /\ Len(s) \in Nat
      /\ b \in Seq(Nat) /\ Len(b) = Len(t) - 1 /\ \A i \in 1..Len(b) : b[i] = t[i + 1]
  OBVIOUS
<1>2. /\ a \in Seq(Nat) /\ Len(a) = Len(s) + 1 /\ a[Len(s) + 1] = t[1]
      /\ \A i \in 1..Len(s) : a[i] = s[i]
  BY <1>1
<1>3. a \o b \in Seq(Nat) /\ s \o t \in Seq(Nat) /\ Len(a \o b) = Len(s) + Len(t) /\ Len(s \o t) = Len(s) + Len(t)
  BY <1>1, <1>2
<1>4. ASSUME NEW i \in 1..Len(s) + Len(t)
      PROVE  (a \o b)[i] = (s \o t)[i]
  <2>1. CASE i <= Len(s)
    BY <1>1, <1>2, <2>1
  <2>2. CASE i = Len(s) + 1
    BY <1>1, <1>2, <2>2
  <2>3. CASE i > Len(s) + 1
    <3>1. (a \o b)[i] = b[i - (Len(s) + 1)] /\ (s \o t)[i] = t[i - Len(s)]
      BY <1>1, <1>2, <2>3
    <3>2. i - (Len(s) + 1) \in 1..Len(b) /\ (i - (Len(s) + 1)) + 1 = i - Len(s)
      BY <1>1, <2>3
    <3> QED
      BY <1>1, <3>1, <3>2
  <2> QED
    BY <1>1, <2>1, <2>2, <2>3
<1> HIDE DEF a, b
<1>5. a \o b = s \o t
  <2> DEFINE u == a \o b
             v == s \o t
  <2>1. u \in Seq(Nat) /\ v \in Seq(Nat) /\ Len(u) = Len(v) /\ \A i \in 1..Len(u) : u[i] = v[i]
    BY <1>3, <1>4
  <2> HIDE DEF u, v
  <2>2. u = v
    BY <2>1, SeqEqual
  <2> QED
    BY <2>2 DEF u, v
<1> QED
  BY <1>1, <1>2, <1>5 DEF a, b

\* Nothing has been typed yet.
LEMMA ConsoleInvInit ==
    ASSUME UsbInit
    PROVE  ConsoleInv
<1>1. ConsoleTypes
  BY DEF UsbInit, ConsoleTypes, Core1Places
<1>2. Delivered = <<>> /\ ToSet(<<>>) = {} /\ DOMAIN <<>> = {}
  BY DEF UsbInit, Delivered, ToSet
<1>3. Accounted(<<>>, {})
  BY <1>2 DEF UsbInit, Accounted, Ascending
<1> QED
  BY <1>1, <1>2, <1>3, LinesKept DEF UsbInit, ConsoleInv, BootFirst, HandNotDropped, InHand

\* Only the launch takes core 0 out of boot and core 1 out of reset at once.
LEMMA BootFirstStep ==
    ASSUME BootFirst, [UsbNext]_usbVars
    PROVE  BootFirst'
<1>1. CASE UNCHANGED usbVars
  BY <1>1 DEF usbVars, BootFirst
<1>2. CASE Core0Next
  BY <1>2 DEF Core0Next, BootFirst, WorkerLaunch, PlatformUp, StreamsUp, Log, RoomSeen,
              RoomClear, Retry, ClaimSlot, TakeLine, SignalStop, WorkerJoin, Panic, PanicReboot
<1>3. CASE Tick
  BY <1>3 DEF Tick, BootFirst
<1>4. CASE Core1Next
  <2>1. core1 # "reset"
    BY <1>4 DEF Core1Next, UsbInitCore1, TestStop, TestPanic, DrainPanic, Service, ConsoleIdle,
                ConsoleKey, ConsoleEnter, ConsoleFull, ConsoleAdd, FinalDrain, SignalFinished,
                PanicOnCore1, Core1At, MainLoop
  <2>2. core0' = core0 \/ core0' = "rebooted"
    BY <1>4 DEF Core1Next, UsbInitCore1, TestStop, TestPanic, DrainPanic, Service, ConsoleIdle,
                ConsoleKey, ConsoleEnter, ConsoleFull, ConsoleAdd, FinalDrain, SignalFinished,
                PanicOnCore1, Sweep
  <2> QED
    BY <2>1, <2>2 DEF BootFirst
<1> QED
  BY <1>1, <1>2, <1>3, <1>4 DEF UsbNext

\* Nothing happens to the lines in a step that leaves them and does not look at them.
Untouched ==
    /\ UNCHANGED <<typed, lines, dropped, taken>>
    /\ core1' \in Core1Places
    /\ \/ core1' = core1
       \/ core1 # "panicked" /\ core1 \notin {"test_room", "add"} /\ core1' \notin {"test_room", "add"}
       \/ core1' = "panicked"

LEMMA UntouchedKeeps ==
    ASSUME ConsoleInv, Untouched, BootFirst'
    PROVE  ConsoleInv'
<1>1. ConsoleTypes'
  BY DEF ConsoleInv, ConsoleTypes, Untouched
<1>2. Delivered' = Delivered
  BY DEF Delivered, Untouched
<1>3. Accounted(Delivered, InHand) /\ (core1 = "add" => Len(lines) < QueueDepth)
  BY LinesKept DEF ConsoleInv
<1>4. Accounted(Delivered, InHand)' /\ (core1' = "add" => Len(lines') < QueueDepth)
  BY <1>2, <1>3 DEF Accounted, InHand, Untouched
<1>5. ConsoleLinesKept'
  BY <1>4 DEF ConsoleLinesKept, Accounted, Ascending, Delivered, InHand
<1>6. HandNotDropped'
  BY DEF ConsoleInv, HandNotDropped, Untouched
<1> QED
  BY <1>1, <1>5, <1>6 DEF ConsoleInv

\* A completed line goes from core 1's hand to the queue or among the dropped, and from
\* the queue to the application.
LEMMA ConsoleInvStep ==
    ASSUME ConsoleInv, [UsbNext]_usbVars
    PROVE  ConsoleInv'
<1>0. BootFirst'
  BY BootFirstStep DEF ConsoleInv
<1>1. CASE WorkerLaunch
  BY <1>0, <1>1, UntouchedKeeps DEF BootFirst, WorkerLaunch, Untouched, ConsoleInv, ConsoleTypes, Core1Places, MainLoop, Left, consoleVars
<1>2. CASE PlatformUp
  BY <1>0, <1>2, UntouchedKeeps DEF PlatformUp, Untouched, ConsoleInv, ConsoleTypes, Core1Places, MainLoop, Left, consoleVars
<1>3. CASE StreamsUp
  BY <1>0, <1>3, UntouchedKeeps DEF StreamsUp, Untouched, ConsoleInv, ConsoleTypes, Core1Places, MainLoop, Left, consoleVars
<1>4. CASE Log
  BY <1>0, <1>4, UntouchedKeeps DEF Log, ClaimSlot, Untouched, ConsoleInv, ConsoleTypes, Core1Places, MainLoop, Left, consoleVars
<1>5. CASE RoomSeen
  BY <1>0, <1>5, UntouchedKeeps DEF RoomSeen, Untouched, ConsoleInv, ConsoleTypes, Core1Places, MainLoop, Left, consoleVars
<1>6. CASE RoomClear
  BY <1>0, <1>6, UntouchedKeeps DEF RoomClear, Untouched, ConsoleInv, ConsoleTypes, Core1Places, MainLoop, Left, consoleVars
<1>7. CASE Retry
  BY <1>0, <1>7, UntouchedKeeps DEF Retry, ClaimSlot, Untouched, ConsoleInv, ConsoleTypes, Core1Places, MainLoop, Left, consoleVars
<1>8. CASE TakeLine
  <2>1. /\ taken \in Seq(Nat) /\ lines \in Seq(Nat) /\ lines # <<>>
        /\ taken' = Append(taken, Head(lines)) /\ lines' = Tail(lines)
        /\ core1' = core1 /\ typed' = typed /\ dropped' = dropped
    BY <1>8 DEF TakeLine, ConsoleInv, ConsoleTypes
  <2>2. /\ taken' \in Seq(Nat) /\ lines' \in Seq(Nat) /\ Len(lines') = Len(lines) - 1
        /\ Delivered' = Delivered
    BY <2>1, TakeMoves DEF Delivered
  <2>3. ConsoleTypes'
    BY <2>1, <2>2 DEF ConsoleInv, ConsoleTypes
  <2>4. Accounted(Delivered, InHand) /\ (core1 = "add" => Len(lines) < QueueDepth)
    BY LinesKept DEF ConsoleInv
  <2>5. Accounted(Delivered, InHand)'
    BY <2>1, <2>2, <2>4 DEF Accounted, InHand
  <2>6. core1' = "add" => Len(lines') < QueueDepth
    BY <2>1, <2>2, <2>4
  <2>7. ConsoleLinesKept'
    BY <2>5, <2>6 DEF ConsoleLinesKept, Accounted, Ascending, Delivered, InHand
  <2>8. HandNotDropped'
    BY <2>1 DEF ConsoleInv, HandNotDropped
  <2> QED
    BY <1>0, <2>3, <2>7, <2>8 DEF ConsoleInv
<1>9. CASE SignalStop
  BY <1>0, <1>9, UntouchedKeeps DEF SignalStop, Untouched, ConsoleInv, ConsoleTypes, Core1Places, MainLoop, Left, consoleVars
<1>10. CASE WorkerJoin
  BY <1>0, <1>10, UntouchedKeeps DEF WorkerJoin, Untouched, ConsoleInv, ConsoleTypes, Core1Places, MainLoop, Left, consoleVars
<1>11. CASE Panic
  BY <1>0, <1>11, UntouchedKeeps DEF Panic, Untouched, ConsoleInv, ConsoleTypes, Core1Places, MainLoop, Left, consoleVars
<1>12. CASE PanicReboot
  BY <1>0, <1>12, UntouchedKeeps DEF PanicReboot, Untouched, ConsoleInv, ConsoleTypes, Core1Places, MainLoop, Left, consoleVars
<1>13. CASE UsbInitCore1
  BY <1>0, <1>13, UntouchedKeeps DEF UsbInitCore1, Core1At, Core1Goes, Untouched, ConsoleInv, ConsoleTypes, Core1Places, MainLoop, Left, consoleVars
<1>14. CASE TestStop
  BY <1>0, <1>14, UntouchedKeeps DEF TestStop, Core1At, Core1Goes, Untouched, ConsoleInv, ConsoleTypes, Core1Places, MainLoop, Left, consoleVars
<1>15. CASE TestPanic
  BY <1>0, <1>15, UntouchedKeeps DEF TestPanic, Core1At, Core1Goes, Untouched, ConsoleInv, ConsoleTypes, Core1Places, MainLoop, Left, consoleVars
<1>16. CASE DrainPanic
  BY <1>0, <1>16, UntouchedKeeps DEF DrainPanic, Core1At, Core1Goes, Untouched, ConsoleInv, ConsoleTypes, Core1Places, MainLoop, Left, consoleVars
<1>17. CASE Service
  BY <1>0, <1>17, UntouchedKeeps DEF Service, Core1At, Core1Goes, Sweep, Writes, Untouched, ConsoleInv, ConsoleTypes, Core1Places, MainLoop, Left, consoleVars
<1>18. CASE ConsoleIdle
  BY <1>0, <1>18, UntouchedKeeps DEF ConsoleIdle, Core1At, Core1Goes, Untouched, ConsoleInv, ConsoleTypes, Core1Places, MainLoop, Left, consoleVars
<1>19. CASE ConsoleKey
  BY <1>0, <1>19, UntouchedKeeps DEF ConsoleKey, Core1At, Core1Goes, Writes, Untouched, ConsoleInv, ConsoleTypes, Core1Places, MainLoop, Left, consoleVars
<1>20. CASE ConsoleEnter
  <2>1. /\ core1 = "console" /\ core1' = "test_room" /\ typed' = typed + 1
        /\ UNCHANGED <<lines, dropped, taken>>
    BY <1>20 DEF ConsoleEnter, Core1At, Core1Goes
  <2>2. ConsoleTypes'
    BY <1>20, <2>1 DEF ConsoleEnter, Core1At, Core1Goes, ConsoleInv, ConsoleTypes, Core1Places, MainLoop
  <2>3. Accounted(Delivered, InHand)
    BY LinesKept DEF ConsoleInv
  <2>4. Delivered' = Delivered /\ typed \in Nat
    BY <2>1 DEF Delivered, ConsoleInv, ConsoleTypes
  <2>5. ToSet(Delivered) \union dropped = 1..typed
    BY <2>1, <2>3 DEF Accounted, InHand
  <2>6. Accounted(Delivered, InHand)'
    BY <2>1, <2>3, <2>4, <2>5 DEF Accounted, InHand
  <2>7. ConsoleLinesKept'
    BY <2>1, <2>2, <2>6 DEF ConsoleLinesKept, Accounted, Ascending, Delivered, InHand, ConsoleTypes
  <2>8. HandNotDropped'
    BY <2>1, <2>4, <2>5 DEF HandNotDropped
  <2> QED
    BY <1>0, <2>2, <2>7, <2>8 DEF ConsoleInv
<1>21. CASE ConsoleFull
  <2>1. /\ core1 = "test_room" /\ UNCHANGED <<typed, lines, taken>>
        /\ \/ core1' = "console" /\ dropped' = dropped \union {typed}
           \/ core1' = "add" /\ dropped' = dropped /\ Len(lines) # QueueDepth
    BY <1>21 DEF ConsoleFull, Core1At, Core1Goes
  <2>2. ConsoleTypes'
    BY <1>21, <2>1 DEF ConsoleFull, Core1At, Core1Goes, ConsoleInv, ConsoleTypes, Core1Places, MainLoop
  <2>3. Accounted(Delivered, InHand)
    BY LinesKept DEF ConsoleInv
  <2>4. Delivered' = Delivered
    BY <2>1 DEF Delivered
  <2>5. core1' = "add" => Len(lines') < QueueDepth
    BY <2>1 DEF ConsoleInv, ConsoleTypes
  <2>6. Accounted(Delivered, InHand)'
    BY <2>1, <2>3, <2>4 DEF Accounted, InHand
  <2>7. ConsoleLinesKept'
    BY <2>1, <2>2, <2>5, <2>6 DEF ConsoleLinesKept, Accounted, Ascending, Delivered, InHand, ConsoleTypes
  <2>8. HandNotDropped'
    BY <2>1 DEF ConsoleInv, HandNotDropped
  <2> QED
    BY <1>0, <2>2, <2>7, <2>8 DEF ConsoleInv
<1>22. CASE ConsoleAdd
  <2>1. /\ core1 = "add" /\ core1' = "console" /\ lines' = Append(lines, typed)
        /\ Len(lines) < QueueDepth /\ UNCHANGED <<typed, dropped, taken>>
        /\ taken \in Seq(Nat) /\ lines \in Seq(Nat) /\ typed \in Nat
    BY <1>22 DEF ConsoleAdd, Core1At, Core1Goes, ConsoleInv, ConsoleTypes
  <2>2. ConsoleTypes'
    BY <2>1 DEF ConsoleInv, ConsoleTypes, Core1Places, MainLoop
  <2>3. Accounted(Delivered, InHand)
    BY LinesKept DEF ConsoleInv
  <2>4. Delivered' = Append(Delivered, typed) /\ Delivered \in Seq(Nat)
    <3>1. AddsBehind(taken, lines, typed)
      BY <2>1, AddExtends
    <3> QED
      BY <2>1, <3>1 DEF Delivered, AddsBehind
  <2>5. /\ Ascending(Delivered) /\ ToSet(Delivered) \intersect (dropped \union {typed}) = {}
        /\ ToSet(Delivered) \union dropped \union {typed} = 1..typed
    BY <2>1, <2>3 DEF Accounted, InHand
  <2>6. Accounted(Delivered, InHand)'
    <3>1. \A m \in ToSet(Delivered) : m < typed
      BY <2>1, <2>5
    <3>2. Ascending(Delivered')
      BY <2>1, <2>4, <2>5, <3>1, AscendingAppend
    <3>3. ToSet(Delivered') = ToSet(Delivered) \union {typed}
      BY <2>1, <2>4, ToSetAppend
    <3>4. typed \notin dropped
      BY <2>1 DEF ConsoleInv, HandNotDropped
    <3> QED
      BY <2>1, <2>5, <3>2, <3>3, <3>4 DEF Accounted, InHand
  <2>7. ConsoleLinesKept'
    BY <2>1, <2>2, <2>6 DEF ConsoleLinesKept, Accounted, Ascending, Delivered, InHand, ConsoleTypes
  <2>8. HandNotDropped'
    BY <2>1 DEF ConsoleInv, HandNotDropped
  <2> QED
    BY <1>0, <2>2, <2>7, <2>8 DEF ConsoleInv
<1>23. CASE FinalDrain
  BY <1>0, <1>23, UntouchedKeeps DEF FinalDrain, Core1At, Core1Goes, Sweep, Writes, Untouched, ConsoleInv, ConsoleTypes, Core1Places, MainLoop, Left, consoleVars
<1>24. CASE SignalFinished
  BY <1>0, <1>24, UntouchedKeeps DEF SignalFinished, Core1At, Core1Goes, Untouched, ConsoleInv, ConsoleTypes, Core1Places, MainLoop, Left, consoleVars
<1>25. CASE PanicOnCore1
  BY <1>0, <1>25, UntouchedKeeps DEF PanicOnCore1, Core1Goes, Untouched, ConsoleInv, ConsoleTypes, Core1Places, MainLoop, Left, consoleVars
<1>26. CASE Tick
  BY <1>0, <1>26, UntouchedKeeps DEF Tick, Untouched, ConsoleInv, ConsoleTypes, Core1Places, MainLoop, Left, consoleVars
<1>27. CASE UNCHANGED usbVars
  BY <1>0, <1>27, UntouchedKeeps DEF usbVars, Untouched, consoleVars, ConsoleInv, ConsoleTypes
<1> QED
  BY <1>1, <1>2, <1>3, <1>4, <1>5, <1>6, <1>7, <1>8, <1>9, <1>10, <1>11, <1>12, <1>13, <1>14, <1>15, <1>16, <1>17, <1>18, <1>19, <1>20, <1>21, <1>22, <1>23, <1>24, <1>25, <1>26, <1>27 DEF UsbNext, Core0Next, Core1Next

-----------------------------------------------------------------------------
(* The theorems. *)

\* PanicInv and ConsoleInv hold in every reachable state.
THEOREM PanicInvariance == UsbSpec => []PanicInv
  BY PanicInvInit, PanicInvStep, PTL DEF UsbSpec

\* The same for the console.
THEOREM ConsoleInvariance == UsbSpec => []ConsoleInv
  BY ConsoleInvInit, ConsoleInvStep, PTL DEF UsbSpec

\* A panic of core 0 is read by the host before the chip reboots, for every time-out
\* that leaves room for the pump, unless one of the four excuses of PanicMessageOut holds.
THEOREM PanicIsHeard == UsbSpec => []PanicMessageOut
<1>1. PanicInv => PanicMessageOut
  <2> SUFFICES ASSUME PanicInv, core0 = "rebooted", panicPending, ~Heard
               PROVE  lag + PumpTime >= HandoffTimeout
    BY DEF PanicMessageOut, Heard
  <2>1. waited = HandoffTimeout
    BY DEF PanicInv, WaitsForAnswer, AnswerIsTrue, Heard
  <2>2. waited - lag <= PumpedFor
    BY DEF PanicInv, WaitAccounted
  <2>3. PumpedFor <= PumpTime
    BY DEF PumpedFor, PanicInv, PanicTypes
  <2> QED
    BY <2>1, <2>2, <2>3 DEF PumpedFor, PanicInv, PanicTypes
<1> QED
  BY <1>1, PanicInvariance, PTL

\* Every completed line is delivered in order or announced as dropped, for any depth of
\* the console queue, and core 1 never waits for room in it.
THEOREM LinesAccountedFor == UsbSpec => []ConsoleLinesKept
<1>1. ConsoleInv => ConsoleLinesKept
  BY DEF ConsoleInv
<1> QED
  BY <1>1, ConsoleInvariance, PTL

\* What core 0 entrusts to core 1 is not lost.
THEOREM NothingLostBetweenCores == UsbSpec => []UsbLosesNothing
<1>1. PanicMessageOut /\ ConsoleLinesKept => UsbLosesNothing
  BY DEF UsbLosesNothing
<1> QED
  BY <1>1, PanicIsHeard, LinesAccountedFor, PTL
================================================================================
