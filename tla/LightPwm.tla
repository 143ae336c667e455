------------------------------- MODULE LightPwm -------------------------------
(***************************************************************************)
(* PWM outputs of light_platform, and on RP2 the streaming of samples into *)
(* a compare register by DMA.                                              *)
(*                                                                         *)
(* A pin belongs to one channel of a block (an RP2 slice, an STM32 timer)  *)
(* that other pins use too.  Wrap, divider and enable are the block's; the *)
(* compare level is the channel's.  open() asks nobody whether pin or      *)
(* block are taken.  A stream claims a DMA channel and a pacing timer when *)
(* it first needs them, from pools that other drivers draw on; they are    *)
(* given back by close().  The DMA engine runs between any two calls.      *)
(***************************************************************************)
EXTENDS Integers, FiniteSets, Platform

CONSTANTS
    PwmPins, Block, Channel,    \* Block[p], Channel[p]: what pin p is wired to
    MaxPwms,                    \* LP_PWM_MAX_INSTANCES, PWM_MAX_INSTANCES
    DmaChannels, PacingTimers,  \* the two pools of an RP2
    Wraps, Dividers,            \* what callers pass to configure()
    MaxDivider,                 \* the largest divider configure() takes (255)
    MaxPrescale,                \* the largest set_frequency() of STM32 goes to (0x10000)
    PwmSourceHz, AskedHz        \* the clock of the blocks, what callers ask for

None == "none"

ASSUME PwmAssumption ==
    /\ None \notin PwmPins \union DmaChannels \union PacingTimers
    /\ DmaChannels \intersect PacingTimers = {}
    /\ MaxPwms \in Nat \ {0} /\ MaxDivider \in Nat \ {0}
    /\ MaxPrescale \in Nat /\ MaxDivider <= MaxPrescale
    /\ Wraps \subseteq Nat /\ Dividers \subseteq 0..MaxDivider
    /\ PwmSourceHz \in Nat /\ AskedHz \subseteq Nat \ {0}

DacWrap == 255
DacDivider == 1
Silence == 128

Pwms == 1..MaxPwms
Blocks == {Block[p] : p \in PwmPins}
Channels == {Channel[p] : p \in PwmPins}

VARIABLES
    pwms,               \* the table of instances
    blocks,             \* blocks[b]: wrap, divider, whether it counts
    level,              \* level[b][c]: the compare register of a channel
    drives,             \* drives[p]: "block" while the pin shows its channel
    claims,             \* DMA channels and pacing timers somebody has claimed
    streams,            \* streams[d]: what DMA channel d is doing
    rest,               \* instances stopped, alone on their channel, and not called since
    returned            \* returned[b]: the frequency last returned for b, or 0

pwmVars == <<pwms, blocks, level, drives, claims, streams, rest, returned>>

Idle == [busy |-> FALSE, pin |-> None, timer |-> None]
InUse == {i \in Pwms : pwms[i].inUse}
PinBlock(i) == Block[pwms[i].pin]
PinChannel(i) == Channel[pwms[i].pin]
SharesBlock(i) == {j \in InUse : PinBlock(j) = PinBlock(i)}
SetLevel(i, v) == [level EXCEPT ![PinBlock(i)][PinChannel(i)] = v]

\* What a caller who holds r may use of a pool: r, or anything that is free.
Candidates(pool, r) == IF r # None THEN {r} ELSE {x \in pool : claims[x] = "free"}

-------------------------------------------------------------------------------
\* light_platform_pwm_open(): the first free instance, whatever else uses the
\* pin; the STM32 instance starts from wrap 0 and its level is left as it was.
FirstFree == CHOOSE i \in Pwms \ InUse : \A j \in Pwms \ InUse : i <= j

Rp2Open(p) ==
    /\ pwms' = [pwms EXCEPT ![FirstFree] =
                    [@ EXCEPT !.inUse = TRUE, !.pin = p, !.dma = None, !.timer = None]]
    /\ drives' = [drives EXCEPT ![p] = "block"]

StmOpen(p) ==
    /\ pwms' = [pwms EXCEPT ![FirstFree] = [@ EXCEPT !.inUse = TRUE, !.pin = p, !.wrap = 0]]
    /\ drives' = [drives EXCEPT ![p] = "block"]

\* The host answers NULL, and so does a table that is full.
Open(p) ==
    /\ InUse # Pwms
    /\ \/ platform = "rp2" /\ Rp2Open(p)
       \/ platform \in {"h7", "f4"} /\ StmOpen(p)
    /\ rest' = rest \ {FirstFree}
    /\ UNCHANGED <<blocks, level, claims, streams, returned>>

\* light_platform_pwm_configure() of the RP2: pwm_init() clears both compare
\* registers of the slice and starts it.
Rp2Configured(i, wrap, clkdiv) ==
    /\ blocks' = [blocks EXCEPT ![PinBlock(i)] =
                    [wrap |-> wrap, div |-> IF clkdiv < 1 THEN 1 ELSE clkdiv, on |-> TRUE]]
    /\ level' = [level EXCEPT ![PinBlock(i)] = [c \in Channels |-> 0]]
    /\ drives' = [drives EXCEPT ![pwms[i].pin] = "block"]
    /\ rest' = rest \ SharesBlock(i)

Rp2Configure(i, wrap, clkdiv) ==
    Rp2Configured(i, wrap, clkdiv) /\ UNCHANGED <<pwms, claims, streams>>

\* The same of the STM32: the channel's own level only, clamped by set_duty()
\* to the wrap just written, and the timer's outputs switched on.
StmConfigure(i, wrap, clkdiv) ==
    /\ blocks' = [blocks EXCEPT ![PinBlock(i)] =
                    [wrap |-> wrap, div |-> IF clkdiv > 0 THEN clkdiv ELSE 1, on |-> TRUE]]
    /\ level' = SetLevel(i, 0)
    /\ drives' = [drives EXCEPT ![pwms[i].pin] = "block"]
    /\ pwms' = [pwms EXCEPT ![i].wrap = wrap]
    /\ UNCHANGED <<claims, streams, rest>>

Configure(i) ==
    /\ i \in InUse
    /\ \E wrap \in Wraps, clkdiv \in Dividers :
        \/ platform = "rp2" /\ Rp2Configure(i, wrap, clkdiv)
        \/ platform \in {"h7", "f4"} /\ StmConfigure(i, wrap, clkdiv)
    /\ returned' = [returned EXCEPT ![PinBlock(i)] = 0]

Clamp(n, low, high) == IF n < low THEN low ELSE IF n > high THEN high ELSE n

\* One period is div * (wrap + 1) clocks.
Rate(div, wrap) == PwmSourceHz \div (div * (wrap + 1))

\* light_platform_pwm_set_frequency(): the divider nearest to what was asked,
\* within 8 bits, and the frequency that divider gives.
Rp2Divider(hz, period) ==
    Clamp((PwmSourceHz + (hz * period) \div 2) \div (hz * period), 1, MaxDivider)

Rp2SetFrequency(i, hz, wrap) ==
    LET div == Rp2Divider(hz, wrap + 1)
    IN  /\ Rp2Configure(i, wrap, div)
        /\ returned' = [returned EXCEPT ![PinBlock(i)] = Rate(div, wrap)]

\* STM32 works a divider out within 17 bits and returns what that one would
\* give, but configure() takes 8 bits and is passed no more.
StmDivider(hz, period) == Clamp(PwmSourceHz \div (period * hz), 1, MaxPrescale)

StmSetFrequency(i, hz, wrap) ==
    LET div == StmDivider(hz, wrap + 1)
    IN  /\ StmConfigure(i, wrap, Clamp(div, 1, MaxDivider))
        /\ returned' = [returned EXCEPT ![PinBlock(i)] = Rate(div, wrap)]

SetFrequency(i) ==
    /\ i \in InUse
    /\ \E hz \in AskedHz, wrap \in Wraps :
        \/ platform = "rp2" /\ Rp2SetFrequency(i, hz, wrap)
        \/ platform \in {"h7", "f4"} /\ StmSetFrequency(i, hz, wrap)

\* light_platform_pwm_set_duty()
StmClampedDuty(i, duty) == IF duty > pwms[i].wrap THEN pwms[i].wrap ELSE duty

SetDuty(i) ==
    /\ i \in InUse
    /\ \E duty \in Wraps :
        level' = SetLevel(i, IF platform = "rp2" THEN duty ELSE StmClampedDuty(i, duty))
    /\ rest' = rest \ SharesBlock(i)
    /\ UNCHANGED <<pwms, blocks, drives, claims, streams, returned>>

\* light_platform_pwm_set_enabled(), which is the block's on both chips.
Rp2SetEnabled(i, enabled) == blocks' = [blocks EXCEPT ![PinBlock(i)].on = enabled]
StmSetEnabled(i, enabled) == blocks' = [blocks EXCEPT ![PinBlock(i)].on = enabled]

SetEnabled(i) ==
    /\ i \in InUse
    /\ \E enabled \in BOOLEAN :
        \/ platform = "rp2" /\ Rp2SetEnabled(i, enabled)
        \/ platform \in {"h7", "f4"} /\ StmSetEnabled(i, enabled)
    /\ UNCHANGED <<pwms, level, drives, claims, streams, rest, returned>>

\* light_platform_pwm_release_pin(): RP2 stops the block too, STM32 does not.
Rp2ReleasePin(i) ==
    /\ blocks' = [blocks EXCEPT ![PinBlock(i)].on = FALSE]
    /\ drives' = [drives EXCEPT ![pwms[i].pin] = "gpio"]

StmReleasePin(i) ==
    /\ drives' = [drives EXCEPT ![pwms[i].pin] = "gpio"]
    /\ UNCHANGED blocks

ReleasePin(i) ==
    /\ i \in InUse
    /\ \/ platform = "rp2" /\ Rp2ReleasePin(i)
       \/ platform \in {"h7", "f4"} /\ StmReleasePin(i)
    /\ UNCHANGED <<pwms, level, claims, streams, rest, returned>>

-------------------------------------------------------------------------------
\* Streaming, on RP2 alone.

\* light_platform_pwm_stream_start(): a DMA channel first, kept from then on;
\* refused while it is busy; the block into DAC mode; then a pacing timer, and
\* without one the call fails with all of that done.
StreamStart(i) ==
    /\ i \in InUse /\ platform = "rp2"
    /\ \E d \in Candidates(DmaChannels, pwms[i].dma) :
        /\ ~streams[d].busy
        /\ Rp2Configured(i, DacWrap, DacDivider)
        /\ LET timers == Candidates(PacingTimers, pwms[i].timer)
           IN  \/ /\ timers = {}
                  /\ pwms' = [pwms EXCEPT ![i].dma = d]
                  /\ claims' = [claims EXCEPT ![d] = "pwm"]
                  /\ UNCHANGED streams
               \/ \E t \in timers :
                  /\ pwms' = [pwms EXCEPT ![i].dma = d, ![i].timer = t]
                  /\ claims' = [claims EXCEPT ![d] = "pwm", ![t] = "pwm"]
                  /\ streams' = [streams EXCEPT ![d] =
                                   [busy |-> TRUE, pin |-> pwms[i].pin, timer |-> t]]
    /\ returned' = [returned EXCEPT ![PinBlock(i)] = 0]

\* Mutant: closed or stopped without the abort.
LeftRunning(d) == streams

\* dma_channel_abort() of a channel that is busy.
Aborted(d) == IF d = None THEN streams ELSE [streams EXCEPT ![d] = Idle]

\* light_platform_pwm_stream_stop(): parked at mid-scale, streaming or not.
StreamStop(i) ==
    /\ i \in InUse /\ platform = "rp2"
    /\ streams' = Aborted(pwms[i].dma)
    /\ level' = SetLevel(i, Silence)
    /\ rest' = IF \A j \in SharesBlock(i) \ {i} : PinChannel(j) # PinChannel(i)
               THEN rest \union {i} ELSE rest
    /\ UNCHANGED <<pwms, blocks, drives, claims, returned>>

\* light_platform_pwm_close(): RP2 leaves pin and block alone, STM32 stops the
\* block, for every pin that uses it.
Rp2Close(i) ==
    /\ streams' = Aborted(pwms[i].dma)
    /\ claims' = [r \in DOMAIN claims |->
                    IF r \in {pwms[i].dma, pwms[i].timer} THEN "free" ELSE claims[r]]
    /\ pwms' = [pwms EXCEPT ![i] = [@ EXCEPT !.inUse = FALSE, !.dma = None, !.timer = None]]
    /\ UNCHANGED blocks

StmClose(i) ==
    /\ StmSetEnabled(i, FALSE)
    /\ pwms' = [pwms EXCEPT ![i].inUse = FALSE]
    /\ UNCHANGED <<claims, streams>>

Close(i) ==
    /\ i \in InUse
    /\ \/ platform = "rp2" /\ Rp2Close(i)
       \/ platform \in {"h7", "f4"} /\ StmClose(i)
    /\ rest' = rest \ {i}
    /\ UNCHANGED <<level, drives, returned>>

\* The DMA engine: one sample into the compare register, perhaps the last.
DmaSample(d) ==
    /\ streams[d].busy
    /\ level' = [level EXCEPT ![Block[streams[d].pin]][Channel[streams[d].pin]] = DacWrap]
    /\ \/ UNCHANGED streams
       \/ streams' = [streams EXCEPT ![d] = Idle]
    /\ UNCHANGED <<pwms, blocks, drives, claims, rest, returned>>

\* Another driver claims a pacing timer, and keeps it.  (A channel it claims
\* is as good as one that is not there: without one a stream changes nothing.)
OthersClaim(t) ==
    /\ platform = "rp2" /\ claims[t] = "free"
    /\ claims' = [claims EXCEPT ![t] = "other"]
    /\ UNCHANGED <<pwms, blocks, level, drives, streams, rest, returned>>

PwmInit ==
    /\ pwms = [i \in Pwms |-> [inUse |-> FALSE, pin |-> None, dma |-> None,
                               timer |-> None, wrap |-> 0]]
    /\ blocks = [b \in Blocks |-> [wrap |-> 0, div |-> 1, on |-> FALSE]]
    /\ level = [b \in Blocks |-> [c \in Channels |-> 0]]
    /\ drives = [p \in PwmPins |-> "gpio"]
    /\ claims = [r \in DmaChannels \union PacingTimers |-> "free"]
    /\ streams = [d \in DmaChannels |-> Idle]
    /\ rest = {} /\ returned = [b \in Blocks |-> 0]

PwmNext ==
    \/ \E p \in PwmPins : Open(p)
    \/ \E i \in Pwms :
        \/ Configure(i) \/ SetFrequency(i) \/ SetDuty(i) \/ SetEnabled(i)
        \/ ReleasePin(i) \/ StreamStart(i) \/ StreamStop(i) \/ Close(i)
    \/ \E d \in DmaChannels : DmaSample(d)
    \/ \E t \in PacingTimers : OthersClaim(t)

PwmSpec == PlatformInit /\ PwmInit /\ [][PwmNext /\ UNCHANGED platform]_<<pwmVars, platform>>

-------------------------------------------------------------------------------
PwmTypeOK ==
    /\ pwms \in [Pwms -> [inUse : BOOLEAN, pin : PwmPins \union {None},
                          dma : DmaChannels \union {None},
                          timer : PacingTimers \union {None}, wrap : Nat]]
    /\ blocks \in [Blocks -> [wrap : Nat, div : Nat, on : BOOLEAN]]
    /\ level \in [Blocks -> [Channels -> Nat]]
    /\ drives \in [PwmPins -> {"block", "gpio"}]
    /\ claims \in [DmaChannels \union PacingTimers -> {"free", "pwm", "other"}]
    /\ streams \in [DmaChannels -> [busy : BOOLEAN, pin : PwmPins \union {None},
                                    timer : PacingTimers \union {None}]]
    /\ rest \subseteq InUse
    /\ returned \in [Blocks -> Nat]

(***************************************************************************)
(* What streaming instances hold is all that is claimed for them, nobody   *)
(* holds what another holds, and a DMA channel runs only for an instance   *)
(* that is open, paced by the timer of that instance and writing to its    *)
(* pin: it is never left running past a close, whose unclaim would give it *)
(* away in flight.                                                         *)
(***************************************************************************)
Holds(i) == {pwms[i].dma, pwms[i].timer} \ {None}

StreamsOwnWhatTheyUse ==
    /\ {r \in DOMAIN claims : claims[r] = "pwm"} = UNION {Holds(i) : i \in InUse}
    /\ \A i, j \in InUse : i # j => Holds(i) \intersect Holds(j) = {}
    /\ \A d \in DmaChannels : streams[d].busy =>
        \E i \in InUse : /\ d = pwms[i].dma
                          /\ streams[d] = [busy |-> TRUE, pin |-> pwms[i].pin,
                                           timer |-> pwms[i].timer]

(***************************************************************************)
(* An output that is stopped, and has its channel to itself, is at         *)
(* mid-scale until a call changes it, however the last sample and the stop *)
(* fell.                                                                   *)
(***************************************************************************)
StoppedStreamsRest ==
    \A i \in rest : level[PinBlock(i)][PinChannel(i)] = Silence

(***************************************************************************)
(* "returning the frequency actually achieved" (light_platform_pwm.h:      *)
(* 38-39): what set_frequency() returned is what the block runs at, until  *)
(* somebody configures the block anew.  The code of STM32 refutes it.      *)
(***************************************************************************)
FrequencyAchieved ==
    \A b \in Blocks : returned[b] # 0 => returned[b] = Rate(blocks[b].div, blocks[b].wrap)

(***************************************************************************)
(* What does hold: it is, except on STM32 where the block is left at its   *)
(* largest divider and may run faster than the caller was told.            *)
(***************************************************************************)
Told(hz, div, wrap) ==
    IF platform # "rp2" /\ div = MaxDivider THEN hz <= Rate(div, wrap) ELSE hz = Rate(div, wrap)

FrequencyAsReturned ==
    \A b \in Blocks : returned[b] # 0 => Told(returned[b], blocks[b].div, blocks[b].wrap)

(***************************************************************************)
(* Promises of light_platform_pwm.h, under every order of calls, other     *)
(* pins of the same block, and a DMA engine that runs between calls: see   *)
(* the three parts.                                                        *)
(* (light_platform_pwm_close(), _stream_start(), _stream_stop() and        *)
(* _set_frequency().)                                                      *)
(***************************************************************************)
PwmAsPromised == StreamsOwnWhatTheyUse /\ StoppedStreamsRest /\ FrequencyAsReturned
===============================================================================
