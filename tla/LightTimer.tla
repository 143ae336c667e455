------------------------------ MODULE LightTimer ------------------------------
(***************************************************************************)
(* Millisecond timers of light_platform: a table of at most MaxTimers,     *)
(* never given back, each counting down to an absolute target on a clock   *)
(* of 2 * HalfRange ms that wraps.  The four ports differ in what a new    *)
(* timer holds, in what stopping does and in how the clock is read.        *)
(*                                                                         *)
(* No caller of this repository runs a timer from an interrupt, and a call *)
(* that reads the clock reads it once: every call is one step.             *)
(***************************************************************************)
EXTENDS Integers, Sequences, Platform

CONSTANTS
    MaxTimers,          \* LIGHT_PLATFORM_MAX_TIMERS
    HalfRange,          \* half of what the millisecond clock counts (2^31)
    AskedMs,            \* the durations callers ask for
    Garbage             \* what a field of a block from light_alloc() may hold

ASSUME TimerAssumption ==
    /\ MaxTimers \in Nat \ {0} /\ HalfRange \in Nat \ {0}
    /\ AskedMs \subseteq 0..(HalfRange - 1)
    /\ Garbage \subseteq 0..(2 * HalfRange - 1) /\ Garbage # {}

Wrap(n) == n % (2 * HalfRange)
ClockValues == 0..(2 * HalfRange - 1)

\* Mutant: the unsigned difference, which is huge once a timer is over.
UnsignedRemainder(n) == n

\* The cast to a signed integer, and what is left of it when negative is none.
SignedRemainder(n) == IF n < HalfRange THEN n ELSE 0

VARIABLES
    timers,             \* the table, in the order of light_platform_timer_new()
    clockMs,            \* what light_platform_get_absolute_time_ms() answers
    promised            \* promised[t]: what was last asked of timer t, and how
                        \* much of it has passed while it ran
timerVars == <<timers, clockMs, promised>>

NeverSet == [asked |-> -1, counted |-> 0]

\* Nothing is promised any more once a timer has been over for half the range
\* of the clock: the sign of the difference turns, and it runs again.
Forgotten(p) == p.counted > p.asked + HalfRange

-------------------------------------------------------------------------------
\* light_platform_timer_new(): the block is not cleared on RP2 and the host,
\* where a full table also leaks it (the leak is not modelled).
Rp2NewTimer ==
    [state : {"idle", "run", "other"}, duration : Garbage, target : Garbage]

StmNewTimer == {[state |-> "idle", duration |-> 0, target |-> 0]}

HostNewTimer ==
    [state : {"idle", "run", "other"}, duration : Garbage, target : Garbage]

NewTimer ==
    /\ Len(timers) < MaxTimers
    /\ \E t \in CASE platform = "rp2"          -> Rp2NewTimer
                  [] platform \in {"h7", "f4"} -> StmNewTimer
                  [] platform = "host"         -> HostNewTimer :
        timers' = Append(timers, t)
    /\ promised' = Append(promised, NeverSet)
    /\ UNCHANGED clockMs

\* light_platform_timer_run(): to_ms_since_boot(delayed_by_ms(..)) on RP2, a
\* sum on STM32; the host has the assignment commented out.
Rp2Run(t) == [t EXCEPT !.target = Wrap(clockMs + t.duration), !.state = "run"]
StmRun(t) == [t EXCEPT !.target = Wrap(clockMs + t.duration), !.state = "run"]
HostRun(t) == [t EXCEPT !.state = "run"]

Running(t) ==
    CASE t.state # "idle"              -> t
      [] t.state = "idle" /\ platform = "rp2"          -> Rp2Run(t)
      [] t.state = "idle" /\ platform \in {"h7", "f4"} -> StmRun(t)
      [] t.state = "idle" /\ platform = "host"         -> HostRun(t)

Run(i) ==
    /\ timers' = [timers EXCEPT ![i] = Running(@)]
    /\ UNCHANGED <<clockMs, promised>>

\* light_platform_timer_set_ms(): refused unless the timer is idle.
SetMs(i) ==
    /\ timers[i].state = "idle"
    /\ \E ms \in AskedMs, start \in BOOLEAN :
        LET t == [timers[i] EXCEPT !.duration = ms]
        IN  timers' = [timers EXCEPT ![i] = IF start THEN Running(t) ELSE t]
            /\ promised' = [promised EXCEPT ![i] = [asked |-> ms, counted |-> 0]]
    /\ UNCHANGED clockMs

\* light_platform_timer_stop(): RP2 works out what is left and stays running,
\* the host does nothing, only STM32 comes back to idle.
Rp2Stop(t) ==
    [t EXCEPT !.duration = IF t.target <= clockMs THEN 0 ELSE t.target - clockMs]
StmStop(t) ==
    [t EXCEPT !.duration = SignedRemainder(Wrap(t.target - clockMs)), !.state = "idle"]
HostStop(t) == t

Stop(i) ==
    /\ timers[i].state = "run"
    /\ timers' = [timers EXCEPT ![i] =
                    CASE platform = "rp2"          -> Rp2Stop(@)
                      [] platform \in {"h7", "f4"} -> StmStop(@)
                      [] platform = "host"         -> HostStop(@)]
    /\ promised' = [promised EXCEPT ![i].counted =
                      IF platform \in {"h7", "f4"} /\ promised[i].asked \in 0..@
                         /\ ~Forgotten(promised[i])
                      THEN promised[i].asked ELSE @]
    /\ UNCHANGED clockMs

\* light_platform_timer_get_remaining_ms()
Remaining(t) ==
    CASE t.state = "idle"  -> t.duration
      [] t.state = "run"   -> SignedRemainder(Wrap(t.target - clockMs))
      [] t.state = "other" -> 0

\* A millisecond passes: the SDK's microsecond timer, SysTick or the system's.
Millisecond ==
    /\ clockMs' = Wrap(clockMs + 1)
    /\ promised' = [i \in DOMAIN promised |->
                      IF timers[i].state = "run" /\ promised[i] # NeverSet
                         /\ ~Forgotten(promised[i])
                      THEN [promised[i] EXCEPT !.counted = @ + 1] ELSE promised[i]]
    /\ UNCHANGED timers

TimerInit ==
    /\ timers = <<>> /\ promised = <<>>
    /\ clockMs \in ClockValues

TimerNext ==
    \/ NewTimer
    \/ \E i \in DOMAIN timers : Run(i) \/ SetMs(i) \/ Stop(i)
    \/ Millisecond

TimerSpec ==
    PlatformInit /\ TimerInit /\ [][TimerNext /\ UNCHANGED platform]_<<timerVars, platform>>

-------------------------------------------------------------------------------
TimerTypeOK ==
    /\ timers \in Seq([state : {"idle", "run", "other"},
                       duration : ClockValues, target : ClockValues])
    /\ Len(timers) <= MaxTimers /\ Len(promised) = Len(timers)
    /\ clockMs \in ClockValues

(***************************************************************************)
(* What a timer reports as remaining is what was asked less the time it    *)
(* has run since, and zero once that is over, through every stop and start *)
(* and across the wrap of the clock, until it has been over for half the   *)
(* range of the clock (some 24 days of it): then it counts down again.     *)
(* The host, which never sets a target, promises nothing.                  *)
(* (light_platform_timer_get_remaining_ms() and its signed difference,     *)
(* light_platform_timer_stop() and what it leaves behind.)                 *)
(***************************************************************************)
TimerKeepsTime ==
    platform # "host" =>
        \A i \in DOMAIN timers :
            LET p == promised[i]
                left == p.asked - p.counted
            IN  p # NeverSet /\ ~Forgotten(p) =>
                    Remaining(timers[i]) = IF left > 0 THEN left ELSE 0
===============================================================================
