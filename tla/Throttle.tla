------------------------------ MODULE Throttle ------------------------------
(***************************************************************************)
(* stats.Throttle (examples/risk/agent/src/stats/throttle.go) with a rate  *)
(* above zero: a sequence that yields the values of another one at that    *)
(* rate at most, with a ramp to it, and its errors at once.  Time may pass *)
(* between any two steps: in the source, the sleep and the consumer.       *)
(***************************************************************************)
EXTENDS Integers, Sequences

CONSTANTS
    Delay,         \* targetNanodelay, in ticks
    RampDuration,  \* ramp_duration, in ticks
    RampSteps,     \* ramp_steps
    MaxValues,      \* bound: values the source gives
    MaxTime        \* bound: ticks

ASSUME RateAssumption ==
    /\ Delay \in Nat
    /\ RampDuration \in Nat
    /\ RampSteps \in Nat
    /\ MaxValues \in Nat
    /\ MaxTime \in Nat

WithRamp == RampDuration > 0 /\ RampSteps > 0

(* initialTotalRampDelay *)
InitialDelay ==
    IF WithRamp /\ RampDuration \div RampSteps > Delay
    THEN RampDuration \div RampSteps ELSE Delay

VARIABLES
    now,        \* time.Now(); Throttle was called at 0
    place,         \* "range", "sleep", "ready" (to yield), "yield" (in the consumer) or "done"
    nextOp,     \* s_next_op_time
    delay,      \* currentDelay
    useRamp,    \* useRamp
    cancelled,  \* ctxt is done
    taken,      \* values taken from the source
    yields      \* history: when the consumer was given each value

throttleVars == <<now, place, nextOp, delay, useRamp, cancelled, taken, yields>>

ThrottleInit ==
    /\ now = 0
    /\ place = "range"
    /\ nextOp = 0
    /\ delay = Delay
    /\ useRamp = WithRamp
    /\ cancelled = FALSE
    /\ taken = 0
    /\ yields = <<>>

(* The delay at time t: from the initial one down to the target. *)
DelayAt(t) ==
    IF useRamp /\ t < RampDuration
    THEN InitialDelay - ((InitialDelay - Delay) * t) \div RampDuration
    ELSE Delay

(* Mutant: the schedule is not moved up to now when it is behind. *)
TakeKeepsSchedule ==
    /\ place = "range"
    /\ taken < MaxValues
    /\ taken' = taken + 1
    /\ delay' = DelayAt(now)
    /\ useRamp' = (useRamp /\ now < RampDuration)
    /\ IF nextOp > now
       THEN place' = "sleep" /\ UNCHANGED nextOp
       ELSE place' = "ready" /\ nextOp' = nextOp + delay'
    /\ UNCHANGED <<now, cancelled, yields>>

(* The source gives a value: the delay of this moment, and either sleep    *)
(* until the scheduled time or move the schedule up to now.                *)
Take ==
    /\ place = "range"
    /\ taken < MaxValues
    /\ taken' = taken + 1
    /\ delay' = DelayAt(now)
    /\ useRamp' = (useRamp /\ now < RampDuration)
    /\ IF nextOp > now
       THEN place' = "sleep" /\ UNCHANGED nextOp
       ELSE place' = "ready" /\ nextOp' = now + delay'
    /\ UNCHANGED <<now, cancelled, yields>>

(* Mutant: a value that is late is passed over. *)
WakeUpSkipsLate ==
    /\ place = "sleep"
    /\ now >= nextOp
    /\ nextOp' = nextOp + delay
    /\ place' = IF now > nextOp THEN "range" ELSE "ready"
    /\ UNCHANGED <<now, delay, useRamp, cancelled, taken, yields>>

(* case <-time.After(sleepDuration) *)
WakeUp ==
    /\ place = "sleep"
    /\ now >= nextOp
    /\ nextOp' = nextOp + delay
    /\ place' = "ready"
    /\ UNCHANGED <<now, delay, useRamp, cancelled, taken, yields>>

(* case <-ctxt.Done(): return.  The value in hand is never yielded. *)
ContextDone ==
    /\ place = "sleep"
    /\ cancelled
    /\ place' = "done"
    /\ UNCHANGED <<now, nextOp, delay, useRamp, cancelled, taken, yields>>

(* yield(v, nil) is called. *)
Yield ==
    /\ place = "ready"
    /\ yields' = Append(yields, now)
    /\ place' = "yield"
    /\ UNCHANGED <<now, nextOp, delay, useRamp, cancelled, taken>>

(* The source gives an error: yield(empty, err), with no delay. *)
PassError ==
    /\ place = "range"
    /\ place' = "yield"
    /\ UNCHANGED <<now, nextOp, delay, useRamp, cancelled, taken, yields>>

(* The consumer returns and wants more, or not. *)
ConsumerGoesOn ==
    /\ place = "yield"
    /\ place' = "range"
    /\ UNCHANGED <<now, nextOp, delay, useRamp, cancelled, taken, yields>>

ConsumerStops ==
    /\ place = "yield"
    /\ place' = "done"
    /\ UNCHANGED <<now, nextOp, delay, useRamp, cancelled, taken, yields>>

SourceEnds ==
    /\ place = "range"
    /\ place' = "done"
    /\ UNCHANGED <<now, nextOp, delay, useRamp, cancelled, taken, yields>>

Cancel ==
    /\ cancelled' = TRUE
    /\ UNCHANGED <<now, place, nextOp, delay, useRamp, taken, yields>>

Tick ==
    /\ now < MaxTime
    /\ now' = now + 1
    /\ UNCHANGED <<place, nextOp, delay, useRamp, cancelled, taken, yields>>

Iteration ==
    \/ Take
    \/ WakeUp
    \/ ContextDone
    \/ Yield
    \/ PassError
    \/ ConsumerGoesOn
    \/ ConsumerStops
    \/ SourceEnds

ThrottleNext == Iteration \/ Cancel \/ Tick

ThrottleSpec == ThrottleInit /\ [][ThrottleNext]_throttleVars
-----------------------------------------------------------------------------
(* Types of the variables. *)
ThrottleTypeOK ==
    /\ now \in Nat
    /\ place \in {"range", "sleep", "ready", "yield", "done"}
    /\ nextOp \in Nat
    /\ delay \in Delay..InitialDelay
    /\ useRamp \in BOOLEAN
    /\ cancelled \in BOOLEAN
    /\ taken \in 0..MaxValues
    /\ yields \in Seq(Nat)
    /\ Len(yields) <= taken

(* "rate (number of yields per second)" (throttle.go:39-40): whatever time *)
(* is lost in the sleep, the source or the consumer, n + 2 values in a row *)
(* are never yielded in less than n delays.  A late one may be followed by *)
(* the next at once, but lost time is never made up for beyond that.       *)
RateIsLimited ==
    \A i, j \in 1..Len(yields) :
        i < j => yields[j] - yields[i] >= (j - i - 1) * Delay

(* The limiter does not hold values back more than it must: a sleep ends   *)
(* at most one delay, as it was during the ramp, after the last value.     *)
SleepIsBounded ==
    place = "sleep" /\ yields # <<>> => nextOp - yields[Len(yields)] <= InitialDelay

(* "The context is used to short-circuit any delays" (throttle.go:46): no  *)
(* value of the source is passed over, however late, but the one in hand   *)
(* when a cancelled context ends the iteration.                            *)
OnlyCancellationDrops ==
    place \in {"range", "yield", "done"} =>
        \/ Len(yields) = taken
        \/ place = "done" /\ cancelled /\ Len(yields) = taken - 1
=============================================================================
