------------------------- MODULE StartSource_proofs -------------------------
(***************************************************************************)
(* Proofs about the rate limiter, and about its composition with the       *)
(* worker pool, for every rate, ramp, pool, file and number of values.     *)
(*                                                                         *)
(* The limiter alone: the inductive invariant says how far the schedule    *)
(* nextOp is ahead of each value already yielded, by a delay for each value*)
(* since, but for the last one, which may have been yielded late.          *)
(*                                                                         *)
(* The composition uses limiter and pool as they are specified alone, and  *)
(* the calls that come out of the pool keep the rate.  The argument is that*)
(* of the limiter, with the start of a value's work in the place of its    *)
(* yield: the schedule is ahead of it by a delay for each value taken      *)
(* since, because the limiter is not asked for another value before.       *)
(***************************************************************************)
EXTENDS StartSource, ApplyParallel_proofs

Gap(k) == k * Delay

(* Gaps add up (the only product the proof needs). *)
LEMMA GapStep ==
    \A k \in Int : Gap(k) \in Int /\ Gap(k + 1) = Gap(k) + Delay /\ Gap(0) = 0
  BY RateAssumption DEF Gap

(* The delay of any moment is between the target and the initial delay. *)
LEMMA QuotientBound ==
    ASSUME NEW x \in Nat, NEW t \in Nat, NEW r \in Nat, t < r
    PROVE  (x * t) \div r \in Nat /\ (x * t) \div r <= x
<1>1. x * t \in Nat /\ x * t <= x * r
  <2>1. PICK e \in Nat : r = t + e
    <3>1. r - t \in Nat /\ r = t + (r - t)
      OBVIOUS
    <3> QED BY <3>1
  <2>2. x * r = x * t + x * e
    BY <2>1
  <2>3. x * e \in Nat /\ x * t \in Nat
    OBVIOUS
  <2> QED BY <2>2, <2>3
<1>2. r > 0
  OBVIOUS
<1> DEFINE q == (x * t) \div r
<1>3. q \in Int /\ q * r <= x * t /\ x * t < (q + 1) * r
  BY <1>1, <1>2
<1>4. q >= 0
  BY <1>1, <1>2
<1>5. q <= x
  <2> SUFFICES ASSUME q > x PROVE FALSE
    BY <1>3
  <2>1. PICK e \in Nat : q = x + 1 + e
    <3>1. q - x - 1 \in Nat /\ q = x + 1 + (q - x - 1)
      BY <1>3
    <3> QED BY <3>1
  <2>2. q * r = x * r + r + e * r
    BY <2>1
  <2>3. e * r \in Nat /\ x * r \in Nat
    OBVIOUS
  <2> QED BY <1>1, <1>2, <1>3, <2>2, <2>3
<1> QED BY <1>3, <1>4, <1>5

LEMMA InitialDelayType == InitialDelay \in Nat /\ InitialDelay >= Delay
  BY RateAssumption DEF InitialDelay, WithRamp

LEMMA DelayAtType ==
    ASSUME NEW t \in Nat
    PROVE  DelayAt(t) \in Delay..InitialDelay
<1>1. CASE useRamp /\ t < RampDuration
  <2>1. InitialDelay - Delay \in Nat
    BY InitialDelayType, RateAssumption
  <2> DEFINE q == ((InitialDelay - Delay) * t) \div RampDuration
  <2>2. q \in Nat /\ q <= InitialDelay - Delay
    BY <1>1, <2>1, QuotientBound, RateAssumption
  <2>3. DelayAt(t) = InitialDelay - q
    BY <1>1 DEF DelayAt
  <2> HIDE DEF q
  <2> QED BY <2>2, <2>3, InitialDelayType, RateAssumption
<1>2. CASE ~(useRamp /\ t < RampDuration)
  BY <1>2, InitialDelayType, RateAssumption DEF DelayAt
<1> QED BY <1>1, <1>2

-----------------------------------------------------------------------------
Last == Len(yields)

(* The next value cannot be yielded before this time. *)
Base == IF place = "ready" THEN nextOp - delay ELSE nextOp

(* What the next value is kept apart from the values before it: the last   *)
(* one counts only once the next has been taken from the source.           *)
Counted(i) == i < Last \/ place \in {"sleep", "ready"}

Types ==
    /\ now \in Nat
    /\ place \in {"range", "sleep", "ready", "yield", "done"}
    /\ nextOp \in Nat
    /\ delay \in Delay..InitialDelay
    /\ useRamp \in BOOLEAN
    /\ cancelled \in BOOLEAN
    /\ taken \in 0..MaxValues
    /\ yields \in Seq(Nat)
    /\ place \in {"range", "yield"} => Len(yields) = taken
    /\ place \in {"sleep", "ready"} => Len(yields) = taken - 1
    /\ place = "done" => Len(yields) = taken \/ (cancelled /\ Len(yields) = taken - 1)

PastYields == \A i \in 1..Last : yields[i] <= now

ScheduleAhead ==
    place # "done" =>
        \A i \in 1..Last : Counted(i) => Base >= yields[i] + Gap(Last - i)

ReadyIsDue == place = "ready" => nextOp - delay <= now

RateInv ==
    \A i, j \in 1..Last : i < j => yields[j] - yields[i] >= Gap(j - i - 1)

IndInv == Types /\ PastYields /\ ScheduleAhead /\ ReadyIsDue /\ RateInv

LEMMA YieldsType ==
    Types => Last \in Nat /\ \A i \in 1..Last : yields[i] \in Nat
  BY DEF Types, Last

LEMMA InitInv == ThrottleInit => IndInv
<1> SUFFICES ASSUME ThrottleInit PROVE IndInv
  OBVIOUS
<1>1. Last = 0
  BY DEF ThrottleInit, Last
<1>2. Types
  <2>1. useRamp \in BOOLEAN /\ cancelled \in BOOLEAN
    BY DEF ThrottleInit, WithRamp
  <2>2. delay \in Delay..InitialDelay
    BY RateAssumption, InitialDelayType DEF ThrottleInit
  <2>3. yields \in Seq(Nat) /\ Len(yields) = 0 /\ taken = 0 /\ taken \in 0..MaxValues
    BY RateAssumption DEF ThrottleInit
  <2> QED BY <2>1, <2>2, <2>3 DEF ThrottleInit, Types
<1>3. 1..Last = {}
  BY <1>1
<1>4. PastYields /\ ScheduleAhead /\ RateInv
  BY <1>3 DEF PastYields, ScheduleAhead, RateInv
<1>5. ReadyIsDue
  BY DEF ThrottleInit, ReadyIsDue
<1> QED BY <1>2, <1>4, <1>5 DEF IndInv

(* Taking a value from the source. *)
LEMMA TakeInv == IndInv /\ Take => IndInv'
<1> SUFFICES ASSUME IndInv, Take PROVE IndInv'
  OBVIOUS
<1> USE DEF IndInv, Types
<1>1. delay' \in Delay..InitialDelay /\ delay' \in Nat
  BY DelayAtType, InitialDelayType, RateAssumption DEF Take
<1>2. Types'
  <2>1. CASE nextOp > now
    BY <2>1, <1>1, RateAssumption DEF Take
  <2>2. CASE ~(nextOp > now)
    BY <2>2, <1>1, RateAssumption DEF Take
  <2> QED BY <2>1, <2>2
<1>3. PastYields' /\ RateInv'
  BY DEF Take, PastYields, RateInv, Last
<1>4. ScheduleAhead'
  <2> SUFFICES ASSUME NEW i \in 1..Last PROVE Base' >= yields[i] + Gap(Last - i)
    BY DEF Take, ScheduleAhead, Last
  <2>1. Base' >= nextOp /\ Base' >= now /\ Base' \in Int
    <3>1. CASE nextOp > now
      BY <3>1 DEF Take, Base
    <3>2. CASE ~(nextOp > now)
      BY <3>2, <1>1 DEF Take, Base
    <3> QED BY <3>1, <3>2
  <2>2. CASE i = Last
    <3>1. Gap(Last - i) = 0
      <4>1. Last - i = 0
        BY <2>2, YieldsType
      <4> QED BY <4>1, GapStep
    <3> QED BY <2>1, <3>1, YieldsType DEF PastYields
  <2>3. CASE i # Last
    <3>1. nextOp >= yields[i] + Gap(Last - i)
      BY <2>3 DEF Take, ScheduleAhead, Base, Counted, Last
    <3>2. yields[i] \in Nat /\ Gap(Last - i) \in Int
      <4>1. Last - i \in Int /\ yields[i] \in Nat
        BY YieldsType
      <4> QED BY <4>1, GapStep
    <3> QED BY <2>1, <3>1, <3>2
  <2> QED BY <2>2, <2>3
<1>5. ReadyIsDue'
  <2>1. CASE nextOp > now
    BY <2>1 DEF Take, ReadyIsDue
  <2>2. CASE ~(nextOp > now)
    BY <2>2, <1>1 DEF Take, ReadyIsDue
  <2> QED BY <2>1, <2>2
<1> QED BY <1>2, <1>3, <1>4, <1>5

(* Waking up moves the schedule by a delay: the base stays. *)
LEMMA WakeUpInv == IndInv /\ WakeUp => IndInv'
<1> SUFFICES ASSUME IndInv, WakeUp PROVE IndInv'
  OBVIOUS
<1> USE DEF IndInv, Types
<1>0. delay \in Nat
  BY InitialDelayType, RateAssumption
<1>1. Types'
  BY <1>0 DEF WakeUp
<1>2. PastYields' /\ RateInv'
  BY DEF WakeUp, PastYields, RateInv, Last
<1>3. Base' = Base /\ Base' = nextOp
  BY <1>0 DEF WakeUp, Base
<1>4. ScheduleAhead'
  BY <1>3 DEF WakeUp, ScheduleAhead, Counted, Last
<1>5. ReadyIsDue'
  BY <1>0 DEF WakeUp, ReadyIsDue
<1> QED BY <1>1, <1>2, <1>4, <1>5

(* A value is yielded: no earlier than the base, a delay before nextOp. *)
LEMMA YieldInv == IndInv /\ Yield => IndInv'
<1> SUFFICES ASSUME IndInv, Yield PROVE IndInv'
  OBVIOUS
<1> USE DEF IndInv, Types
<1>0. delay \in Nat /\ delay >= Delay /\ Delay \in Nat
  BY InitialDelayType, RateAssumption
<1>1. Types'
  BY DEF Yield
<1>2. /\ Last' = Last + 1 /\ Last \in Nat
      /\ yields'[Last + 1] = now
      /\ \A i \in 1..Last : yields'[i] = yields[i] /\ yields[i] \in Nat
  BY DEF Yield, Last
<1>3. PastYields'
  <2> SUFFICES ASSUME NEW i \in 1..(Last + 1) PROVE yields'[i] <= now
    BY <1>2 DEF Yield, PastYields
  <2>1. CASE i \in 1..Last
    BY <2>1, <1>2 DEF PastYields
  <2>2. CASE i = Last + 1
    BY <2>2, <1>2
  <2> QED BY <2>1, <2>2, <1>2
<1>4. \A i \in 1..Last : nextOp - delay >= yields[i] + Gap(Last - i)
  BY DEF Yield, ScheduleAhead, Base, Counted
<1>5. ScheduleAhead'
  <2> SUFFICES ASSUME NEW i \in 1..Last PROVE nextOp >= yields[i] + Gap(Last + 1 - i)
    <3>1. \A i \in 1..Last' : Counted(i)' => i \in 1..Last
      BY <1>2 DEF Yield, Counted
    <3>2. Base' = nextOp
      BY DEF Yield, Base
    <3> QED BY <3>1, <3>2, <1>2 DEF ScheduleAhead
  <2>1. Gap(Last + 1 - i) = Gap(Last - i) + Delay /\ Gap(Last - i) \in Int
    <3>1. Last - i \in Int /\ Last + 1 - i = (Last - i) + 1
      BY <1>2
    <3> QED BY <3>1, GapStep
  <2>2. yields[i] \in Nat /\ nextOp - delay >= yields[i] + Gap(Last - i)
    BY <1>2, <1>4
  <2>3. delay >= Delay /\ delay \in Nat /\ nextOp \in Nat
    BY <1>0, RateAssumption
  <2> HIDE DEF IndInv, Types
  <2> QED BY <2>1, <2>2, <2>3, RateAssumption
<1>6. ReadyIsDue'
  BY DEF Yield, ReadyIsDue
<1>7. RateInv'
  <2> SUFFICES ASSUME NEW i \in 1..(Last + 1), NEW j \in 1..(Last + 1), i < j
               PROVE  yields'[j] - yields'[i] >= Gap(j - i - 1)
    BY <1>2 DEF RateInv
  <2>1. CASE j \in 1..Last
    <3>1. i \in 1..Last
      BY <2>1, <1>2
    <3> QED BY <2>1, <3>1, <1>2 DEF RateInv
  <2>2. CASE j = Last + 1
    <3>1. i \in 1..Last /\ j - i - 1 = Last - i /\ Last - i \in Int
      BY <2>2, <1>2
    <3>2. now - yields[i] >= Gap(Last - i)
      <4>1. nextOp - delay <= now
        BY DEF Yield, ReadyIsDue
      <4>2. Gap(Last - i) \in Int
        BY <3>1, GapStep
      <4> QED BY <4>1, <4>2, <3>1, <1>0, <1>2, <1>4
    <3> QED BY <3>1, <3>2, <2>2, <1>2
  <2> QED BY <2>1, <2>2, <1>2
<1> QED BY <1>1, <1>3, <1>5, <1>6, <1>7

(* The other steps leave the schedule and the values alone. *)
LEMMA OtherInv ==
    ASSUME IndInv, ContextDone \/ PassError \/ ConsumerGoesOn \/ ConsumerStops
                   \/ SourceEnds \/ Cancel \/ Tick \/ UNCHANGED throttleVars
    PROVE  IndInv'
<1> USE DEF IndInv, Types
<1>1. now' \in Nat /\ now' >= now
  BY DEF ContextDone, PassError, ConsumerGoesOn, ConsumerStops, SourceEnds, Cancel, Tick, throttleVars
<1>2. Types'
  <2>1. CASE Cancel \/ Tick \/ UNCHANGED throttleVars
    <3>1. cancelled' \in BOOLEAN
      BY <2>1 DEF Cancel, Tick, throttleVars
    <3>2. UNCHANGED <<place, nextOp, delay, useRamp, taken, yields>> /\ (cancelled => cancelled')
      BY <2>1 DEF Cancel, Tick, throttleVars
    <3> QED BY <3>1, <3>2, <1>1
  <2>2. CASE ~(Cancel \/ Tick \/ UNCHANGED throttleVars)
    <3>1. \/ place = "sleep" /\ cancelled /\ place' = "done"
          \/ place \in {"range", "yield"} /\ place' \in {"range", "yield", "done"}
      BY <2>2 DEF ContextDone, PassError, ConsumerGoesOn, ConsumerStops, SourceEnds
    <3>2. UNCHANGED <<now, nextOp, delay, useRamp, cancelled, taken, yields>>
      BY <2>2 DEF ContextDone, PassError, ConsumerGoesOn, ConsumerStops, SourceEnds
    <3> QED BY <3>1, <3>2
  <2> QED BY <2>1, <2>2
<1>3. UNCHANGED <<nextOp, delay, yields>>
  BY DEF ContextDone, PassError, ConsumerGoesOn, ConsumerStops, SourceEnds, Cancel, Tick, throttleVars
<1>4. PastYields' /\ RateInv'
  <2>1. \A i \in 1..Last : yields[i] \in Nat /\ yields[i] <= now'
    BY <1>1 DEF PastYields, Last
  <2> QED BY <1>3, <2>1 DEF PastYields, RateInv, Last
<1>5. ScheduleAhead' /\ ReadyIsDue'
  <2>1. \/ place' = place
        \/ place = "range" /\ place' = "yield"
        \/ place = "yield" /\ place' = "range"
        \/ place' = "done"
    BY DEF ContextDone, PassError, ConsumerGoesOn, ConsumerStops, SourceEnds, Cancel, Tick, throttleVars
  <2>2. ReadyIsDue'
    <3>1. delay \in Nat
      BY InitialDelayType, RateAssumption
    <3> QED BY <3>1, <2>1, <1>1, <1>3 DEF ReadyIsDue
  <2>3. ScheduleAhead'
    BY <2>1, <1>3 DEF ScheduleAhead, Base, Counted, Last
  <2> QED BY <2>2, <2>3
<1> QED BY <1>2, <1>4, <1>5

THEOREM RateInvariance == ThrottleSpec => []IndInv
<1>1. ThrottleInit => IndInv
  BY InitInv
<1>2. IndInv /\ [ThrottleNext]_throttleVars => IndInv'
  BY TakeInv, WakeUpInv, YieldInv, OtherInv DEF ThrottleNext, Iteration
<1> QED BY <1>1, <1>2, PTL DEF ThrottleSpec

(* The variables keep their types; in particular the delay is never below  *)
(* the target's, at any moment of the ramp.                                *)
THEOREM TypeCorrect == ThrottleSpec => []ThrottleTypeOK
<1>1. IndInv => ThrottleTypeOK
  BY DEF IndInv, Types, ThrottleTypeOK
<1> QED BY <1>1, RateInvariance, PTL

(* "rate (number of yields per second)" (throttle.go:39-40): n + 2 values  *)
(* in a row take n delays at least, for every rate and ramp and however    *)
(* long the sleeps, the source and the consumer take.                      *)
THEOREM RateHolds == ThrottleSpec => []RateIsLimited
<1>1. IndInv => RateIsLimited
  BY DEF IndInv, RateInv, RateIsLimited, Gap, Last
<1> QED BY <1>1, RateInvariance, PTL

(* "The context is used to short-circuit any delays" (throttle.go:46): no  *)
(* value is passed over, but the one in hand at a cancellation.            *)
THEOREM OnlyOneDropped == ThrottleSpec => []OnlyCancellationDrops
<1>1. IndInv => OnlyCancellationDrops
  BY DEF IndInv, Types, OnlyCancellationDrops
<1> QED BY <1>1, RateInvariance, PTL

(* The limiter does not hold values back: a sleep ends at most one initial *)
(* delay after the last value.                                             *)
THEOREM SleepHolds == ThrottleSpec => []SleepIsBounded
<1> DEFINE Near == place \in {"yield", "range", "sleep"} /\ yields # <<>>
                     => nextOp - yields[Last] <= InitialDelay
<1>1. ThrottleInit => Near
  BY DEF ThrottleInit
<1>2. IndInv /\ IndInv' /\ Near /\ [ThrottleNext]_throttleVars => Near'
  <2> SUFFICES ASSUME IndInv, IndInv', Near, [ThrottleNext]_throttleVars PROVE Near'
    OBVIOUS
  <2>1. CASE Take
    BY <2>1 DEF Take, Last
  <2>2. CASE WakeUp
    BY <2>2 DEF WakeUp
  <2>3. CASE Yield
    <3>1. yields'[Last'] = now /\ nextOp' = nextOp
      BY <2>3 DEF Yield, IndInv, Types, Last
    <3>2. nextOp - delay <= now
      BY <2>3 DEF Yield, IndInv, ReadyIsDue
    <3>3. delay <= InitialDelay /\ delay \in Int /\ InitialDelay \in Int /\ nextOp \in Nat /\ now \in Nat
      BY InitialDelayType, RateAssumption DEF IndInv, Types
    <3> QED
      BY <3>1, <3>2, <3>3
  <2>4. CASE ContextDone \/ PassError \/ ConsumerGoesOn \/ ConsumerStops \/ SourceEnds
             \/ Cancel \/ Tick \/ UNCHANGED throttleVars
    BY <2>4 DEF ContextDone, PassError, ConsumerGoesOn, ConsumerStops, SourceEnds, Cancel, Tick,
                throttleVars, Last
  <2> QED
    BY <2>1, <2>2, <2>3, <2>4 DEF ThrottleNext, Iteration
<1>3. Near => SleepIsBounded
  BY DEF SleepIsBounded, Last
<1> QED
  BY <1>1, <1>2, <1>3, RateInvariance, PTL DEF ThrottleSpec
-----------------------------------------------------------------------------
(* The limiter in front of the pool. *)
Steps == [SourceNext]_allVars

(* Each step of the composition is one of the limiter or leaves it alone. *)
LEMMA StepsOfLimiter == Steps => [ThrottleNext]_throttleVars
<1> SUFFICES ASSUME Steps PROVE [ThrottleNext]_throttleVars
  OBVIOUS
<1>1. GiveToLimiter \/ LimiterSleeps \/ LimiterYields \/ LimiterYieldsError => ThrottleNext
  BY DEF GiveToLimiter, LimiterSleeps, LimiterYields, LimiterYieldsError, ThrottleNext, Iteration
<1>2. SourceFails \/ PassEnds => ThrottleNext \/ UNCHANGED throttleVars
  BY DEF SourceFails, PassEnds, ThrottleNext, Iteration
<1>3. LoopBody => ThrottleNext \/ UNCHANGED throttleVars
  BY DEF LoopBody, Dispatch, ReceiveAtLimit, ThrottleNext, Iteration
<1>4. ContextEnds \/ TimePasses => ThrottleNext
  BY DEF ContextEnds, TimePasses, ThrottleNext
<1>5. GiveToPool \/ LimiterEnds \/ PoolEnds \/ (\E i \in Items : OpReturns(i))
      \/ UNCHANGED allVars => UNCHANGED throttleVars
  BY DEF GiveToPool, LimiterEnds, PoolEnds, OpReturns, allVars
<1> QED
  BY <1>1, <1>2, <1>3, <1>4, <1>5 DEF Steps, SourceNext, Goroutine

(* The limiter, in front of the pool, behaves as it does alone: what is    *)
(* proved of Throttle holds in the composition.                            *)
THEOREM LimiterInComposition == SourceSpec => ThrottleSpec
<1>1. SourceInit => ThrottleInit
  BY DEF SourceInit
<1> QED
  BY <1>1, StepsOfLimiter, PTL DEF SourceSpec, ThrottleSpec, Steps

(* The pool, behind the limiter, behaves as it does alone: what is proved  *)
(* of ApplyParallel holds in the composition.                              *)
THEOREM PoolInComposition == SourceSpec => Spec
<1>1. SourceInit => Init
  BY DEF SourceInit
<1>2. Steps => [Next]_vars
  <2> SUFFICES ASSUME Steps PROVE [Next]_vars
    OBVIOUS
  <2>1. GiveToPool \/ LimiterYields \/ LimiterYieldsError \/ LimiterEnds \/ LoopBody
        \/ PoolEnds => Next
    BY DEF GiveToPool, LimiterYields, LimiterYieldsError, LimiterEnds, LoopBody, PoolEnds,
           Next, Dispatcher
  <2>2. SourceFails \/ PassEnds => Next \/ UNCHANGED vars
    BY DEF SourceFails, PassEnds, Next, Dispatcher
  <2>3. ASSUME NEW i \in Items, OpReturns(i) PROVE Next
    BY <2>3 DEF OpReturns, Next
  <2>4. GiveToLimiter \/ LimiterSleeps \/ ContextEnds \/ TimePasses \/ UNCHANGED allVars
        => UNCHANGED vars
    BY DEF GiveToLimiter, LimiterSleeps, ContextEnds, TimePasses, allVars
  <2> QED
    BY <2>1, <2>2, <2>3, <2>4 DEF Steps, SourceNext, Goroutine
<1> QED
  BY <1>1, <1>2, PTL DEF SourceSpec, Spec, Steps

-----------------------------------------------------------------------------
Started == Len(starts)

(* Who has the value: the pool while it waits for a worker, else nobody;   *)
(* each value yielded before has been started.                             *)
Control ==
    /\ pc \in {"range", "limit", "drain", "returned"}
    /\ pc = "limit" => place = "yield" /\ Started = Last - 1
    /\ pc = "range" /\ place # "done" => Started = Last
    /\ pc \in {"drain", "returned"} => place = "done"

PastStarts == starts \in Seq(Nat) /\ \A i \in 1..Started : starts[i] <= now

StartsAhead ==
    place # "done" =>
        \A i \in 1..Started : Counted(i) => Base >= starts[i] + Gap(Last - i)

(* The value in hand is late enough for every value started before. *)
HandIsDue ==
    pc = "limit" => \A i \in 1..Started : now >= starts[i] + Gap(Last - 1 - i)

CallRate ==
    \A i, j \in 1..Started : i < j => starts[j] - starts[i] >= Gap(j - i - 1)

StartInv == limited => Control /\ PastStarts /\ StartsAhead /\ HandIsDue /\ CallRate

LEMMA StartsType ==
    PastStarts => Started \in Nat /\ \A i \in 1..Started : starts[i] \in Nat
  BY DEF PastStarts, Started

(* Steps that start nothing and leave the schedule alone. *)
LEMMA QuietSteps ==
    ASSUME IndInv, StartInv, limited, limited', Control',
           UNCHANGED <<starts, nextOp, delay, yields>>,
           now' \in Nat, now' >= now,
           pc' = "limit" => pc = "limit",
           \/ place' = place
           \/ place = "range" /\ place' = "yield"
           \/ place = "yield" /\ place' = "range" /\ Started = Last
           \/ place' = "done"
    PROVE  StartInv'
<1>1. PastStarts'
  <2>1. \A i \in 1..Started : starts[i] \in Nat /\ starts[i] <= now
    BY StartsType DEF StartInv, PastStarts
  <2> QED
    BY <2>1 DEF StartInv, PastStarts, Started, IndInv, Types
<1>2. StartsAhead'
  BY DEF StartInv, StartsAhead, Base, Counted, Last, Started
<1>3. HandIsDue'
  <2> SUFFICES ASSUME pc' = "limit", NEW i \in 1..Started PROVE now' >= starts[i] + Gap(Last - 1 - i)
    BY DEF HandIsDue, Started, Last
  <2>1. now >= starts[i] + Gap(Last - 1 - i)
    BY DEF StartInv, HandIsDue
  <2>2. starts[i] \in Nat /\ Gap(Last - 1 - i) \in Int
    <3>1. Last - 1 - i \in Int
      BY YieldsType DEF IndInv
    <3> QED
      BY <3>1, GapStep, StartsType DEF StartInv
  <2> QED
    BY <2>1, <2>2 DEF IndInv, Types
<1>4. CallRate'
  BY DEF StartInv, CallRate, Started
<1> QED
  BY <1>1, <1>2, <1>3, <1>4 DEF StartInv

(* Taking a value: it is due a delay after the last start, at least. *)
LEMMA TakeStep ==
    ASSUME IndInv, StartInv, limited, GiveToLimiter, pc = "range"
    PROVE  StartInv'
<1> USE DEF IndInv, Types
<1>1. delay' \in Delay..InitialDelay /\ delay' \in Nat
  BY DelayAtType, InitialDelayType, RateAssumption DEF GiveToLimiter, Take
<1>2. /\ UNCHANGED <<starts, pc, now, yields, limited>> /\ place = "range"
      /\ place' \in {"sleep", "ready"} /\ Started = Last
  BY DEF GiveToLimiter, ReadLine, Take, vars, StartInv, Control
<1>3. Control' /\ PastStarts' /\ HandIsDue' /\ CallRate'
  BY <1>2 DEF StartInv, Control, PastStarts, HandIsDue, CallRate, Started, Last
<1>4. Base' >= nextOp /\ Base' >= now /\ Base' \in Int
  <2>1. CASE nextOp > now
    BY <2>1, <1>1 DEF GiveToLimiter, Take, Base
  <2>2. CASE ~(nextOp > now)
    BY <2>2, <1>1 DEF GiveToLimiter, Take, Base
  <2> QED BY <2>1, <2>2
<1>5. StartsAhead'
  <2> SUFFICES ASSUME NEW i \in 1..Started PROVE Base' >= starts[i] + Gap(Last - i)
    BY <1>2 DEF StartsAhead, Started, Last
  <2>1. starts[i] \in Nat /\ starts[i] <= now /\ Last \in Nat
    BY StartsType, YieldsType DEF StartInv, PastStarts
  <2>2. CASE i = Last
    <3>1. Gap(Last - i) = 0
      <4>1. Last - i = 0
        BY <2>1, <2>2
      <4> QED BY <4>1, GapStep
    <3> QED BY <1>4, <2>1, <3>1
  <2>3. CASE i # Last
    <3>1. nextOp >= starts[i] + Gap(Last - i)
      BY <1>2, <2>1, <2>3 DEF StartInv, StartsAhead, Base, Counted
    <3>2. Gap(Last - i) \in Int
      BY <2>1, GapStep
    <3> QED BY <1>4, <2>1, <3>1, <3>2
  <2> QED BY <2>2, <2>3
<1> QED BY <1>3, <1>5 DEF StartInv

LEMMA WakeUpStep ==
    ASSUME IndInv, StartInv, limited, WakeUp, UNCHANGED <<vars, sourceVars>>
    PROVE  StartInv'
<1>1. UNCHANGED <<pc, starts, limited, now, yields>> /\ place = "sleep" /\ place' = "ready"
  BY DEF WakeUp, vars, sourceVars
<1>2. delay \in Nat /\ Base' = Base
  BY InitialDelayType, RateAssumption DEF WakeUp, Base, IndInv, Types
<1>3. Control' /\ PastStarts' /\ HandIsDue' /\ CallRate'
  BY <1>1 DEF StartInv, Control, PastStarts, HandIsDue, CallRate, Started, Last
<1>4. StartsAhead'
  BY <1>1, <1>2 DEF StartInv, StartsAhead, Counted, Started, Last
<1> QED BY <1>3, <1>4 DEF StartInv

(* A value is handed to the pool: no earlier than the base. *)
LEMMA YieldStep ==
    ASSUME IndInv, StartInv, limited, LimiterYields
    PROVE  StartInv'
<1>0. delay \in Nat /\ delay >= Delay /\ Delay \in Nat /\ nextOp \in Nat /\ now \in Nat
  BY InitialDelayType, RateAssumption DEF IndInv, Types
<1>1. /\ UNCHANGED <<starts, limited, now, nextOp, delay>>
      /\ place = "ready" /\ place' = "yield" /\ pc = "range" /\ pc' = "limit"
      /\ Started = Last /\ Last \in Nat /\ Last' = Last + 1
  BY YieldsType DEF LimiterYields, Yield, YieldValue, sourceVars, StartInv, Control, IndInv, Types, Last
<1>2. \A i \in 1..Started : starts[i] \in Nat /\ nextOp - delay >= starts[i] + Gap(Last - i)
  BY <1>1, StartsType DEF StartInv, StartsAhead, Base, Counted
<1>3. Control' /\ PastStarts' /\ CallRate'
  BY <1>1 DEF StartInv, Control, PastStarts, CallRate, Started
<1>4. StartsAhead'
  <2> SUFFICES ASSUME NEW i \in 1..Started PROVE nextOp >= starts[i] + Gap(Last + 1 - i)
    BY <1>1 DEF StartsAhead, Started, Base
  <2>1. Gap(Last + 1 - i) = Gap(Last - i) + Delay /\ Gap(Last - i) \in Int
    <3>1. Last - i \in Int /\ Last + 1 - i = (Last - i) + 1
      BY <1>1
    <3> QED BY <3>1, GapStep
  <2> QED BY <2>1, <1>0, <1>2
<1>5. HandIsDue'
  <2> SUFFICES ASSUME NEW i \in 1..Started PROVE now >= starts[i] + Gap(Last - i)
    <3>1. \A i \in 1..Started : Last' - 1 - i = Last - i
      BY <1>1
    <3> QED BY <1>1, <3>1 DEF HandIsDue, Started
  <2>1. nextOp - delay <= now
    BY <1>1 DEF IndInv, ReadyIsDue
  <2>2. Gap(Last - i) \in Int
    <3>1. Last - i \in Int
      BY <1>1
    <3> QED BY <3>1, GapStep
  <2> QED BY <1>0, <1>2, <2>1, <2>2
<1> QED BY <1>3, <1>4, <1>5 DEF StartInv

(* The pool starts the value in its hand. *)
LEMMA StartStep ==
    ASSUME IndInv, StartInv, limited, LoopBody, pc' = "range"
    PROVE  StartInv'
<1>1. /\ pc = "limit" /\ place = "yield" /\ place' = "range"
      /\ UNCHANGED <<limited, now, nextOp, delay, yields>>
      /\ starts' = Append(starts, now)
  BY DEF LoopBody, Dispatch, ReceiveAtLimit, ConsumerGoesOn
<1>2. /\ Started \in Nat /\ Last = Started + 1 /\ Last' = Last /\ Last \in Nat
      /\ Started' = Started + 1 /\ starts' \in Seq(Nat) /\ now \in Nat
      /\ starts'[Started + 1] = now
      /\ \A i \in 1..Started : starts'[i] = starts[i] /\ starts[i] \in Nat
  <2>1. starts \in Seq(Nat) /\ now \in Nat /\ Started = Last - 1 /\ Last \in Nat
    BY <1>1, YieldsType DEF StartInv, PastStarts, Control, IndInv, Types
  <2> QED BY <1>1, <2>1, StartsType DEF StartInv, Started, Last
<1>3. Control'
  BY <1>1, <1>2 DEF Control, StartInv
<1>4. PastStarts'
  <2> SUFFICES ASSUME NEW i \in 1..(Started + 1) PROVE starts'[i] <= now
    BY <1>1, <1>2 DEF PastStarts
  <2>1. CASE i \in 1..Started
    BY <2>1, <1>2 DEF StartInv, PastStarts
  <2>2. CASE i = Started + 1
    BY <2>2, <1>2
  <2> QED BY <2>1, <2>2, <1>2
<1>5. StartsAhead'
  <2> SUFFICES ASSUME NEW i \in 1..Started PROVE nextOp >= starts[i] + Gap(Last - i)
    <3>1. \A i \in 1..Started' : Counted(i)' => i \in 1..Started
      BY <1>1, <1>2 DEF Counted
    <3> QED BY <1>1, <1>2, <3>1 DEF StartsAhead, Base
  <2> QED BY <1>1, <1>2 DEF StartInv, StartsAhead, Counted, Base
<1>6. HandIsDue'
  BY DEF HandIsDue
<1>7. CallRate'
  <2> SUFFICES ASSUME NEW i \in 1..(Started + 1), NEW j \in 1..(Started + 1), i < j
               PROVE  starts'[j] - starts'[i] >= Gap(j - i - 1)
    BY <1>2 DEF CallRate
  <2>1. CASE j \in 1..Started
    <3>1. i \in 1..Started
      BY <2>1, <1>2
    <3> QED BY <2>1, <3>1, <1>2 DEF StartInv, CallRate
  <2>2. CASE j = Started + 1
    <3>1. i \in 1..Started /\ j - i - 1 = Last - 1 - i /\ Last - 1 - i \in Int
      BY <2>2, <1>2
    <3>2. now >= starts[i] + Gap(Last - 1 - i)
      BY <1>1, <3>1 DEF StartInv, HandIsDue
    <3>3. Gap(Last - 1 - i) \in Int
      BY <3>1, GapStep
    <3> QED BY <2>2, <3>1, <3>2, <3>3, <1>2
  <2> QED BY <2>1, <2>2, <1>2
<1> QED BY <1>3, <1>4, <1>5, <1>6, <1>7 DEF StartInv

LEMMA StartInit == SourceInit => StartInv
<1> SUFFICES ASSUME SourceInit PROVE StartInv
  OBVIOUS
<1>1. pc = "range" /\ Started = 0 /\ Last = 0 /\ starts \in Seq(Nat)
  BY DEF SourceInit, Init, ThrottleInit, Started, Last
<1>2. 1..Started = {}
  BY <1>1
<1>3. Control
  BY <1>1 DEF Control
<1>4. PastStarts /\ StartsAhead /\ HandIsDue /\ CallRate
  BY <1>1, <1>2 DEF PastStarts, StartsAhead, HandIsDue, CallRate
<1> QED
  BY <1>3, <1>4 DEF StartInv

LEMMA StartNext == IndInv /\ IndInv' /\ StartInv /\ Steps => StartInv'
<1> SUFFICES ASSUME IndInv, IndInv', StartInv, Steps, limited' PROVE StartInv'
  BY DEF StartInv
<1>1. limited
  BY DEF Steps, SourceNext, Goroutine, GiveToLimiter, GiveToPool, ReadLine, LimiterSleeps,
         LimiterYields, SourceFails, LimiterYieldsError, PassEnds, LimiterEnds, LoopBody, PoolEnds,
         OpReturns, ContextEnds, TimePasses, sourceVars, allVars
<1>2. now \in Nat /\ now' \in Nat /\ pc \in {"range", "limit", "drain", "returned"} /\ Control
  BY <1>1 DEF IndInv, Types, StartInv, Control
<1>3. CASE GiveToLimiter
  <2>1. pc = "range"
    BY <1>2, <1>3 DEF GiveToLimiter, Take, Control
  <2> QED BY <1>1, <1>3, <2>1, TakeStep
<1>4. CASE LimiterSleeps
  <2>1. CASE WakeUp
    BY <1>1, <1>4, <2>1, WakeUpStep DEF LimiterSleeps
  <2>2. CASE ContextDone
    <3>1. UNCHANGED <<pc, starts, nextOp, delay, yields, now>> /\ place' = "done" /\ place = "sleep"
      BY <1>4, <2>2 DEF LimiterSleeps, ContextDone, vars, sourceVars
    <3>2. Control'
      BY <1>2, <3>1 DEF Control
    <3> QED BY <1>1, <1>2, <3>1, <3>2, QuietSteps
  <2> QED BY <1>4, <2>1, <2>2 DEF LimiterSleeps
<1>5. CASE LimiterYields
  BY <1>1, <1>5, YieldStep
<1>6. CASE SourceFails
  <2>1. /\ UNCHANGED <<pc, starts, nextOp, delay, yields, now>>
        /\ place = "range" /\ place' = "yield"
    BY <1>1, <1>6 DEF SourceFails, PassError, vars, sourceVars
  <2>2. Control'
    BY <1>2, <2>1 DEF Control, Started, Last
  <2> QED BY <1>1, <1>2, <2>1, <2>2, QuietSteps
<1>7. CASE LimiterYieldsError
  <2>1. /\ UNCHANGED <<starts, nextOp, delay, yields, now>>
        /\ place' = "done" /\ pc' = "drain"
    BY <1>7 DEF LimiterYieldsError, YieldError, ConsumerStops, sourceVars
  <2>2. Control'
    BY <2>1 DEF Control
  <2> QED BY <1>1, <1>2, <2>1, <2>2, QuietSteps
<1>8. CASE PassEnds
  <2>1. /\ UNCHANGED <<pc, starts, nextOp, delay, yields, now>>
        /\ place = "range" /\ place' \in {"range", "done"}
    BY <1>1, <1>8 DEF PassEnds, NoMoreLines, ReadsSource, SourceEnds, vars, throttleVars
  <2>2. Control'
    BY <1>2, <2>1 DEF Control, Started, Last
  <2> QED BY <1>1, <1>2, <2>1, <2>2, QuietSteps
<1>9. CASE LimiterEnds
  <2>1. UNCHANGED <<place, starts, nextOp, delay, yields, now>> /\ pc' = "drain" /\ place = "done"
    BY <1>9 DEF LimiterEnds, SeqEnds, throttleVars, sourceVars
  <2>2. Control'
    BY <2>1 DEF Control
  <2> QED BY <1>1, <1>2, <2>1, <2>2, QuietSteps
<1>10. CASE LoopBody
  <2>1. CASE pc' = "range"
    BY <1>1, <1>10, <2>1, StartStep
  <2>2. CASE pc' # "range"
    <3>1. pc' = "drain" /\ pc = "limit"
      BY <1>10, <2>2 DEF LoopBody, Dispatch, ReceiveAtLimit
    <3>2. UNCHANGED <<starts, nextOp, delay, yields, now>> /\ place' = "done"
      BY <1>1, <1>10, <3>1 DEF LoopBody, ConsumerStops
    <3>3. Control'
      BY <3>1, <3>2 DEF Control
    <3> QED BY <1>1, <1>2, <3>1, <3>2, <3>3, QuietSteps
  <2> QED BY <2>1, <2>2
<1>11. CASE PoolEnds
  <2>1. /\ UNCHANGED <<place, starts, nextOp, delay, yields, now>>
        /\ pc = "drain" /\ pc' \in {"drain", "returned"}
    BY <1>11 DEF PoolEnds, ReceiveInDrain, Return, throttleVars, sourceVars
  <2>2. Control'
    BY <1>2, <2>1 DEF Control
  <2> QED BY <1>1, <1>2, <2>1, <2>2, QuietSteps
<1>12. CASE (\E i \in Items : OpReturns(i)) \/ ContextEnds \/ TimePasses \/ UNCHANGED allVars
  <2>1. UNCHANGED <<pc, place, starts, nextOp, delay, yields>> /\ now' >= now
    <3>1. ASSUME NEW i \in Items, OpReturns(i)
          PROVE  UNCHANGED <<pc, now, place, starts, nextOp, delay, yields>>
      BY <3>1 DEF OpReturns, Worker, WorkReturns, throttleVars, sourceVars
    <3>2. ContextEnds \/ UNCHANGED allVars
          => UNCHANGED <<pc, now, place, starts, nextOp, delay, yields>>
      BY DEF ContextEnds, Cancel, allVars, vars, throttleVars, sourceVars
    <3>3. TimePasses => UNCHANGED <<pc, place, starts, nextOp, delay, yields>> /\ now' = now + 1
      BY DEF TimePasses, Tick, vars, sourceVars
    <3> QED BY <1>2, <1>12, <3>1, <3>2, <3>3
  <2>2. Control'
    BY <1>2, <2>1 DEF Control, Started, Last
  <2> QED BY <1>1, <1>2, <2>1, <2>2, QuietSteps
<1>13. ~GiveToPool
  BY <1>1 DEF GiveToPool
<1> QED
  BY <1>3, <1>4, <1>5, <1>6, <1>7, <1>8, <1>9, <1>10, <1>11, <1>12, <1>13
     DEF Steps, SourceNext, Goroutine

(* "Batch operations per second max" (source.go:52): for every rate, ramp, *)
(* pool and file, n + 2 calls in a row never start within n delays.        *)
THEOREM CallsKeepRate == SourceSpec => []CallsAreLimited
<1>1. SourceSpec => []IndInv
  BY LimiterInComposition, RateInvariance, PTL
<1>2. StartInv => CallsAreLimited
  BY DEF StartInv, CallRate, CallsAreLimited, Gap, Started
<1> QED
  BY <1>1, <1>2, StartInit, StartNext, PTL DEF SourceSpec, Steps
-----------------------------------------------------------------------------
(* The reading may end: the file was read, or the context is cancelled. *)
MayEnd == cancelled \/ (~loop /\ yielded = lines)

(* What was read was handed on, but for a line in a delay that is cut short. *)
HandedOn == yielded = line \/ (cancelled /\ limited /\ yielded = line - 1)

(* The value that the limiter has taken and not handed on. *)
InHand == IF limited /\ place \in {"sleep", "ready"} THEN 1 ELSE 0

(* Whoever ranges over the file has not left it. *)
StillReads == IF limited THEN place # "done" ELSE pc \in {"range", "limit"}

(* While the file is read, what was read was handed on or is in hand.  A   *)
(* loop that was left without an error may end.                            *)
EndInv ==
    /\ limited /\ pc \in {"drain", "returned"} => place = "done"
    /\ ~limited => place = "range"
    /\ line \in Nat
    /\ pc \in {"range", "limit"} /\ StillReads /\ ~loop => line = yielded + InHand
    /\ err = NoErr => StillReads \/ (MayEnd /\ (~loop => HandedOn))

LEMMA EndInit == SourceInit => EndInv
  BY DEF SourceInit, Init, ThrottleInit, EndInv, StillReads, InHand

LEMMA EndNext == PoolInv /\ EndInv /\ Steps => EndInv'
<1> SUFFICES ASSUME PoolInv, EndInv, Steps PROVE EndInv'
  OBVIOUS
<1> USE DEF EndInv, StillReads, InHand, MayEnd, HandedOn
<1>1. yielded \in Nat /\ pc \in {"range", "limit", "drain", "returned"}
  BY SizesAssumption DEF PoolInv, TypeOK
<1>2. CASE GiveToLimiter
  BY <1>1, <1>2 DEF GiveToLimiter, ReadLine, ReadsSource, Take, vars
<1>3. CASE GiveToPool
  BY <1>1, <1>3 DEF GiveToPool, ReadLine, ReadsSource, YieldValue, throttleVars
<1>4. CASE LimiterSleeps
  BY <1>1, <1>4 DEF LimiterSleeps, WakeUp, ContextDone, vars, sourceVars
<1>5. CASE LimiterYields
  BY <1>1, <1>5 DEF LimiterYields, Yield, YieldValue, sourceVars
<1>6. CASE SourceFails
  BY <1>1, <1>6 DEF SourceFails, ReadsSource, PassError, YieldError, NoErr, SeqErr, vars,
                    throttleVars, sourceVars
<1>7. CASE LimiterYieldsError
  BY <1>1, <1>7 DEF LimiterYieldsError, YieldError, ConsumerStops, NoErr, SeqErr, sourceVars
<1>8. CASE PassEnds
  BY <1>1, <1>8 DEF PassEnds, NoMoreLines, ReadsSource, NextPass, SourceEnds, SeqEnds, vars, throttleVars
<1>9. CASE LimiterEnds
  BY <1>1, <1>9 DEF LimiterEnds, SeqEnds, throttleVars, sourceVars
<1>10. CASE LoopBody
  BY <1>1, <1>10 DEF LoopBody, Dispatch, ReceiveAtLimit, ConsumerGoesOn, ConsumerStops,
                     throttleVars
<1>11. CASE PoolEnds
  BY <1>1, <1>11 DEF PoolEnds, ReceiveInDrain, Return, throttleVars, sourceVars
<1>12. ASSUME NEW i \in Items, OpReturns(i) PROVE EndInv'
  BY <1>1, <1>12 DEF OpReturns, Worker, WorkReturns, throttleVars, sourceVars
<1>13. CASE ContextEnds \/ TimePasses \/ UNCHANGED allVars
  BY <1>1, <1>13 DEF ContextEnds, Cancel, TimePasses, Tick, allVars, vars, throttleVars, sourceVars
<1> QED
  BY <1>2, <1>3, <1>4, <1>5, <1>6, <1>7, <1>8, <1>9, <1>10, <1>11, <1>12, <1>13
     DEF Steps, SourceNext, Goroutine

(* For every file, pool and rate, a command that ends well has called the  *)
(* backend, with success, for every line it was given: all of them if it   *)
(* was not cancelled, and otherwise those it has read, but for one that a  *)
(* delay was cut short for.                                                *)
THEOREM NilIsAllDone == SourceSpec => []NilMeansAllDone
<1>1. SourceSpec => []PoolInv
  BY PoolInComposition, Invariance, PTL
<1>2. SourceSpec => []EndInv
  BY <1>1, EndInit, EndNext, PTL DEF SourceSpec, Steps
<1>3. PoolInv /\ EndInv => NilMeansAllDone
  <2> SUFFICES ASSUME PoolInv, EndInv, pc = "returned", err = NoErr
               PROVE  (\A i \in 1..yielded : task[i] = "ok") /\ MayEnd /\ (~loop => HandedOn)
    BY DEF NilMeansAllDone, MayEnd, HandedOn
  <2>1. MayEnd /\ (~loop => HandedOn)
    BY DEF EndInv, StillReads
  <2> QED
    BY <2>1, NilMeansAllOk
<1> QED
  BY <1>1, <1>2, <1>3, PTL
=============================================================================
