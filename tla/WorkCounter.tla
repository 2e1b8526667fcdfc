----------------------------- MODULE WorkCounter -----------------------------
(***************************************************************************)
(* workCounter (examples/risk/loadtest/src/utils.go): the counting         *)
(* semaphore, a mutex and a sync.Cond, that limits how many gRPC calls the *)
(* load test service works on at once.                                     *)
(*                                                                         *)
(* The mutex is only held inside Acquire and Release, which never block    *)
(* while holding it except in Wait, which gives it up: each stretch with   *)
(* the mutex held is one step.  sync.Cond wakes its waiters in the order   *)
(* they called Wait; a woken call has to get the mutex again and may find  *)
(* that a newcomer has taken its slot, so it is back to "calling".         *)
(***************************************************************************)
EXTENDS Integers, Sequences, FiniteSets

CONSTANTS
    Calls,      \* the goroutines of the gRPC server, used again and again
    MaxWorkers  \* maxWorkers

ASSUME WorkersAssumption == MaxWorkers \in Nat

ASSUME CallsAssumption == IsFiniteSet(Calls)

VARIABLES
    call,           \* per call: "idle", "calling", "blocked" or "holding"
    currentWorkers, \* currentWorkers
    waiters         \* the calls inside workerLock.Wait(), oldest first

counterVars == <<call, currentWorkers, waiters>>

CounterInit ==
    /\ call = [c \in Calls |-> "idle"]
    /\ currentWorkers = 0
    /\ waiters = <<>>

(* A request reaches the server and its handler calls Acquire. *)
Arrive(c) ==
    /\ call[c] = "idle"
    /\ call' = [call EXCEPT ![c] = "calling"]
    /\ UNCHANGED <<currentWorkers, waiters>>

(* Mutant: off by one in the loop's condition. *)
AcquireOneTooMany(c) ==
    /\ call[c] = "calling"
    /\ IF currentWorkers > MaxWorkers
       THEN /\ waiters' = Append(waiters, c)
            /\ call' = [call EXCEPT ![c] = "blocked"]
            /\ UNCHANGED currentWorkers
       ELSE /\ currentWorkers' = currentWorkers + 1
            /\ call' = [call EXCEPT ![c] = "holding"]
            /\ UNCHANGED waiters

(* for w.currentWorkers >= w.maxWorkers { Wait() }; w.currentWorkers++ *)
Acquire(c) ==
    /\ call[c] = "calling"
    /\ IF currentWorkers >= MaxWorkers
       THEN /\ waiters' = Append(waiters, c)
            /\ call' = [call EXCEPT ![c] = "blocked"]
            /\ UNCHANGED currentWorkers
       ELSE /\ currentWorkers' = currentWorkers + 1
            /\ call' = [call EXCEPT ![c] = "holding"]
            /\ UNCHANGED waiters

(* Mutant: no Signal. *)
ReleaseNoSignal(c) ==
    /\ call[c] = "holding"
    /\ currentWorkers' = currentWorkers - 1
    /\ call' = [call EXCEPT ![c] = "idle"]
    /\ UNCHANGED waiters

(* w.currentWorkers--; Signal() wakes the oldest waiter, if there is one. *)
Release(c) ==
    /\ call[c] = "holding"
    /\ currentWorkers' = currentWorkers - 1
    /\ IF waiters = <<>>
       THEN /\ call' = [call EXCEPT ![c] = "idle"]
            /\ UNCHANGED waiters
       ELSE /\ call' = [call EXCEPT ![c] = "idle", ![Head(waiters)] = "calling"]
            /\ waiters' = Tail(waiters)

(* The process exits and is started again: nothing of it survives. *)
Restart ==
    /\ call' = [c \in Calls |-> "idle"]
    /\ currentWorkers' = 0
    /\ waiters' = <<>>

CounterNext ==
    \/ \E c \in Calls : Arrive(c) \/ Acquire(c) \/ Release(c)
    \/ Restart

CounterSpec == CounterInit /\ [][CounterNext]_counterVars
-----------------------------------------------------------------------------
Holding == {c \in Calls : call[c] = "holding"}
Calling == {c \in Calls : call[c] = "calling"}

(* Types of the variables. *)
CounterTypeOK ==
    /\ call \in [Calls -> {"idle", "calling", "blocked", "holding"}]
    /\ currentWorkers \in 0..MaxWorkers
    /\ waiters \in Seq(Calls)

(* "Limit the number of workers that can run" (main.go:60): currentWorkers *)
(* is exactly the number of calls between Acquire and Release, so there are*)
(* never more than maxWorkers of them, through every wake-up that finds its*)
(* slot taken and waits again.                                             *)
SlotsCounted ==
    /\ Cardinality(Holding) = currentWorkers
    /\ currentWorkers <= MaxWorkers

(* The condition variable's queue holds exactly the blocked calls, each of *)
(* them once (a lemma of the proofs).                                      *)
WaitersAreBlocked ==
    /\ {c \in Calls : call[c] = "blocked"} = {waiters[k] : k \in 1..Len(waiters)}
    /\ \A j, k \in 1..Len(waiters) : waiters[j] = waiters[k] => j = k

(* "Will let another worker proceed if one is blocked in Acquire()"        *)
(* (utils.go:510): no wake-up is lost.  While a call is blocked, there are *)
(* at least as many calls on their way to a slot as there are free slots.  *)
NoLostWakeup ==
    waiters # <<>> => MaxWorkers - currentWorkers <= Cardinality(Calling)

=============================================================================
