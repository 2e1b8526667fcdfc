--------------------------- MODULE LoadTestServer ---------------------------
(***************************************************************************)
(* The gRPC service of the load test (examples/risk/loadtest/src): every   *)
(* call of RunLoadTask acquires a slot of the workCounter, runs the init   *)
(* part of its task if the process was not initialised with that id last   *)
(* (simulator.go initialize, under initialMu), runs the task and releases  *)
(* the slot.  Work that is made to crash exits the process.                *)
(***************************************************************************)
EXTENDS WorkCounter

CONSTANTS
    InitIds,    \* the ids of the init parts of the tasks sent to the service
    NoInit,     \* a task without an init part
    Free,       \* initialMu is not locked
    NoId,       \* the value -1 that initialId starts with; a task may bring it too
    MaxInitRuns \* bound: how far initRuns counts

ASSUME InitIdsAssumption ==
    /\ NoInit \notin InitIds
    /\ Free \notin Calls
    /\ MaxInitRuns \in Nat \ {0}

VARIABLES
    phase,      \* per call that holds a slot: where in RunLoadTask it is
    initOf,     \* per call that holds a slot: the id of task.Init, or NoInit
    initialMu,  \* the call that has initialMu locked, or Free
    initialId,  \* initialId
    initRuns    \* history: completed init runs of each id in this process

taskVars == <<phase, initOf, initialMu, initialId, initRuns>>
vars     == <<counterVars, taskVars>>

Init ==
    /\ CounterInit
    /\ phase = [c \in Calls |-> "none"]
    /\ initOf = [c \in Calls |-> NoInit]
    /\ initialMu = Free
    /\ initialId = NoId
    /\ initRuns = [i \in InitIds |-> 0]

(* A request comes in. *)
Request(c) == Arrive(c) /\ UNCHANGED taskVars

(* q.cnt.Acquire(); on success the call enters initialize.  What init part *)
(* the request has is chosen here: nothing looks at it before.             *)
AcquireSlot(c) ==
    /\ Acquire(c)
    /\ IF call'[c] = "holding"
       THEN /\ phase' = [phase EXCEPT ![c] = "init"]
            /\ \E i \in InitIds \cup {NoInit} : initOf' = [initOf EXCEPT ![c] = i]
       ELSE UNCHANGED <<phase, initOf>>
    /\ UNCHANGED <<initialMu, initialId, initRuns>>

(* compute_task == nil: nothing to do, not even to lock. *)
NothingToInit(c) ==
    /\ phase[c] = "init"
    /\ initOf[c] = NoInit
    /\ phase' = [phase EXCEPT ![c] = "task"]
    /\ UNCHANGED <<counterVars, initOf, initialMu, initialId, initRuns>>

(* Mutant: initialId is compared before the mutex is taken. *)
LockInitUnlocked(c) ==
    /\ phase[c] = "init"
    /\ initOf[c] # NoInit
    /\ phase' = [phase EXCEPT ![c] =
                    IF initOf[c] = initialId THEN "task" ELSE "initializing"]
    /\ UNCHANGED <<counterVars, initOf, initialMu, initialId, initRuns>>

(* initialMu.Lock(): an id equal to initialId needs nothing more and unlocks *)
(* at once; another id keeps the mutex through runWork(compute_task,"init"). *)
LockInit(c) ==
    /\ phase[c] = "init"
    /\ initOf[c] # NoInit
    /\ initialMu = Free
    /\ IF initOf[c] = initialId
       THEN /\ phase' = [phase EXCEPT ![c] = "task"]
            /\ UNCHANGED initialMu
       ELSE /\ phase' = [phase EXCEPT ![c] = "initializing"]
            /\ initialMu' = c
    /\ UNCHANGED <<counterVars, initOf, initialId, initRuns>>

(* Mutant: the id is recorded although the init run failed. *)
InitFailsRecorded(c) ==
    /\ phase[c] = "initializing"
    /\ initialId' = initOf[c]
    /\ initialMu' = Free
    /\ phase' = [phase EXCEPT ![c] = "returning"]
    /\ UNCHANGED <<counterVars, initOf, initRuns>>

(* Mutant: the mutex is not unlocked on the error path (no defer). *)
InitFailsLocked(c) ==
    /\ phase[c] = "initializing"
    /\ phase' = [phase EXCEPT ![c] = "returning"]
    /\ UNCHANGED <<counterVars, initOf, initialMu, initialId, initRuns>>

(* Mutant: the handler returns without giving its slot back (no defer). *)
InitFailsNoRelease(c) ==
    /\ phase[c] = "initializing"
    /\ initialMu' = Free
    /\ phase' = [phase EXCEPT ![c] = "none"]
    /\ UNCHANGED <<counterVars, initOf, initialId, initRuns>>

(* runWork returned an error: initialId stays, the deferred Unlock runs and *)
(* RunLoadTask returns the error.                                           *)
InitFails(c) ==
    /\ phase[c] = "initializing"
    /\ initialMu' = Free
    /\ phase' = [phase EXCEPT ![c] = "returning"]
    /\ UNCHANGED <<counterVars, initOf, initialId, initRuns>>

(* runWork succeeded: initialId = compute_task.Id. *)
InitSucceeds(c) ==
    /\ phase[c] = "initializing"
    /\ initialId' = initOf[c]
    /\ initRuns' = [initRuns EXCEPT ![initOf[c]] = IF @ < MaxInitRuns THEN @ + 1 ELSE @]
    /\ initialMu' = Free
    /\ phase' = [phase EXCEPT ![c] = "task"]
    /\ UNCHANGED <<counterVars, initOf>>

(* runWork(task.Task, "task") returns, with or without an error. *)
TaskReturns(c) ==
    /\ phase[c] = "task"
    /\ phase' = [phase EXCEPT ![c] = "returning"]
    /\ UNCHANGED <<counterVars, initOf, initialMu, initialId, initRuns>>

(* The handler returns: defer q.cnt.Release(). *)
ReleaseSlot(c) ==
    /\ phase[c] = "returning"
    /\ Release(c)
    /\ phase' = [phase EXCEPT ![c] = "none"]
    /\ initOf' = [initOf EXCEPT ![c] = NoInit]
    /\ UNCHANGED <<initialMu, initialId, initRuns>>

(* simulateWork exits the process (os.Exit(100)); it is started again. *)
Crash(c) ==
    /\ phase[c] \in {"initializing", "task"}
    /\ Restart
    /\ phase' = [d \in Calls |-> "none"]
    /\ initOf' = [d \in Calls |-> NoInit]
    /\ initialMu' = Free
    /\ initialId' = NoId
    /\ initRuns' = [i \in InitIds |-> 0]

RunLoadTask(c) ==
    \/ NothingToInit(c)
    \/ LockInit(c)
    \/ InitFails(c)
    \/ InitSucceeds(c)
    \/ TaskReturns(c)
    \/ ReleaseSlot(c)

Step(c) == AcquireSlot(c) \/ RunLoadTask(c)

Next ==
    \E c \in Calls : Request(c) \/ Step(c) \/ Crash(c)

Spec == Init /\ [][Next]_vars
-----------------------------------------------------------------------------
(* Types of the variables. *)
TypeOK ==
    /\ CounterTypeOK
    /\ phase \in [Calls -> {"none", "init", "initializing", "task", "returning"}]
    /\ initOf \in [Calls -> InitIds \cup {NoInit}]
    /\ initialMu \in Calls \cup {Free}
    /\ initialId \in InitIds \cup {NoId}
    /\ initRuns \in [InitIds -> 0..MaxInitRuns]

(* The calls inside RunLoadTask are the calls that hold a slot, and the    *)
(* mutex is locked by the one call that is running an init part: no path   *)
(* leaves with a slot or with the mutex.                                   *)
LocksFollowPhase ==
    /\ \A c \in Calls : (phase[c] # "none") <=> (call[c] = "holding")
    /\ \A c \in Calls : (phase[c] = "initializing") <=> (initialMu = c)

(* "Only run once per thread (regardless of workers)" (simulator.go:102):  *)
(* no call runs an init part when the last one that succeeded in the       *)
(* process had the same id, also when it succeeded while this call was     *)
(* waiting for the mutex.                                                  *)
InitOnlyWhenNew == \A c \in Calls : phase[c] = "initializing" => initialId # initOf[c]

(* A task that comes with an init part runs in a process in which that     *)
(* part has succeeded, whatever ids the other calls bring in between and   *)
(* whatever fails; the id -1 counts as initialised from the start.  (The   *)
(* process may have initialised another id since: initialize is over when  *)
(* the task runs, and only the slots limit who else is inside.)            *)
TaskIsInitialised ==
    \A c \in Calls :
        phase[c] = "task" /\ initOf[c] # NoInit =>
            initRuns[initOf[c]] > 0 \/ initOf[c] = NoId

(* "Initialization task (do it only once for the same id!)"                *)
(* (request.proto:55): a process completes the init part of an id once.    *)
InitOnceForSameId == \A i \in InitIds : initRuns[i] <= 1

(* A handler that has a slot gives it back (or the process exits): waiting *)
(* for initialMu with a slot in hand does not block the service.           *)
SlotIsReturned ==
    \A c \in Calls : (call[c] = "holding") ~> (call[c] # "holding")
=============================================================================
