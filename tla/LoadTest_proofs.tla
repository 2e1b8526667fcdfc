--------------------------- MODULE LoadTest_proofs ---------------------------
(***************************************************************************)
(* Proofs about LoadTest: first the work counter, for every finite set of  *)
(* calls and every limit; then the service that uses it, for every set of  *)
(* init ids; then the data commands, for every number of tasks, files,     *)
(* workers and buffers.                                                    *)
(***************************************************************************)
EXTENDS LoadTest, FiniteSetTheorems, SequenceTheorems, TLAPS

SlotsExact == Cardinality(Holding) = currentWorkers

(* The counter, the queue of the condition variable and the calls' states  *)
(* agree, and no wake-up is lost: together this is inductive.              *)
CounterInv ==
    /\ CounterTypeOK
    /\ SlotsExact
    /\ WaitersAreBlocked
    /\ NoLostWakeup

LEMMA FiniteParts ==
    /\ IsFiniteSet(Holding) /\ Cardinality(Holding) \in Nat
    /\ IsFiniteSet(Calling) /\ Cardinality(Calling) \in Nat
<1>1. Holding \in SUBSET Calls /\ Calling \in SUBSET Calls
  BY DEF Holding, Calling
<1> QED
  BY <1>1, CallsAssumption, FS_Subset, FS_CardinalityType

LEMMA InitEstablishes == CounterInit => CounterInv
<1> SUFFICES ASSUME CounterInit PROVE CounterInv
  OBVIOUS
<1>1. Holding = {}
  BY DEF CounterInit, Holding
<1>2. SlotsExact
  BY <1>1, FS_EmptySet DEF CounterInit, SlotsExact
<1>3. CounterTypeOK /\ NoLostWakeup
  BY WorkersAssumption DEF CounterInit, CounterTypeOK, NoLostWakeup
<1>4. WaitersAreBlocked
  BY EmptySeq DEF CounterInit, WaitersAreBlocked
<1> QED
  BY <1>2, <1>3, <1>4 DEF CounterInv

(* A new call is one more on its way to a slot. *)
LEMMA ArrivePreserves ==
    ASSUME CounterInv, NEW c \in Calls, Arrive(c)
    PROVE  CounterInv'
<1>1. Holding' = Holding /\ Calling' = Calling \cup {c} /\ c \notin Calling
  BY DEF Arrive, CounterInv, CounterTypeOK, Holding, Calling
<1>2. Cardinality(Calling') = Cardinality(Calling) + 1
  BY <1>1, FiniteParts, FS_AddElement
<1>3. CounterTypeOK'
  BY DEF Arrive, CounterInv, CounterTypeOK
<1>4. SlotsExact'
  BY <1>1 DEF Arrive, CounterInv, SlotsExact
<1>5. WaitersAreBlocked'
  BY DEF Arrive, CounterInv, CounterTypeOK, WaitersAreBlocked
<1>6. NoLostWakeup'
  BY <1>2, FiniteParts, WorkersAssumption
     DEF Arrive, CounterInv, CounterTypeOK, NoLostWakeup
<1> QED
  BY <1>3, <1>4, <1>5, <1>6 DEF CounterInv

(* The call finds no free slot and joins the queue. *)
LEMMA BlockPreserves ==
    ASSUME CounterInv, NEW c \in Calls, Acquire(c), currentWorkers >= MaxWorkers
    PROVE  CounterInv'
<1> DEFINE n == Len(waiters)
<1>1. /\ call[c] = "calling"
      /\ waiters' = Append(waiters, c)
      /\ call' = [call EXCEPT ![c] = "blocked"]
      /\ currentWorkers' = currentWorkers
  BY DEF Acquire
<1>2. /\ n \in Nat
      /\ waiters' \in Seq(Calls)
      /\ Len(waiters') = n + 1
      /\ \A k \in 1..n : waiters'[k] = waiters[k]
      /\ waiters'[n + 1] = c
      /\ \A k \in 1..n : waiters[k] \in Calls
  BY <1>1, AppendProperties, LenProperties, ElementOfSeq DEF CounterInv, CounterTypeOK
<1>3. Holding' = Holding
  BY <1>1 DEF CounterInv, CounterTypeOK, Holding
<1>4. CounterTypeOK'
  BY <1>1, <1>2 DEF CounterInv, CounterTypeOK
<1>5. SlotsExact'
  BY <1>1, <1>3 DEF CounterInv, SlotsExact
<1>6. WaitersAreBlocked'
  <2>1. \A k \in 1..n : waiters[k] # c
    BY <1>1, <1>2 DEF CounterInv, WaitersAreBlocked
  <2>2. \A d \in Calls : call'[d] = "blocked" <=> call[d] = "blocked" \/ d = c
    BY <1>1 DEF CounterInv, CounterTypeOK
  <2>3. {d \in Calls : call'[d] = "blocked"} = {waiters'[k] : k \in 1..(n + 1)}
    BY <1>2, <2>2 DEF CounterInv, WaitersAreBlocked
  <2>4. \A j, k \in 1..(n + 1) : waiters'[j] = waiters'[k] => j = k
    BY <1>2, <2>1 DEF CounterInv, WaitersAreBlocked
  <2> QED
    BY <1>2, <2>3, <2>4 DEF WaitersAreBlocked
<1>7. NoLostWakeup'
  <2>1. Calling' \in SUBSET Calls
    BY DEF Calling
  <2>2. Cardinality(Calling') \in Nat
    BY <2>1, CallsAssumption, FS_Subset, FS_CardinalityType
  <2> QED
    BY <1>1, <2>2, WorkersAssumption DEF CounterInv, CounterTypeOK, NoLostWakeup
<1> QED
  BY <1>4, <1>5, <1>6, <1>7 DEF CounterInv

(* The call takes a free slot: one slot and one call on its way fewer. *)
LEMMA TakePreserves ==
    ASSUME CounterInv, NEW c \in Calls, Acquire(c), ~(currentWorkers >= MaxWorkers)
    PROVE  CounterInv'
<1>1. /\ call[c] = "calling"
      /\ currentWorkers' = currentWorkers + 1
      /\ call' = [call EXCEPT ![c] = "holding"]
      /\ waiters' = waiters
  BY DEF Acquire
<1>2. /\ Holding' = Holding \cup {c} /\ c \notin Holding
      /\ Calling' = Calling \ {c} /\ c \in Calling
  BY <1>1 DEF CounterInv, CounterTypeOK, Holding, Calling
<1>3. Cardinality(Holding') = Cardinality(Holding) + 1
  BY <1>2, FiniteParts, FS_AddElement
<1>4. Cardinality(Calling') = Cardinality(Calling) - 1
  BY <1>2, FiniteParts, FS_RemoveElement
<1>5. CounterTypeOK'
  BY <1>1, WorkersAssumption DEF CounterInv, CounterTypeOK
<1>6. SlotsExact'
  BY <1>1, <1>3 DEF CounterInv, SlotsExact
<1>7. WaitersAreBlocked'
  BY <1>1 DEF CounterInv, CounterTypeOK, WaitersAreBlocked
<1>8. NoLostWakeup'
  BY <1>1, <1>4, FiniteParts, WorkersAssumption DEF CounterInv, CounterTypeOK, NoLostWakeup
<1> QED
  BY <1>5, <1>6, <1>7, <1>8 DEF CounterInv

(* Releasing with nobody in the queue, and with somebody to wake. *)
LEMMA ReleasePreserves ==
    ASSUME CounterInv, NEW c \in Calls, Release(c)
    PROVE  CounterInv'
<1>1. call[c] = "holding" /\ currentWorkers' = currentWorkers - 1
  BY DEF Release
<1>2. c \in Holding
  BY <1>1 DEF Holding
<1>3. Cardinality(Holding \ {c}) = Cardinality(Holding) - 1
      /\ Cardinality(Holding \ {c}) \in Nat
  BY <1>2, FiniteParts, FS_RemoveElement, FS_CardinalityType
<1>4. currentWorkers' \in 0..MaxWorkers
  BY <1>1, <1>3, WorkersAssumption DEF CounterInv, CounterTypeOK, SlotsExact
<1>5. CASE waiters = <<>>
  <2>1. call' = [call EXCEPT ![c] = "idle"] /\ waiters' = waiters
    BY <1>5 DEF Release
  <2>2. Holding' = Holding \ {c}
    BY <2>1 DEF CounterInv, CounterTypeOK, Holding
  <2>3. CounterTypeOK'
    BY <1>4, <2>1 DEF CounterInv, CounterTypeOK
  <2>4. SlotsExact'
    BY <1>1, <1>3, <2>2 DEF CounterInv, SlotsExact
  <2>5. WaitersAreBlocked'
    BY <1>1, <2>1 DEF CounterInv, CounterTypeOK, WaitersAreBlocked
  <2>6. NoLostWakeup'
    BY <1>5, <2>1 DEF NoLostWakeup
  <2> QED
    BY <2>3, <2>4, <2>5, <2>6 DEF CounterInv
<1>6. CASE waiters # <<>>
  <2> DEFINE h == Head(waiters)
  <2>1. /\ call' = [call EXCEPT ![c] = "idle", ![h] = "calling"]
        /\ waiters' = Tail(waiters)
    BY <1>6 DEF Release
  <2>2. /\ h \in Calls /\ h = waiters[1]
        /\ Len(waiters) \in Nat \ {0}
        /\ waiters' \in Seq(Calls)
        /\ Len(waiters') = Len(waiters) - 1
        /\ \A k \in 1..Len(waiters') : waiters'[k] = waiters[k + 1]
    BY <1>6, <2>1, HeadTailProperties, EmptySeq DEF CounterInv, CounterTypeOK
  <2>3. call[h] = "blocked" /\ h # c
    BY <1>1, <2>2 DEF CounterInv, WaitersAreBlocked
  <2>4. /\ Holding' = Holding \ {c}
        /\ Calling' = Calling \cup {h} /\ h \notin Calling
    BY <1>1, <2>1, <2>2, <2>3 DEF CounterInv, CounterTypeOK, Holding, Calling
  <2>5. Cardinality(Calling') = Cardinality(Calling) + 1
    BY <2>4, FiniteParts, FS_AddElement
  <2>6. CounterTypeOK'
    BY <1>4, <2>1, <2>2 DEF CounterInv, CounterTypeOK
  <2>7. SlotsExact'
    BY <1>1, <1>3, <2>4 DEF CounterInv, SlotsExact
  <2>8. WaitersAreBlocked'
    <3>1. \A d \in Calls : call'[d] = "blocked" <=> call[d] = "blocked" /\ d # h
      BY <1>1, <2>1, <2>2, <2>3 DEF CounterInv, CounterTypeOK
    <3>2. \A d \in Calls : call'[d] = "blocked" =>
             \E k \in 1..Len(waiters') : waiters'[k] = d
      <4> SUFFICES ASSUME NEW d \in Calls, call'[d] = "blocked"
                   PROVE  \E k \in 1..Len(waiters') : waiters'[k] = d
        OBVIOUS
      <4>1. call[d] = "blocked" /\ d # h
        BY <3>1
      <4>2. PICK j \in 1..Len(waiters) : waiters[j] = d
        BY <4>1 DEF CounterInv, WaitersAreBlocked
      <4>3. j # 1
        BY <2>2, <4>1, <4>2
      <4>4. j - 1 \in 1..Len(waiters') /\ waiters'[j - 1] = d
        BY <2>2, <4>2, <4>3
      <4> QED
        BY <4>4
    <3>3. \A k \in 1..Len(waiters') : waiters'[k] \in Calls /\ call'[waiters'[k]] = "blocked"
      <4> SUFFICES ASSUME NEW k \in 1..Len(waiters')
                   PROVE  waiters'[k] \in Calls /\ call'[waiters'[k]] = "blocked"
        OBVIOUS
      <4>1. k + 1 \in 1..Len(waiters) /\ waiters'[k] = waiters[k + 1] /\ k + 1 # 1
        BY <2>2
      <4>2. waiters[k + 1] \in Calls /\ call[waiters[k + 1]] = "blocked"
        BY <4>1 DEF CounterInv, WaitersAreBlocked
      <4>3. waiters[k + 1] # h
        BY <2>2, <4>1 DEF CounterInv, WaitersAreBlocked
      <4> QED
        BY <3>1, <4>1, <4>2, <4>3
    <3>4. \A j, k \in 1..Len(waiters') : waiters'[j] = waiters'[k] => j = k
      BY <2>2 DEF CounterInv, WaitersAreBlocked
    <3>5. {d \in Calls : call'[d] = "blocked"} = {waiters'[k] : k \in 1..Len(waiters')}
      BY <3>2, <3>3
    <3> QED
      BY <3>4, <3>5 DEF WaitersAreBlocked
  <2>9. NoLostWakeup'
    BY <1>1, <1>6, <2>5, FiniteParts, WorkersAssumption
       DEF CounterInv, CounterTypeOK, NoLostWakeup
  <2> QED
    BY <2>6, <2>7, <2>8, <2>9 DEF CounterInv
<1> QED
  BY <1>5, <1>6

LEMMA RestartPreserves == Restart => CounterInv'
<1> SUFFICES ASSUME Restart PROVE CounterInv'
  OBVIOUS
<1>1. Holding' = {}
  BY DEF Restart, Holding
<1>2. SlotsExact'
  BY <1>1, FS_EmptySet DEF Restart, SlotsExact
<1>3. CounterTypeOK' /\ NoLostWakeup'
  BY WorkersAssumption DEF Restart, CounterTypeOK, NoLostWakeup
<1>4. WaitersAreBlocked'
  BY EmptySeq DEF Restart, WaitersAreBlocked
<1> QED
  BY <1>2, <1>3, <1>4 DEF CounterInv

LEMMA StutterPreserves == CounterInv /\ UNCHANGED counterVars => CounterInv'
BY DEF counterVars, CounterInv, CounterTypeOK, SlotsExact, WaitersAreBlocked,
       NoLostWakeup, Holding, Calling

LEMMA NextPreserves == CounterInv /\ [CounterNext]_counterVars => CounterInv'
BY ArrivePreserves, BlockPreserves, TakePreserves, ReleasePreserves,
   RestartPreserves, StutterPreserves DEF CounterNext

(* The semaphore's invariant holds in every reachable state. *)
THEOREM CounterInvariance == CounterSpec => []CounterInv
BY InitEstablishes, NextPreserves, PTL DEF CounterSpec

(* Never more than maxWorkers calls hold a slot, and currentWorkers says   *)
(* how many do.                                                            *)
THEOREM SlotsAreCounted == CounterSpec => [](CounterTypeOK /\ SlotsCounted)
<1>1. CounterInv => CounterTypeOK /\ SlotsCounted
  BY WorkersAssumption DEF CounterInv, CounterTypeOK, SlotsExact, SlotsCounted
<1> QED
  BY <1>1, CounterInvariance, PTL

(* A blocked call is never left behind while a slot is free: as many calls *)
(* as there are free slots are on their way to take them.                  *)
THEOREM NoWakeupIsLost == CounterSpec => []NoLostWakeup
<1>1. CounterInv => NoLostWakeup
  BY DEF CounterInv
<1> QED
  BY <1>1, CounterInvariance, PTL
-----------------------------------------------------------------------------
(* Every step of the service is a step of the work counter or none at all. *)
LEMMA StepUsesCounter == [Next]_vars => [CounterNext]_counterVars
<1> SUFFICES ASSUME [Next]_vars PROVE [CounterNext]_counterVars
  OBVIOUS
<1>1. ASSUME NEW c \in Calls, Request(c) PROVE CounterNext
  BY <1>1 DEF Request, CounterNext
<1>2. ASSUME NEW c \in Calls, Step(c) PROVE [CounterNext]_counterVars
  BY <1>2 DEF Step, RunLoadTask, AcquireSlot, NothingToInit, LockInit, InitFails, InitSucceeds,
              TaskReturns, ReleaseSlot, CounterNext
<1>3. ASSUME NEW c \in Calls, Crash(c) PROVE CounterNext
  BY <1>3 DEF Crash, CounterNext
<1>4. UNCHANGED vars => UNCHANGED counterVars
  BY DEF vars
<1> QED
  BY <1>1, <1>2, <1>3, <1>4 DEF Next

(* The service implements the work counter. *)
THEOREM ServiceUsesCounter == Spec => CounterSpec
<1>1. Init => CounterInit
  BY DEF Init
<1> QED
  BY <1>1, StepUsesCounter, PTL DEF Spec, CounterSpec

(* The counter's invariant in the composition. *)
THEOREM ServiceCounterInv == Spec => []CounterInv
BY ServiceUsesCounter, CounterInvariance, PTL

-----------------------------------------------------------------------------
(* A call that runs an init part has one, and its id is not the last one   *)
(* initialised: nobody else can change initialId while it has the mutex.   *)
(* The last id's init part has succeeded, unless it is the -1 of the start.*)
InitInv ==
    /\ \A c \in Calls : phase[c] = "initializing" => initOf[c] \in InitIds \ {initialId}
    /\ initialId # NoId => initRuns[initialId] > 0
    /\ TaskIsInitialised

ServiceInv == TypeOK /\ LocksFollowPhase /\ InitInv

LEMMA ServiceInit == Init => ServiceInv
<1> SUFFICES ASSUME Init PROVE ServiceInv
  OBVIOUS
<1>1. CounterTypeOK
  BY InitEstablishes DEF Init, CounterInv
<1>2. TypeOK
  BY <1>1, InitIdsAssumption DEF Init, TypeOK
<1>3. LocksFollowPhase
  BY InitIdsAssumption DEF Init, CounterInit, LocksFollowPhase
<1>4. InitInv
  BY DEF Init, InitInv, TaskIsInitialised
<1> QED
  BY <1>2, <1>3, <1>4 DEF ServiceInv

LEMMA RequestPreserves ==
    ASSUME ServiceInv, CounterTypeOK', NEW c \in Calls, Request(c)
    PROVE  ServiceInv'
<1>1. TypeOK'
  BY DEF Request, taskVars, ServiceInv, TypeOK
<1>2. LocksFollowPhase'
  BY DEF Request, taskVars, Arrive, ServiceInv, TypeOK, CounterTypeOK, LocksFollowPhase
<1>3. InitInv'
  BY DEF Request, taskVars, ServiceInv, InitInv, TaskIsInitialised
<1> QED
  BY <1>1, <1>2, <1>3 DEF ServiceInv

LEMMA AcquireSlotPreserves ==
    ASSUME ServiceInv, CounterTypeOK', NEW c \in Calls, AcquireSlot(c)
    PROVE  ServiceInv'
<1>1. phase[c] = "none"
  BY DEF AcquireSlot, Acquire, ServiceInv, TypeOK, CounterTypeOK, LocksFollowPhase
<1>2. TypeOK'
  BY DEF AcquireSlot, ServiceInv, TypeOK
<1>3. LocksFollowPhase'
  BY <1>1 DEF AcquireSlot, Acquire, ServiceInv, TypeOK, CounterTypeOK, LocksFollowPhase
<1>4. InitInv'
  BY <1>1 DEF AcquireSlot, ServiceInv, TypeOK, InitInv, TaskIsInitialised
<1> QED
  BY <1>2, <1>3, <1>4 DEF ServiceInv

(* The steps inside RunLoadTask, which leave the counter alone. *)
LEMMA InsidePreserves ==
    ASSUME ServiceInv, NEW c \in Calls,
           NothingToInit(c) \/ LockInit(c) \/ InitFails(c) \/ InitSucceeds(c) \/ TaskReturns(c)
    PROVE  ServiceInv'
<1> USE DEF ServiceInv, TypeOK
<1>1. CASE NothingToInit(c)
  <2>1. TypeOK'
    BY <1>1 DEF NothingToInit, CounterTypeOK, counterVars
  <2>2. LocksFollowPhase'
    BY <1>1 DEF NothingToInit, LocksFollowPhase, counterVars
  <2>3. InitInv'
    BY <1>1 DEF NothingToInit, InitInv, TaskIsInitialised
  <2> QED
    BY <2>1, <2>2, <2>3
<1>2. CASE LockInit(c)
  <2>1. TypeOK'
    BY <1>2 DEF LockInit, CounterTypeOK, counterVars
  <2>2. LocksFollowPhase'
    BY <1>2, InitIdsAssumption DEF LockInit, LocksFollowPhase, counterVars
  <2>3. InitInv'
    BY <1>2 DEF LockInit, InitInv, TaskIsInitialised
  <2> QED
    BY <2>1, <2>2, <2>3
<1>3. CASE InitFails(c)
  <2>1. TypeOK'
    BY <1>3 DEF InitFails, CounterTypeOK, counterVars
  <2>2. LocksFollowPhase'
    BY <1>3, InitIdsAssumption DEF InitFails, LocksFollowPhase, counterVars
  <2>3. InitInv'
    BY <1>3 DEF InitFails, InitInv, TaskIsInitialised
  <2> QED
    BY <2>1, <2>2, <2>3
<1>4. CASE InitSucceeds(c)
  <2>1. initOf[c] \in InitIds
    BY <1>4 DEF InitSucceeds, InitInv
  <2>2. \A d \in Calls : phase[d] = "initializing" => d = c
    BY <1>4 DEF InitSucceeds, LocksFollowPhase
  <2> DEFINE n == initRuns[initOf[c]]
  <2>3. (IF n < MaxInitRuns THEN n + 1 ELSE n) \in 1..MaxInitRuns
    BY <2>1, InitIdsAssumption
  <2>4. /\ initRuns' \in [InitIds -> 0..MaxInitRuns]
        /\ initRuns'[initOf[c]] > 0
        /\ \A i \in InitIds : initRuns[i] > 0 => initRuns'[i] > 0
    BY <1>4, <2>1, <2>3 DEF InitSucceeds
  <2> HIDE DEF n
  <2>5. TypeOK'
    BY <1>4, <2>1, <2>4 DEF InitSucceeds, CounterTypeOK, counterVars
  <2>6. LocksFollowPhase'
    BY <1>4, InitIdsAssumption DEF InitSucceeds, LocksFollowPhase, counterVars
  <2>7. InitInv'
    BY <1>4, <2>1, <2>2, <2>4 DEF InitSucceeds, InitInv, TaskIsInitialised
  <2> QED
    BY <2>5, <2>6, <2>7
<1>5. CASE TaskReturns(c)
  <2>1. TypeOK'
    BY <1>5 DEF TaskReturns, CounterTypeOK, counterVars
  <2>2. LocksFollowPhase'
    BY <1>5 DEF TaskReturns, LocksFollowPhase, counterVars
  <2>3. InitInv'
    BY <1>5 DEF TaskReturns, InitInv, TaskIsInitialised
  <2> QED
    BY <2>1, <2>2, <2>3
<1> QED
  BY <1>1, <1>2, <1>3, <1>4, <1>5

(* The call that is woken had no slot and is not in RunLoadTask. *)
LEMMA ReleaseSlotPreserves ==
    ASSUME ServiceInv, CounterInv, CounterTypeOK', NEW c \in Calls, ReleaseSlot(c)
    PROVE  ServiceInv'
<1>1. waiters # <<>> => Head(waiters) \in Calls /\ call[Head(waiters)] = "blocked"
  <2> SUFFICES ASSUME waiters # <<>>
               PROVE  Head(waiters) \in Calls /\ call[Head(waiters)] = "blocked"
    OBVIOUS
  <2>1. Head(waiters) = waiters[1] /\ 1 \in 1..Len(waiters)
    BY EmptySeq DEF CounterInv, CounterTypeOK
  <2> QED
    BY <2>1 DEF CounterInv, WaitersAreBlocked
<1>2. \A d \in Calls : (call'[d] = "holding") <=> (call[d] = "holding" /\ d # c)
  BY <1>1 DEF ReleaseSlot, Release, CounterInv, CounterTypeOK
<1>3. \A d \in Calls : phase'[d] = IF d = c THEN "none" ELSE phase[d]
  BY DEF ReleaseSlot, ServiceInv, TypeOK
<1>4. phase[c] = "returning"
  BY DEF ReleaseSlot
<1>5. TypeOK'
  BY DEF ReleaseSlot, ServiceInv, TypeOK
<1>6. LocksFollowPhase'
  BY <1>2, <1>3, <1>4 DEF ReleaseSlot, ServiceInv, LocksFollowPhase
<1>7. InitInv'
  BY <1>3 DEF ReleaseSlot, ServiceInv, TypeOK, InitInv, TaskIsInitialised
<1> QED
  BY <1>5, <1>6, <1>7 DEF ServiceInv

LEMMA CrashPreserves ==
    ASSUME NEW c \in Calls, Crash(c), CounterTypeOK'
    PROVE  ServiceInv'
<1>1. TypeOK'
  BY InitIdsAssumption DEF Crash, TypeOK
<1>2. LocksFollowPhase'
  BY InitIdsAssumption DEF Crash, Restart, LocksFollowPhase
<1>3. InitInv'
  BY DEF Crash, InitInv, TaskIsInitialised
<1> QED
  BY <1>1, <1>2, <1>3 DEF ServiceInv

LEMMA ServiceNext ==
    ServiceInv /\ CounterInv /\ CounterInv' /\ [Next]_vars => ServiceInv'
<1> SUFFICES ASSUME ServiceInv, CounterInv, CounterInv', [Next]_vars PROVE ServiceInv'
  OBVIOUS
<1>1. CounterTypeOK'
  BY DEF CounterInv
<1>2. CASE UNCHANGED vars
  BY <1>2 DEF vars, taskVars, counterVars, ServiceInv, TypeOK, CounterTypeOK,
              LocksFollowPhase, InitInv, TaskIsInitialised
<1> QED
  BY <1>1, <1>2, RequestPreserves, AcquireSlotPreserves, InsidePreserves,
     ReleaseSlotPreserves, CrashPreserves DEF Next, Step, RunLoadTask

THEOREM ServiceInvariance == Spec => []ServiceInv
BY ServiceInit, ServiceNext, ServiceCounterInv, PTL DEF Spec

(* No path through RunLoadTask, with or without errors, keeps a slot or    *)
(* the initialisation mutex.                                               *)
THEOREM LocksAreReturned == Spec => []LocksFollowPhase
<1>1. ServiceInv => LocksFollowPhase
  BY DEF ServiceInv
<1> QED
  BY <1>1, ServiceInvariance, PTL

(* For all init ids the tasks bring, in any order, -1 included: no call    *)
(* runs an init part that was the last to succeed.                         *)
THEOREM InitRunsOnlyWhenNew == Spec => []InitOnlyWhenNew
<1>1. ServiceInv => InitOnlyWhenNew
  BY DEF ServiceInv, InitInv, InitOnlyWhenNew
<1> QED
  BY <1>1, ServiceInvariance, PTL

(* For all init ids the tasks bring: the init part of a task that runs has *)
(* succeeded in this process, whatever other ids came in between and       *)
(* whatever failed.                                                        *)
THEOREM TasksAreInitialised == Spec => []TaskIsInitialised
<1>1. ServiceInv => TaskIsInitialised
  BY DEF ServiceInv, InitInv
<1> QED
  BY <1>1, ServiceInvariance, PTL
-----------------------------------------------------------------------------
(* Where gentasks is, in the task it makes and the line it writes. *)
GenInv ==
    /\ made \in Nat /\ written \in Nat
    /\ gen \in {"make", "text", "newline", "close", "exited"}
    /\ gen = "make" => made = written
    /\ gen \in {"text", "newline"} => made = written + 1
    /\ gen \in {"make", "text", "newline"} => genCode = 0 /\ tail = "none"
    /\ gen = "close" => \/ genCode = 0 /\ made = written /\ tail = "none"
                        \/ genCode = 1 /\ made = written + 1
    /\ gen # "exited" => file = None /\ load = "waiting"

(* No more than the made tasks are found under the name, and all of them   *)
(* where a part is not found.                                              *)
FileInv ==
    file # None =>
        /\ file.lines \in Nat
        /\ Tokens <= made
        /\ (compression # "plain" \/ store = "object") /\ file.ended => Tokens = made

(* Where load is, in what it scanned and ran. *)
LoadInv ==
    /\ load \in {"waiting", "scan", "run", "exited"}
    /\ scanned \in Nat /\ tasksRun \in Nat
    /\ load # "exited" => loadCode = 0
    /\ load = "waiting" => scanned = 0 /\ tasksRun = 0
    /\ load = "scan" => scanned = tasksRun /\ file # None
    /\ load = "run" => scanned = tasksRun + 1 /\ file # None
    /\ load = "exited" /\ loadCode = 0 => file # None /\ file.ended /\ tasksRun = Tokens

TasksInv ==
    /\ compression \in Compressions /\ store \in Stores
    /\ GenInv /\ FileInv /\ LoadInv

LEMMA TasksInitInv == TasksInit => TasksInv
  BY DEF TasksInit, TasksInv, GenInv, FileInv, LoadInv

(* What a failed or a whole output leaves. *)
LEMMA CloseInv ==
    ASSUME TasksInv, CloseOutput
    PROVE  FileInv'
<1>1. /\ file' \in (IF genCode = 0 THEN {Whole} ELSE Remains(TRUE)) \cup Remains(FALSE)
      /\ UNCHANGED <<made, written, tail, compression, store>>
  BY DEF CloseOutput, kind
<1>2. made \in Nat /\ written \in Nat
      /\ \/ genCode = 0 /\ made = written /\ tail = "none"
         \/ genCode = 1 /\ made = written + 1
  BY DEF TasksInv, GenInv, CloseOutput
<1>3. CASE file' = Whole /\ genCode = 0
  BY <1>1, <1>2, <1>3 DEF Whole, FileInv, Tokens
<1>4. CASE file' = None
  BY <1>4 DEF FileInv
<1>5. CASE /\ store # "object" /\ genCode = 1 /\ compression = "plain"
           /\ file' = [lines |-> written, tail |-> tail, ended |-> TRUE]
  BY <1>1, <1>2, <1>5 DEF FileInv, Tokens
<1>6. CASE store # "object" /\ file' \in FirstPart
  <2>1. /\ file'.lines \in 0..written
        /\ file'.lines = written /\ file'.tail = "unterminated" => tail = "unterminated"
    BY <1>6 DEF FirstPart
  <2>2. compression # "plain" => ~file'.ended
    BY <1>6 DEF FirstPart
  <2>3. (IF file'.tail = "unterminated" THEN file'.lines + 1 ELSE file'.lines) <= made
    BY <1>2, <2>1
  <2> QED BY <1>1, <1>6, <2>1, <2>2, <2>3 DEF FileInv, Tokens
<1> QED BY <1>1, <1>2, <1>3, <1>4, <1>5, <1>6 DEF Remains

LEMMA GenTasksInv ==
    ASSUME TasksInv, GenTasks
    PROVE  TasksInv'
<1>1. /\ UNCHANGED <<load, scanned, tasksRun, loadCode, compression, store>>
      /\ gen # "exited"
  BY DEF GenTasks, CreateFails, MakeTask, DataEnds, WriteText, WriteNewline, WriteFails,
     CloseOutput, loadVars, kind
<1>2. load = "waiting"
  BY <1>1 DEF TasksInv, GenInv
<1>3. LoadInv'
  BY <1>1, <1>2 DEF TasksInv, LoadInv
<1>4. CASE CloseOutput
  <2>1. GenInv'
    BY <1>4 DEF CloseOutput, TasksInv, GenInv
  <2> QED BY <1>1, <1>3, <1>4, <2>1, CloseInv DEF TasksInv
<1>5. CASE CreateFails \/ MakeTask \/ DataEnds \/ WriteText \/ WriteNewline \/ WriteFails
  <2>1. file' = None
    BY <1>1, <1>5 DEF CreateFails, MakeTask, DataEnds, WriteText, WriteNewline, WriteFails,
       TasksInv, GenInv
  <2>2. GenInv'
    BY <1>1, <1>2, <1>5, <2>1 DEF CreateFails, MakeTask, DataEnds, WriteText, WriteNewline,
       WriteFails, TasksInv, GenInv
  <2> QED BY <1>1, <1>3, <2>1, <2>2 DEF TasksInv, FileInv
<1> QED BY <1>4, <1>5 DEF GenTasks

LEMMA LoadTasksInv ==
    ASSUME TasksInv, Load
    PROVE  TasksInv'
<1>1. UNCHANGED <<gen, made, written, tail, genCode, file, compression, store>>
  BY DEF Load, OpenInput, OpenFails, ScanLine, ScanFails, ScanEnds, RunTask, RunTaskFails,
     LoadFails, genVars, kind
<1>2. gen = "exited"
  BY DEF Load, OpenInput, OpenFails, ScanLine, ScanFails, ScanEnds, RunTask, RunTaskFails,
     TasksInv, GenInv
<1>3. GenInv' /\ FileInv'
  BY <1>1, <1>2 DEF TasksInv, GenInv, FileInv, Tokens
<1>4. LoadInv'
  <2>1. CASE OpenInput
    BY <1>1, <2>1 DEF OpenInput, TasksInv, LoadInv
  <2>2. CASE LoadFails
    BY <1>1, <2>2 DEF LoadFails, TasksInv, LoadInv
  <2>3. CASE ScanLine
    BY <1>1, <2>3 DEF ScanLine, TasksInv, LoadInv
  <2>4. CASE ScanEnds
    BY <1>1, <2>4 DEF ScanEnds, TasksInv, LoadInv, Tokens
  <2>5. CASE RunTask
    BY <1>1, <2>5 DEF RunTask, TasksInv, LoadInv
  <2>6. CASE RunTaskFails
    BY <1>1, <2>6 DEF RunTaskFails, TasksInv, LoadInv
  <2> QED BY <2>1, <2>2, <2>3, <2>4, <2>5, <2>6 DEF Load, OpenFails, ScanFails
<1> QED BY <1>1, <1>3, <1>4 DEF TasksInv

(* A load that ends well has run all that gentasks made, for any number of *)
(* tasks and any failure; of a plain local file it has run no more.        *)
THEOREM LoadsAreWhole == TasksSpec => []LoadedIsWhole
<1>1. TasksInv /\ [TasksNext]_taskFileVars => TasksInv'
  <2> SUFFICES ASSUME TasksInv, [TasksNext]_taskFileVars PROVE TasksInv'
    OBVIOUS
  <2>1. CASE UNCHANGED taskFileVars
    BY <2>1 DEF taskFileVars, TasksInv, GenInv, FileInv, LoadInv, Tokens
  <2> QED BY <2>1, GenTasksInv, LoadTasksInv DEF TasksNext
<1>2. TasksInv => LoadedIsWhole
  BY DEF TasksInv, FileInv, LoadInv, LoadedIsWhole, Compressions, Stores
<1> QED BY <1>1, <1>2, TasksInitInv, PTL DEF TasksSpec
-----------------------------------------------------------------------------
(* In a bucket a file is whole or absent, and Close alone makes one, when  *)
(* all of it was written.                                                  *)
AtomicInv == gcs => stored \in [Pool!Items -> {Absent, Buffers}]

LEMMA FileStepInv ==
    ASSUME AtomicInv, NEW i \in Pool!Items, FileStep(i)
    PROVE  AtomicInv'
<1>1. UNCHANGED gcs
  BY DEF FileStep, Open, MoveBuffer, MoveFails, Close, Counted, SendResult, OnlyOp
<1>2. CASE ~gcs
  BY <1>1, <1>2 DEF AtomicInv
<1>3. CASE gcs /\ Close(i)
  <2>1. stored' = [stored EXCEPT ![i] = moved[i]] \/ UNCHANGED stored
    <3>1. stored \in [Pool!Items -> {Absent, Buffers}]
      BY <1>3 DEF AtomicInv
    <3>2. stored' = [stored EXCEPT ![i] = moved[i]] \/ stored' = [stored EXCEPT ![i] = stored[i]]
      BY <1>3 DEF Close
    <3> QED BY <3>1, <3>2
  <2>2. moved[i] = FileSize(i) /\ FileSize(i) \in {Absent, Buffers}
    BY <1>3 DEF Close, AtomicInv, FileSize
  <2> QED BY <1>1, <1>3, <2>1, <2>2 DEF AtomicInv
<1>4. CASE gcs /\ (Open(i) \/ MoveBuffer(i) \/ MoveFails(i) \/ Counted(i) \/ SendResult(i))
  <2>1. UNCHANGED stored
    <3>1. stored \in [Pool!Items -> {Absent, Buffers}]
      BY <1>4 DEF AtomicInv
    <3>2. stored' = [stored EXCEPT ![i] = stored[i]] \/ UNCHANGED stored
      <4>1. CASE Open(i) \/ MoveBuffer(i)
        BY <1>4, <4>1 DEF Open, MoveBuffer
      <4>2. CASE MoveFails(i) \/ Counted(i) \/ SendResult(i)
        BY <4>2 DEF MoveFails, Counted, SendResult, opVars
      <4> QED BY <1>4, <4>1, <4>2
    <3> QED BY <3>1, <3>2
  <2> QED BY <1>1, <2>1 DEF AtomicInv
<1> QED BY <1>2, <1>3, <1>4 DEF FileStep

(* WriteBytes leaves an object whole or none, for every number of files,   *)
(* buffers and workers and whatever fails.                                 *)
THEOREM ObjectsWhole == DataSpec => []ObjectsAreAtomic
<1>1. DataInit => AtomicInv
  BY DEF DataInit, AtomicInv
<1>2. AtomicInv /\ [DataNext]_dataVars => AtomicInv'
  <2> SUFFICES ASSUME AtomicInv, [DataNext]_dataVars PROVE AtomicInv'
    OBVIOUS
  <2>1. CASE Prepare \/ Dispatcher \/ LogStatistics \/ UNCHANGED dataVars
    <3>1. UNCHANGED <<stored, gcs>>
      BY <2>1 DEF Prepare, Dispatcher, LogStatistics, dataVars, opVars
    <3> QED BY <3>1 DEF AtomicInv
  <2>2. CASE \E i \in Pool!Items : FileStep(i)
    BY <2>2, FileStepInv
  <2> QED BY <2>1, <2>2 DEF DataNext
<1>3. AtomicInv => ObjectsAreAtomic
  BY DEF AtomicInv, ObjectsAreAtomic
<1> QED BY <1>1, <1>2, <1>3, PTL DEF DataSpec
-----------------------------------------------------------------------------
(* The program is its commands: what is proved of one holds of a process   *)
(* that runs it, and of one that runs another.                             *)
THEOREM ProgramRunsCommands == ProgramFairSpec => Spec /\ DataSpec /\ TasksSpec
<1>1. ProgramInit => Init /\ DataInit /\ TasksInit
  BY DEF ProgramInit
<1>2. [ProgramNext]_programVars
        => [Next]_vars /\ [DataNext]_dataVars /\ [TasksNext]_taskFileVars
  BY DEF ProgramNext, Serve, Data, Tasks, Ended, programVars
<1> QED BY <1>1, <1>2, PTL DEF ProgramFairSpec, Spec, DataSpec, TasksSpec
=============================================================================
