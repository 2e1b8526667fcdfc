------------------------- MODULE ApplyParallel_proofs -------------------------
(***************************************************************************)
(* Proofs about ApplyParallel, for every number of items, workers and CPUs.*)
(***************************************************************************)
EXTENDS ApplyParallel, FiniteSetTheorems, SequenceTheorems, TLAPS

(* The queue of senders: finished items, each once. *)
QueueInv ==
    /\ \A k \in 1..Len(err_ch) : task[err_ch[k]] \in {"ok", "failed"}
    /\ \A j, k \in 1..Len(err_ch) : err_ch[j] = err_ch[k] => j = k

(* Only items that were yielded have been started, and, but for the one in *)
(* hand, all of them while err is nil.                                     *)
ItemsInv ==
    /\ \A i \in Items : task[i] # "new" => i <= yielded
    /\ pc = "limit" => yielded \in Items /\ task[yielded] = "new"
    /\ err = NoErr =>
          \A i \in 1..yielded : task[i] = "new" => pc = "limit" /\ i = yielded

(* The first failure stays in the queue, ahead of every other failure, for *)
(* as long as err is nil.                                                  *)
FirstInv ==
    /\ pc \in {"range", "limit"} => err = NoErr
    /\ err \in {NoErr, SeqErr, firstFail}
    /\ firstFail = NoErr => \A i \in Items : task[i] # "failed"
    /\ firstFail # NoErr => task[firstFail] = "failed"
    /\ firstFail # NoErr /\ err = NoErr =>
          \E p \in 1..Len(err_ch) :
              /\ err_ch[p] = firstFail
              /\ \A k \in 1..(p - 1) : task[err_ch[k]] = "ok"

(* Every goroutine started after the first failure used up a place in the  *)
(* pool, or a result ahead of the failure in the queue.                    *)
OverrunInv ==
    /\ firstFail = NoErr => overrun = 0
    /\ overrun <= PoolSize - 1
    /\ pc \in {"range", "limit"} =>
          \A p \in 1..Len(err_ch) : err_ch[p] = firstFail => overrun + p <= working

(* NoGoroutineLost without the limit, which TypeOK has. *)
GoroutinesCounted ==
    /\ Cardinality(Running) + Len(err_ch) = working
    /\ pc = "returned" => Running = {} /\ err_ch = <<>>

PoolInv ==
    /\ TypeOK
    /\ GoroutinesCounted
    /\ QueueInv
    /\ ItemsInv
    /\ FirstInv
    /\ OverrunInv
-----------------------------------------------------------------------------
(* The pool has at least one place. *)
LEMMA PoolSizePositive == PoolSize \in Nat \ {0}
BY SizesAssumption DEF PoolSize

LEMMA RoomLeft ==
    \A a, b, c, d \in Int : a + b <= c /\ b >= 1 /\ c <= d => a <= d - 1
OBVIOUS

LEMMA RunningFinite == IsFiniteSet(Running) /\ Cardinality(Running) \in Nat
<1>1. IsFiniteSet(Items)
  BY SizesAssumption, FS_Interval DEF Items
<1>2. Running \in SUBSET Items
  BY DEF Running
<1>3. IsFiniteSet(Running)
  BY <1>1, <1>2, FS_Subset
<1> QED
  BY <1>3, FS_CardinalityType

(* Starting an item adds one to the items in work. *)
LEMMA RunningGrows ==
    ASSUME TypeOK, NEW i \in Items, task[i] = "new",
           task' = [task EXCEPT ![i] = "running"]
    PROVE  Cardinality(Running') = Cardinality(Running) + 1
<1>1. Running' = Running \cup {i}
  BY DEF TypeOK, Running
<1>2. i \notin Running
  BY DEF Running
<1> QED
  BY <1>1, <1>2, RunningFinite, FS_AddElement

(* An item whose work returns is in work no more. *)
LEMMA RunningShrinks ==
    ASSUME TypeOK, NEW i \in Items, NEW r \in {"ok", "failed"},
           task[i] = "running", task' = [task EXCEPT ![i] = r]
    PROVE  /\ Cardinality(Running') = Cardinality(Running) - 1
           /\ Cardinality(Running') \in Nat
<1>1. Running' = Running \ {i}
  BY DEF TypeOK, Running
<1>2. i \in Running
  BY DEF Running
<1>3. Cardinality(Running') = Cardinality(Running) - 1
  BY <1>1, <1>2, RunningFinite, FS_RemoveElement
<1>4. IsFiniteSet(Running')
  BY <1>1, RunningFinite, FS_RemoveElement
<1> QED
  BY <1>3, <1>4, FS_CardinalityType

(* What receiving from the channel leaves in it. *)
LEMMA ReceiveFacts ==
    ASSUME TypeOK, err_ch # <<>>, err_ch' = Tail(err_ch)
    PROVE  /\ err_ch' \in Seq(Items)
           /\ Len(err_ch) \in Nat \ {0}
           /\ Len(err_ch') = Len(err_ch) - 1
           /\ \A k \in 1..Len(err_ch') : err_ch'[k] = err_ch[k + 1]
           /\ Head(err_ch) = err_ch[1]
           /\ Head(err_ch) \in Items
<1>1. err_ch \in Seq(Items)
  BY DEF TypeOK
<1> QED
  BY <1>1, HeadTailProperties, EmptySeq

-----------------------------------------------------------------------------
LEMMA InitEstablishes == Init => PoolInv
<1> SUFFICES ASSUME Init PROVE PoolInv
  OBVIOUS
<1>1. Running = {}
  BY DEF Init, Running
<1>2. Cardinality(Running) = 0
  BY <1>1, FS_EmptySet
<1>3. TypeOK
  BY SizesAssumption, PoolSizePositive DEF Init, TypeOK, NoErr
<1>4. GoroutinesCounted
  BY <1>2 DEF Init, GoroutinesCounted
<1>5. QueueInv /\ ItemsInv /\ FirstInv /\ OverrunInv
  BY PoolSizePositive DEF Init, QueueInv, ItemsInv, FirstInv, OverrunInv, NoErr, Items
<1> QED
  BY <1>3, <1>4, <1>5 DEF PoolInv

(* Steps that neither start nor finish work nor receive a result. *)
LEMMA YieldValuePreserves == PoolInv /\ YieldValue => PoolInv'
<1> SUFFICES ASSUME PoolInv, YieldValue PROVE PoolInv'
  OBVIOUS
<1> USE SizesAssumption, PoolSizePositive
<1>1. TypeOK'
  BY DEF PoolInv, TypeOK, YieldValue
<1>2. GoroutinesCounted'
  BY DEF PoolInv, GoroutinesCounted, YieldValue, Running
<1>3. ItemsInv'
  BY DEF PoolInv, TypeOK, ItemsInv, YieldValue, Items
<1>4. QueueInv' /\ FirstInv' /\ OverrunInv'
  BY DEF PoolInv, QueueInv, FirstInv, OverrunInv, YieldValue
<1> QED
  BY <1>1, <1>2, <1>3, <1>4 DEF PoolInv

LEMMA YieldErrorPreserves == PoolInv /\ YieldError => PoolInv'
<1> SUFFICES ASSUME PoolInv, YieldError PROVE PoolInv'
  OBVIOUS
<1>1. TypeOK'
  BY DEF PoolInv, TypeOK, YieldError
<1>2. GoroutinesCounted'
  BY DEF PoolInv, GoroutinesCounted, YieldError, Running
<1>3. ItemsInv' /\ QueueInv' /\ OverrunInv'
  BY DEF PoolInv, ItemsInv, QueueInv, OverrunInv, YieldError, NoErr, SeqErr
<1>4. FirstInv'
  BY DEF PoolInv, FirstInv, YieldError, NoErr, SeqErr
<1> QED
  BY <1>1, <1>2, <1>3, <1>4 DEF PoolInv

LEMMA SeqEndsPreserves == PoolInv /\ SeqEnds => PoolInv'
<1> SUFFICES ASSUME PoolInv, SeqEnds PROVE PoolInv'
  OBVIOUS
<1>1. TypeOK'
  BY DEF PoolInv, TypeOK, SeqEnds
<1>2. GoroutinesCounted'
  BY DEF PoolInv, GoroutinesCounted, SeqEnds, Running
<1>3. ItemsInv' /\ QueueInv' /\ FirstInv' /\ OverrunInv'
  BY DEF PoolInv, ItemsInv, QueueInv, FirstInv, OverrunInv, SeqEnds
<1> QED
  BY <1>1, <1>2, <1>3 DEF PoolInv

LEMMA ReturnPreserves == PoolInv /\ Return => PoolInv'
<1> SUFFICES ASSUME PoolInv, Return PROVE PoolInv'
  OBVIOUS
<1>1. TypeOK'
  BY DEF PoolInv, TypeOK, Return
<1>2. Cardinality(Running) = 0 /\ Len(err_ch) = 0
  BY RunningFinite, LenProperties, PoolSizePositive
     DEF PoolInv, TypeOK, GoroutinesCounted, Return
<1>3. Running = {} /\ err_ch = <<>>
  BY <1>2, RunningFinite, FS_EmptySet, EmptySeq DEF PoolInv, TypeOK
<1>4. GoroutinesCounted'
  BY <1>3 DEF PoolInv, GoroutinesCounted, Return, Running
<1>5. ItemsInv' /\ QueueInv' /\ FirstInv' /\ OverrunInv'
  BY DEF PoolInv, ItemsInv, QueueInv, FirstInv, OverrunInv, Return
<1> QED
  BY <1>1, <1>4, <1>5 DEF PoolInv

(* A goroutine is added below the limit: the failure in the queue, if there*)
(* is one, now has one more goroutine counted with it.                     *)
LEMMA DispatchPreserves == PoolInv /\ Dispatch => PoolInv'
<1> SUFFICES ASSUME PoolInv, Dispatch PROVE PoolInv'
  OBVIOUS
<1> USE PoolSizePositive
<1>1. yielded \in Items /\ task[yielded] = "new"
  BY DEF PoolInv, ItemsInv, Dispatch
<1>2. TypeOK'
  BY <1>1 DEF PoolInv, TypeOK, Dispatch, Go
<1>3. Cardinality(Running') = Cardinality(Running) + 1
  BY <1>1, RunningGrows DEF PoolInv, Dispatch, Go
<1>4. GoroutinesCounted'
  BY <1>3, RunningFinite, LenProperties DEF PoolInv, TypeOK, GoroutinesCounted, Dispatch
<1>5. \A k \in 1..Len(err_ch) : err_ch[k] \in Items
  BY ElementOfSeq DEF PoolInv, TypeOK
<1>6. \A k \in 1..Len(err_ch) : task'[err_ch[k]] = task[err_ch[k]]
  BY <1>1, <1>5 DEF PoolInv, TypeOK, QueueInv, Dispatch, Go
<1>7. QueueInv'
  BY <1>6 DEF PoolInv, QueueInv, Dispatch
<1>8. ItemsInv'
  BY <1>1 DEF PoolInv, TypeOK, ItemsInv, Dispatch, Go, Items
<1>9. FirstInv'
  <2>1. firstFail # NoErr => firstFail \in Items /\ task'[firstFail] = "failed"
    BY <1>1 DEF PoolInv, TypeOK, FirstInv, Dispatch, Go
  <2>2. firstFail = NoErr => \A i \in Items : task'[i] # "failed"
    BY <1>1 DEF PoolInv, TypeOK, FirstInv, Dispatch, Go
  <2>3. Len(err_ch) \in Nat
    BY LenProperties DEF PoolInv, TypeOK
  <2> QED
    BY <1>6, <2>1, <2>2, <2>3 DEF PoolInv, FirstInv, Dispatch
<1>10. OverrunInv'
  <2>1. firstFail' = NoErr => overrun' = 0
    BY DEF PoolInv, OverrunInv, Dispatch, Go
  <2>2. \A p \in 1..Len(err_ch) : err_ch[p] = firstFail => overrun' + p <= working'
    BY DEF PoolInv, TypeOK, OverrunInv, Dispatch, Go
  <2>3. overrun' <= PoolSize - 1
    <3>1. CASE firstFail = NoErr
      BY <3>1 DEF PoolInv, TypeOK, OverrunInv, Dispatch, Go
    <3>2. CASE firstFail # NoErr
      <4>1. PICK p \in 1..Len(err_ch) : err_ch[p] = firstFail
        BY <3>2 DEF PoolInv, FirstInv, Dispatch
      <4>2. overrun' + p <= working'
        BY <4>1, <2>2
      <4>3. p >= 1 /\ p \in Int
        BY <4>1, LenProperties DEF PoolInv, TypeOK
      <4>4. overrun' \in Nat /\ working' \in Nat /\ working' <= PoolSize
        BY <1>2 DEF TypeOK
      <4>5. overrun' \in Int /\ working' \in Int /\ PoolSize \in Int /\ working' <= PoolSize
        BY <4>4
      <4> QED
        BY <4>2, <4>3, <4>5, RoomLeft
    <3> QED
      BY <3>1, <3>2
  <2> QED
    BY <2>1, <2>2, <2>3 DEF OverrunInv, Dispatch
<1> QED
  BY <1>2, <1>4, <1>7, <1>8, <1>9, <1>10 DEF PoolInv

(* The result received at the limit is nil: its place in the queue, ahead  *)
(* of any failure, pays for the goroutine that is started.                 *)
LEMMA ReceiveNilPreserves ==
    ASSUME PoolInv, ReceiveAtLimit, Outcome(Head(err_ch)) = NoErr
    PROVE  PoolInv'
<1> USE PoolSizePositive
<1>1. yielded \in Items /\ task[yielded] = "new"
  BY DEF PoolInv, ItemsInv, ReceiveAtLimit
<1>2. /\ err_ch # <<>> /\ err_ch' = Tail(err_ch)
      /\ Go /\ pc' = "range" /\ pc = "limit" /\ working = PoolSize
      /\ UNCHANGED <<working, err, yielded, firstFail>>
  BY DEF ReceiveAtLimit
<1>3. /\ err_ch' \in Seq(Items)
      /\ Len(err_ch) \in Nat \ {0}
      /\ Len(err_ch') = Len(err_ch) - 1
      /\ \A k \in 1..Len(err_ch') : err_ch'[k] = err_ch[k + 1]
      /\ Head(err_ch) = err_ch[1]
      /\ Head(err_ch) \in Items
  BY <1>2, ReceiveFacts DEF PoolInv
<1>4. TypeOK'
  BY <1>1, <1>2, <1>3 DEF PoolInv, TypeOK, Go
<1>5. Cardinality(Running') = Cardinality(Running) + 1
  BY <1>1, <1>2, RunningGrows DEF PoolInv, Go
<1>6. GoroutinesCounted'
  BY <1>2, <1>3, <1>5, RunningFinite DEF PoolInv, GoroutinesCounted
<1>7. \A k \in 1..Len(err_ch) :
         err_ch[k] \in Items /\ task'[err_ch[k]] = task[err_ch[k]]
  BY <1>1, <1>2, ElementOfSeq DEF PoolInv, TypeOK, QueueInv, Go
<1>8. QueueInv'
  BY <1>3, <1>7 DEF PoolInv, QueueInv
<1>9. ItemsInv'
  BY <1>1, <1>2 DEF PoolInv, TypeOK, ItemsInv, Go, Items
<1>10. task[Head(err_ch)] # "failed"
  BY <1>3 DEF Outcome, NoErr, Items
<1>11. FirstInv'
  <2>1. firstFail # NoErr => firstFail \in Items /\ task'[firstFail] = "failed"
    BY <1>1, <1>2 DEF PoolInv, TypeOK, FirstInv, Go
  <2>2. firstFail = NoErr => \A i \in Items : task'[i] # "failed"
    BY <1>1, <1>2 DEF PoolInv, TypeOK, FirstInv, Go
  <2>3. ASSUME firstFail # NoErr
        PROVE  \E p \in 1..Len(err_ch') :
                  /\ err_ch'[p] = firstFail
                  /\ \A k \in 1..(p - 1) : task'[err_ch'[k]] = "ok"
    <3>1. PICK p \in 1..Len(err_ch) :
             /\ err_ch[p] = firstFail
             /\ \A k \in 1..(p - 1) : task[err_ch[k]] = "ok"
      BY <1>2, <2>3 DEF PoolInv, FirstInv
    <3>2. p # 1
      BY <1>3, <1>10, <2>3, <3>1 DEF PoolInv, FirstInv
    <3>3. p - 1 \in 1..Len(err_ch') /\ err_ch'[p - 1] = firstFail
      BY <1>3, <3>1, <3>2
    <3>4. ASSUME NEW k \in 1..(p - 1 - 1)
          PROVE  task'[err_ch'[k]] = "ok"
      <4>1. k \in 1..Len(err_ch') /\ k + 1 \in 1..Len(err_ch) /\ k + 1 \in 1..(p - 1)
        BY <1>3, <3>1
      <4>2. err_ch'[k] = err_ch[k + 1] /\ task'[err_ch[k + 1]] = task[err_ch[k + 1]]
        BY <1>3, <1>7, <4>1
      <4> QED
        BY <3>1, <4>1, <4>2
    <3> QED
      BY <3>3, <3>4
  <2> QED
    BY <1>2, <2>1, <2>2, <2>3 DEF PoolInv, FirstInv
<1>12. OverrunInv'
  <2>1. firstFail' = NoErr => overrun' = 0
    BY <1>2 DEF PoolInv, OverrunInv, Go
  <2>2. \A p \in 1..Len(err_ch') : err_ch'[p] = firstFail => overrun' + p <= working'
    <3> SUFFICES ASSUME NEW p \in 1..Len(err_ch'), err_ch'[p] = firstFail
                 PROVE  overrun' + p <= working'
      OBVIOUS
    <3>1. p + 1 \in 1..Len(err_ch) /\ err_ch[p + 1] = firstFail
      BY <1>3
    <3>2. overrun + (p + 1) <= working
      BY <1>2, <3>1 DEF PoolInv, OverrunInv
    <3> QED
      BY <1>2, <3>2 DEF PoolInv, TypeOK, Go
  <2>3. overrun' <= PoolSize - 1
    <3>1. CASE firstFail = NoErr
      BY <3>1, <1>2 DEF PoolInv, TypeOK, OverrunInv, Go
    <3>2. CASE firstFail # NoErr
      <4>1. PICK p \in 1..Len(err_ch') : err_ch'[p] = firstFail
        BY <1>2, <1>11, <3>2 DEF PoolInv, FirstInv
      <4>2. overrun' + p <= working'
        BY <4>1, <2>2
      <4>3. p >= 1 /\ p \in Int
        BY <1>3, <4>1
      <4>4. overrun' \in Nat /\ working' = PoolSize
        BY <1>2, <1>4 DEF TypeOK
      <4>5. overrun' \in Int /\ working' \in Int /\ PoolSize \in Int /\ working' <= PoolSize
        BY <4>4
      <4> QED
        BY <4>2, <4>3, <4>5, RoomLeft
    <3> QED
      BY <3>1, <3>2
  <2> QED
    BY <1>2, <2>1, <2>2, <2>3 DEF OverrunInv
<1> QED
  BY <1>4, <1>6, <1>8, <1>9, <1>11, <1>12 DEF PoolInv

(* The result received at the limit is an error: it is the first failure,  *)
(* since every failure in the queue comes after the first.                 *)
LEMMA ReceiveErrorPreserves ==
    ASSUME PoolInv, ReceiveAtLimit, Outcome(Head(err_ch)) # NoErr
    PROVE  PoolInv'
<1> USE PoolSizePositive
<1>1. /\ err_ch # <<>> /\ err_ch' = Tail(err_ch)
      /\ pc' = "drain" /\ pc = "limit" /\ working = PoolSize
      /\ working' = working - 1
      /\ err' = Outcome(Head(err_ch))
      /\ UNCHANGED <<task, overrun, yielded, firstFail>>
  BY DEF ReceiveAtLimit
<1>2. /\ err_ch' \in Seq(Items)
      /\ Len(err_ch) \in Nat \ {0}
      /\ Len(err_ch') = Len(err_ch) - 1
      /\ \A k \in 1..Len(err_ch') : err_ch'[k] = err_ch[k + 1]
      /\ Head(err_ch) = err_ch[1]
      /\ Head(err_ch) \in Items
  BY <1>1, ReceiveFacts DEF PoolInv
<1>3. task[Head(err_ch)] = "failed" /\ err' = Head(err_ch)
  BY <1>1 DEF Outcome
<1>4. err' = firstFail /\ err' # NoErr
  <2>1. firstFail # NoErr
    BY <1>2, <1>3 DEF PoolInv, FirstInv
  <2>2. PICK p \in 1..Len(err_ch) :
           /\ err_ch[p] = firstFail
           /\ \A k \in 1..(p - 1) : task[err_ch[k]] = "ok"
    BY <1>1, <2>1 DEF PoolInv, FirstInv
  <2>3. p = 1
    BY <1>2, <1>3, <2>2
  <2> QED
    BY <1>2, <1>3, <2>1, <2>2, <2>3
<1>5. TypeOK'
  BY <1>1, <1>2, <1>3 DEF PoolInv, TypeOK
<1>6. GoroutinesCounted'
  BY <1>1, <1>2, RunningFinite DEF PoolInv, GoroutinesCounted, Running
<1>7. QueueInv'
  BY <1>1, <1>2 DEF PoolInv, QueueInv
<1>8. ItemsInv'
  BY <1>1 DEF PoolInv, ItemsInv
<1>9. FirstInv'
  BY <1>1, <1>4 DEF PoolInv, FirstInv
<1>10. OverrunInv'
  BY <1>1 DEF PoolInv, OverrunInv
<1> QED
  BY <1>5, <1>6, <1>7, <1>8, <1>9, <1>10 DEF PoolInv

LEMMA ReceiveAtLimitPreserves == PoolInv /\ ReceiveAtLimit => PoolInv'
BY ReceiveNilPreserves, ReceiveErrorPreserves

(* A result received while draining is the first failure or is ahead of it. *)
LEMMA ReceiveInDrainPreserves == PoolInv /\ ReceiveInDrain => PoolInv'
<1> SUFFICES ASSUME PoolInv, ReceiveInDrain PROVE PoolInv'
  OBVIOUS
<1> USE PoolSizePositive
<1>1. /\ err_ch # <<>> /\ err_ch' = Tail(err_ch)
      /\ pc' = "drain" /\ pc = "drain" /\ working > 0
      /\ working' = working - 1
      /\ UNCHANGED <<task, overrun, yielded, firstFail>>
  BY DEF ReceiveInDrain
<1>2. /\ err_ch' \in Seq(Items)
      /\ Len(err_ch) \in Nat \ {0}
      /\ Len(err_ch') = Len(err_ch) - 1
      /\ \A k \in 1..Len(err_ch') : err_ch'[k] = err_ch[k + 1]
      /\ Head(err_ch) = err_ch[1]
      /\ Head(err_ch) \in Items
  BY <1>1, ReceiveFacts DEF PoolInv
<1>3. TypeOK'
  BY <1>1, <1>2 DEF PoolInv, TypeOK, ReceiveInDrain, Outcome
<1>4. GoroutinesCounted'
  BY <1>1, <1>2, RunningFinite DEF PoolInv, GoroutinesCounted, Running
<1>5. QueueInv'
  BY <1>1, <1>2 DEF PoolInv, QueueInv
<1>6. ItemsInv' /\ OverrunInv'
  <2>1. err' = NoErr => err = NoErr
    BY DEF ReceiveInDrain
  <2> QED
    BY <1>1, <2>1 DEF PoolInv, ItemsInv, OverrunInv
<1>7. FirstInv'
  <2>1. CASE err # NoErr \/ firstFail = NoErr
    <3>1. err' = err
      <4>1. CASE err # NoErr
        BY <4>1 DEF ReceiveInDrain
      <4>2. CASE firstFail = NoErr
        BY <1>2, <4>2 DEF PoolInv, FirstInv, ReceiveInDrain, Outcome
      <4> QED
        BY <2>1, <4>1, <4>2
    <3> QED
      BY <1>1, <2>1, <3>1 DEF PoolInv, FirstInv
  <2>2. CASE err = NoErr /\ firstFail # NoErr
    <3>1. PICK p \in 1..Len(err_ch) :
             /\ err_ch[p] = firstFail
             /\ \A k \in 1..(p - 1) : task[err_ch[k]] = "ok"
      BY <2>2 DEF PoolInv, FirstInv
    <3>2. task[firstFail] = "failed"
      BY <2>2 DEF PoolInv, FirstInv
    <3>3. CASE p = 1
      <4>1. err' = firstFail
        BY <1>2, <2>2, <3>1, <3>2, <3>3 DEF ReceiveInDrain, Outcome
      <4> QED
        BY <1>1, <2>2, <4>1 DEF PoolInv, FirstInv
    <3>4. CASE p # 1
      <4>1. err' = NoErr
        BY <1>2, <2>2, <3>1, <3>4 DEF ReceiveInDrain, Outcome
      <4>2. p - 1 \in 1..Len(err_ch') /\ err_ch'[p - 1] = firstFail
        BY <1>2, <3>1, <3>4
      <4>3. ASSUME NEW k \in 1..(p - 1 - 1)
            PROVE  task[err_ch'[k]] = "ok"
        <5>1. k \in 1..Len(err_ch') /\ k + 1 \in 1..(p - 1)
          BY <1>2, <3>1
        <5> QED
          BY <1>2, <3>1, <5>1
      <4> QED
        BY <1>1, <4>1, <4>2, <4>3 DEF PoolInv, FirstInv
    <3> QED
      BY <3>3, <3>4
  <2> QED
    BY <2>1, <2>2
<1> QED
  BY <1>3, <1>4, <1>5, <1>6, <1>7 DEF PoolInv

(* A goroutine joins the queue behind all others; if it is the first to    *)
(* fail, those ahead of it are counted in working, and it is too.          *)
LEMMA WorkReturnsPreserves ==
    ASSUME PoolInv, NEW i \in Items, NEW r \in {"ok", "failed"}, WorkReturns(i, r)
    PROVE  PoolInv'
<1> USE PoolSizePositive
<1> DEFINE n == Len(err_ch)
<1>1. /\ task[i] = "running" /\ task' = [task EXCEPT ![i] = r]
      /\ err_ch' = Append(err_ch, i)
      /\ firstFail' = IF r = "failed" /\ firstFail = NoErr THEN i ELSE firstFail
      /\ UNCHANGED <<pc, yielded, working, err, overrun>>
  BY DEF WorkReturns
<1>2. /\ n \in Nat
      /\ err_ch' \in Seq(Items)
      /\ Len(err_ch') = n + 1
      /\ \A k \in 1..n : err_ch'[k] = err_ch[k]
      /\ err_ch'[n + 1] = i
      /\ \A k \in 1..n : err_ch[k] \in Items
  BY <1>1, AppendProperties, LenProperties, ElementOfSeq DEF PoolInv, TypeOK
<1>3. TypeOK'
  BY <1>1, <1>2 DEF PoolInv, TypeOK
<1>4. Cardinality(Running') = Cardinality(Running) - 1 /\ Cardinality(Running') \in Nat
  BY <1>1, RunningShrinks DEF PoolInv
<1>5. GoroutinesCounted'
  <2>1. pc # "returned"
    BY <1>1 DEF PoolInv, GoroutinesCounted, Running
  <2> QED
    BY <1>1, <1>2, <1>4, <2>1, RunningFinite DEF PoolInv, GoroutinesCounted
<1>6. \A k \in 1..n : err_ch[k] # i /\ task'[err_ch[k]] = task[err_ch[k]]
  BY <1>1, <1>2 DEF PoolInv, TypeOK, QueueInv
<1>7. QueueInv'
  <2>1. \A k \in 1..(n + 1) : task'[err_ch'[k]] \in {"ok", "failed"}
    BY <1>1, <1>2, <1>6 DEF PoolInv, TypeOK, QueueInv
  <2>2. \A j, k \in 1..(n + 1) : err_ch'[j] = err_ch'[k] => j = k
    BY <1>2, <1>6 DEF PoolInv, QueueInv
  <2> QED
    BY <1>2, <2>1, <2>2 DEF QueueInv
<1>8. ItemsInv'
  BY <1>1 DEF PoolInv, TypeOK, ItemsInv, Items
<1>9. FirstInv'
  <2>1. firstFail' = NoErr => \A j \in Items : task'[j] # "failed"
    BY <1>1 DEF PoolInv, TypeOK, FirstInv, Items, NoErr
  <2>2. firstFail' # NoErr => task'[firstFail'] = "failed"
    BY <1>1 DEF PoolInv, TypeOK, FirstInv
  <2>3. err' \in {NoErr, SeqErr, firstFail'}
    BY <1>1 DEF PoolInv, FirstInv
  <2>4. ASSUME firstFail' # NoErr, err' = NoErr
        PROVE  \E p \in 1..Len(err_ch') :
                  /\ err_ch'[p] = firstFail'
                  /\ \A k \in 1..(p - 1) : task'[err_ch'[k]] = "ok"
    <3>1. CASE firstFail # NoErr
      <4>1. PICK p \in 1..n :
               /\ err_ch[p] = firstFail
               /\ \A k \in 1..(p - 1) : task[err_ch[k]] = "ok"
        BY <1>1, <2>4, <3>1 DEF PoolInv, FirstInv
      <4>2. p \in 1..Len(err_ch') /\ err_ch'[p] = firstFail'
        BY <1>1, <1>2, <3>1, <4>1
      <4>3. ASSUME NEW k \in 1..(p - 1) PROVE task'[err_ch'[k]] = "ok"
        <5>1. k \in 1..n
          BY <1>2, <4>1
        <5> QED
          BY <1>2, <1>6, <4>1, <5>1
      <4> QED
        BY <4>2, <4>3
    <3>2. CASE firstFail = NoErr
      <4>1. firstFail' = i
        BY <1>1, <2>4, <3>2
      <4>2. ASSUME NEW k \in 1..n PROVE task'[err_ch'[k]] = "ok"
        BY <1>2, <1>6, <3>2 DEF PoolInv, QueueInv, FirstInv
      <4> QED
        BY <1>2, <4>1, <4>2
    <3> QED
      BY <3>1, <3>2
  <2> QED
    BY <1>1, <2>1, <2>2, <2>3, <2>4 DEF PoolInv, FirstInv
<1>10. OverrunInv'
  <2>1. firstFail' = NoErr => overrun' = 0
    BY <1>1 DEF PoolInv, OverrunInv, Items, NoErr
  <2>2. overrun' <= PoolSize - 1
    BY <1>1 DEF PoolInv, OverrunInv
  <2>3. ASSUME pc' \in {"range", "limit"},
               NEW p \in 1..Len(err_ch'), err_ch'[p] = firstFail'
        PROVE  overrun' + p <= working'
    <3>1. n + 1 <= working
      BY <1>2, <1>4, RunningFinite DEF PoolInv, TypeOK, GoroutinesCounted
    <3>2. CASE firstFail # NoErr
      <4>1. PICK q \in 1..n : err_ch[q] = firstFail
        BY <1>1, <2>3, <3>2 DEF PoolInv, FirstInv
      <4>2. p = q
        BY <1>1, <1>2, <1>6, <2>3, <3>2, <4>1 DEF PoolInv, QueueInv
      <4> QED
        BY <1>1, <2>3, <4>1, <4>2 DEF PoolInv, OverrunInv
    <3>3. CASE firstFail = NoErr
      <4>1. overrun' = 0 /\ working' = working
        BY <1>1, <3>3 DEF PoolInv, OverrunInv
      <4>2. p <= n + 1 /\ p \in Int
        BY <1>2
      <4> QED
        BY <1>2, <1>3, <3>1, <4>1, <4>2 DEF TypeOK
    <3> QED
      BY <3>2, <3>3
  <2> QED
    BY <2>1, <2>2, <2>3 DEF OverrunInv
<1> QED
  BY <1>3, <1>5, <1>7, <1>8, <1>9, <1>10 DEF PoolInv

-----------------------------------------------------------------------------
LEMMA NextPreserves == PoolInv /\ [Next]_vars => PoolInv'
<1> SUFFICES ASSUME PoolInv, [Next]_vars PROVE PoolInv'
  OBVIOUS
<1>1. CASE Dispatcher
  BY <1>1, YieldValuePreserves, YieldErrorPreserves, SeqEndsPreserves, DispatchPreserves,
     ReceiveAtLimitPreserves, ReceiveInDrainPreserves, ReturnPreserves DEF Dispatcher
<1>2. CASE \E i \in Items : Worker(i)
  BY <1>2, WorkReturnsPreserves DEF Worker
<1>3. CASE UNCHANGED vars
  BY <1>3 DEF vars, PoolInv, TypeOK, GoroutinesCounted, QueueInv, ItemsInv, FirstInv,
              OverrunInv, Running
<1> QED
  BY <1>1, <1>2, <1>3 DEF Next, Terminated

(* The inductive invariant holds in every reachable state. *)
THEOREM Invariance == Spec => []PoolInv
BY InitEstablishes, NextPreserves, PTL DEF Spec

(* The variables keep their types: in particular working stays between 0   *)
(* and the size of the pool.                                               *)
THEOREM PoolTypes == Spec => []TypeOK
<1>1. PoolInv => TypeOK
  BY DEF PoolInv
<1> QED
  BY <1>1, Invariance, PTL

(* No result is lost and no goroutine leaked, for any number of workers.   *)
THEOREM NoneLost == Spec => []NoGoroutineLost
<1>1. PoolInv => NoGoroutineLost
  BY PoolSizePositive DEF PoolInv, TypeOK, GoroutinesCounted, NoGoroutineLost
<1> QED
  BY <1>1, Invariance, PTL

(* A call that returns nil has run the work of every value, with success:  *)
(* nothing is new, since err is nil, nor running, since all are received,  *)
(* nor failed, since that failure would have been received.                *)
LEMMA NilMeansAllOk ==
    ASSUME PoolInv, pc = "returned", err = NoErr
    PROVE  \A i \in 1..yielded : task[i] = "ok"
<1>1. Len(err_ch) = 0 /\ Running = {}
  BY EmptySeq DEF PoolInv, GoroutinesCounted
<1>2. firstFail = NoErr
  <2> SUFFICES ASSUME firstFail # NoErr PROVE FALSE
    OBVIOUS
  <2>1. \E p \in 1..Len(err_ch) : TRUE
    BY DEF PoolInv, FirstInv
  <2> QED
    BY <1>1, <2>1
<1> SUFFICES ASSUME NEW i \in 1..yielded PROVE task[i] = "ok"
  OBVIOUS
<1>3. i \in Items /\ task[i] \in {"new", "running", "ok", "failed"}
  BY SizesAssumption DEF PoolInv, TypeOK, Items
<1>4. task[i] # "new"
  BY DEF PoolInv, ItemsInv
<1>5. task[i] # "running"
  BY <1>1, <1>3 DEF Running
<1>6. task[i] # "failed"
  BY <1>2, <1>3 DEF PoolInv, FirstInv
<1> QED
  BY <1>3, <1>4, <1>5, <1>6

(* The error returned is the first that was sent, unless the sequence gave *)
(* one itself; nil is returned only if nothing failed.                     *)
THEOREM FirstError == Spec => []FirstErrorReturned
<1>1. PoolInv => FirstErrorReturned
  <2> SUFFICES ASSUME PoolInv, pc = "returned" PROVE err \in {firstFail, SeqErr}
    BY DEF FirstErrorReturned
  <2>1. Len(err_ch) = 0
    BY EmptySeq DEF PoolInv, GoroutinesCounted
  <2>2. err = NoErr => firstFail = NoErr
    BY <2>1 DEF PoolInv, FirstInv
  <2> QED
    BY <2>2 DEF PoolInv, FirstInv
<1> QED
  BY <1>1, Invariance, PTL

(* After the first failure at most PoolSize - 1 goroutines are started.    *)
THEOREM OverrunBounded == Spec => []BoundedOverrun
<1>1. PoolInv => BoundedOverrun
  BY DEF PoolInv, OverrunInv, BoundedOverrun
<1> QED
  BY <1>1, Invariance, PTL

-----------------------------------------------------------------------------
(* Refinement: every step of the pool is a step of WorkPool or leaves what *)
(* WorkPool sees unchanged.                                                *)

absState == [i \in Items |-> IF task[i] = "running" THEN "busy" ELSE task[i]]

LEMMA SameItems == Abstract!Items = Items
BY DEF Abstract!Items, Items

LEMMA SameCardinality ==
    ASSUME NEW S PROVE Abstract!Cardinality(S) = Cardinality(S)
BY DEF Abstract!Cardinality, Cardinality

LEMMA BusyIsRunning == TypeOK => Abstract!Busy = Running
BY SameItems DEF Abstract!Busy, Running, TypeOK

LEMMA RefinesInit == Init => Abstract!Init
BY SameItems DEF Init, Abstract!Init, Abstract!Pending, Items

(* Handing the item to a goroutine is WorkPool's Start. *)
LEMMA RefinesGo ==
    ASSUME PoolInv, pc = "limit", pc' = "range", Go, UNCHANGED yielded,
           Cardinality(Running) < PoolSize
    PROVE  Abstract!Start
<1>1. yielded \in Items /\ task[yielded] = "new"
  BY DEF PoolInv, ItemsInv
<1>2. absState' = [absState EXCEPT ![yielded] = "busy"]
  BY <1>1 DEF PoolInv, TypeOK, Go, absState
<1>3. Abstract!Cardinality(Abstract!Busy) < PoolSize
  BY BusyIsRunning, SameCardinality DEF PoolInv
<1>4. absState[yielded] = "new"
  BY <1>1 DEF absState
<1>5. yielded \in Abstract!Items
  BY <1>1, SameItems
<1> QED
  BY <1>2, <1>3, <1>4, <1>5 DEF Abstract!Start, Abstract!Pending, absState

LEMMA RefinesNext == PoolInv /\ [Next]_vars => [Abstract!Next]_(Abstract!absvars)
<1> SUFFICES ASSUME PoolInv, [Next]_vars PROVE [Abstract!Next]_(Abstract!absvars)
  OBVIOUS
<1> USE SameItems
<1>1. CASE YieldValue
  <2>1. Abstract!Take
    BY <1>1 DEF YieldValue, Abstract!Take, Abstract!Pending
  <2> QED
    BY <2>1 DEF Abstract!Next
<1>2. CASE YieldError \/ SeqEnds
  BY <1>2 DEF YieldError, SeqEnds, Abstract!absvars
<1>3. CASE Dispatch
  <2>1. Cardinality(Running) < PoolSize
    BY <1>3, RunningFinite, LenProperties, PoolSizePositive
       DEF PoolInv, TypeOK, GoroutinesCounted, Dispatch
  <2>2. Abstract!Start
    BY <1>3, <2>1, RefinesGo DEF Dispatch
  <2> QED
    BY <2>2 DEF Abstract!Next
<1>4. CASE ReceiveAtLimit
  <2>1. CASE Outcome(Head(err_ch)) # NoErr
    BY <1>4, <2>1 DEF ReceiveAtLimit, Abstract!absvars
  <2>2. CASE Outcome(Head(err_ch)) = NoErr
    <3>1. Len(err_ch) \in Nat \ {0}
      BY <1>4, ReceiveFacts DEF PoolInv, ReceiveAtLimit
    <3>2. Cardinality(Running) < PoolSize
      BY <1>4, <3>1, RunningFinite, PoolSizePositive DEF PoolInv, GoroutinesCounted, ReceiveAtLimit
    <3>3. Abstract!Start
      BY <1>4, <2>2, <3>2, RefinesGo DEF ReceiveAtLimit
    <3> QED
      BY <3>3 DEF Abstract!Next
  <2> QED
    BY <2>1, <2>2
<1>5. CASE ReceiveInDrain
  BY <1>5 DEF ReceiveInDrain, Abstract!absvars
<1>6. CASE Return
  <2>1. Running = {} /\ err_ch = <<>>
    <3>1. PoolInv'
      BY <1>6, ReturnPreserves
    <3> QED
      BY <1>6, <3>1 DEF PoolInv, GoroutinesCounted, Return, Running
  <2>2. Len(err_ch) = 0
    BY <2>1, EmptySeq
  <2>3. ASSUME err = NoErr, NEW i \in 1..yielded PROVE i \in Items /\ task[i] = "ok"
    <3>1. i \in Items
      BY SizesAssumption DEF PoolInv, TypeOK, Items
    <3>2. task[i] # "new" /\ task[i] # "running"
      BY <1>6, <2>1, <2>3, <3>1 DEF PoolInv, ItemsInv, Return, Running
    <3>3. task[i] # "failed"
      BY <2>2, <2>3, <3>1 DEF PoolInv, FirstInv
    <3> QED
      BY <3>1, <3>2, <3>3 DEF PoolInv, TypeOK
  <2>4. err # NoErr /\ err # SeqErr => err \in Items /\ task[err] = "failed"
    BY DEF PoolInv, TypeOK, FirstInv
  <2>5. Abstract!Return(err)
    <3>1. Abstract!Busy = {}
      BY <2>1, BusyIsRunning DEF PoolInv
    <3>2. err = NoErr => \A i \in 1..yielded : absState[i] = "ok"
      BY <2>3 DEF absState
    <3>3. err # NoErr /\ err # SeqErr => err \in Abstract!Failed
      BY <2>4 DEF Abstract!Failed
    <3>4. pc = "drain" /\ pc' = "returned" /\ UNCHANGED <<yielded, task, err>>
      BY <1>6 DEF Return
    <3> QED
      BY <3>1, <3>2, <3>3, <3>4
         DEF Abstract!Return, Abstract!Pending, Abstract!NoErr, Abstract!SeqErr,
             NoErr, SeqErr, absState
  <2>6. err \in Abstract!Items \cup {Abstract!NoErr, Abstract!SeqErr}
    BY DEF PoolInv, TypeOK, Abstract!NoErr, Abstract!SeqErr, NoErr, SeqErr
  <2> QED
    BY <2>5, <2>6 DEF Abstract!Next
<1>7. CASE \E i \in Items : Worker(i)
  <2>1. PICK i \in Items, r \in {"ok", "failed"} : WorkReturns(i, r)
    BY <1>7 DEF Worker
  <2>2. absState[i] = "busy" /\ absState' = [absState EXCEPT ![i] = r]
    BY <2>1 DEF WorkReturns, PoolInv, TypeOK, absState
  <2>3. pc # "returned"
    BY <2>1 DEF PoolInv, GoroutinesCounted, Running, WorkReturns
  <2>4. Abstract!Finish(i)
    BY <2>1, <2>2, <2>3 DEF WorkReturns, Abstract!Finish, Abstract!Pending, absState
  <2> QED
    BY <2>4 DEF Abstract!Next
<1>8. CASE UNCHANGED vars
  BY <1>8 DEF vars, Abstract!absvars
<1> QED
  BY <1>1, <1>2, <1>3, <1>4, <1>5, <1>6, <1>7, <1>8 DEF Next, Dispatcher, Terminated

(* ApplyParallel implements WorkPool: what its caller relies on holds for  *)
(* every sequence and every size of the pool.                              *)
THEOREM Refinement == Spec => ImplementsWorkPool
<1>1. Init => Abstract!Init
  BY RefinesInit
<1>2. PoolInv /\ [Next]_vars => [Abstract!Next]_(Abstract!absvars)
  BY RefinesNext
<1> QED
  BY <1>1, <1>2, Invariance, PTL DEF Spec, Abstract!Spec, ImplementsWorkPool
=============================================================================
