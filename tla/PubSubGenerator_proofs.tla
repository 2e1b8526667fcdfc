----------------------- MODULE PubSubGenerator_proofs ------------------------
(***************************************************************************)
(* Proofs about the Pub/Sub load generator, for any number of messages,    *)
(* callbacks, workers and signals: the idle timeout of zero does not end   *)
(* it while a message is unaccounted for.  The argument is where an        *)
(* unheard message is: not yet published, and the source has not ended;    *)
(* or its start is in the channel, and its publish waits; or it is in the  *)
(* table, which is what keeps the timer from being set.                    *)
(***************************************************************************)
EXTENDS PubSubGenerator, SequenceTheorems, TLAPS

Events == [from : Callers, op : {"start", "cancel", "done", "setTimeout"}, id : TaskIds]

Types ==
    /\ statsChan \in Seq(Events)
    /\ taken \in 0..MaxItems
    /\ state \in [Msgs -> {"new", "busy", "ok", "failed"}]
    /\ pub \in [Msgs -> {"new", "starting", "pending", "sent", "failed"}]

Queued(op) == {statsChan[k].id : k \in {j \in 1..Len(statsChan) : statsChan[j].op = op}}

(* What is in the channel was sent where the code sends it. *)
ChanInv ==
    /\ \A k \in 1..Len(statsChan) : statsChan[k].op = "start" => statsChan[k].from = statsChan[k].id
    /\ \A m \in Msgs \cap Queued("start") : pub[m] = "starting"
    /\ Queued("done") \cup Queued("cancel") \subseteq heard
    /\ Queued("setTimeout") # {} \/ timeout # NoTimeout => answer = Pool!NoErr

(* A message whose start has been received is in the table or was heard of. *)
TableInv ==
    \A m \in Msgs : pub[m] # "new" /\ m \notin Queued("start") => m \in currentOps \cup heard

(* The pool has returned nil when all its publishOps have, and they do not  *)
(* return before their start was received.                                 *)
PoolInv ==
    /\ answer = Pool!NoErr => \A m \in 1..taken : state[m] = "ok"
    /\ \A m \in Msgs : state[m] = "ok" => pub[m] \in {"pending", "sent", "failed"}

(* The timer runs, and the idle period lasts, only while the table is empty. *)
IdleInv ==
    /\ idle # Zero => currentOps = {}
    /\ timer # Stopped => timeout # NoTimeout
    /\ loop = "select" /\ timer # Stopped => idle # Zero

LiveInv == Types /\ ChanInv /\ TableInv /\ PoolInv /\ IdleInv /\ IdleOnlyWhenAllHeard

(* Nothing follows the end of the process. *)
IndInv == IF Running THEN LiveInv ELSE ctx = "live" /\ ~watchdog

Steps == [GeneratorNext]_generatorVars
-----------------------------------------------------------------------------
LEMMA AppendQueued ==
    ASSUME Types, NEW e \in Events, Send(e)
    PROVE  /\ statsChan' \in Seq(Events)
           /\ \A op : Queued(op)' = IF e.op = op THEN Queued(op) \cup {e.id} ELSE Queued(op)
           /\ Len(statsChan) \in Nat /\ Len(statsChan') = Len(statsChan) + 1
           /\ \A k \in 1..Len(statsChan) : statsChan'[k] = statsChan[k]
           /\ statsChan'[Len(statsChan) + 1] = e
<1>1. /\ statsChan' \in Seq(Events) /\ Len(statsChan) \in Nat
      /\ Len(statsChan') = Len(statsChan) + 1
      /\ \A k \in 1..Len(statsChan) : statsChan'[k] = statsChan[k]
      /\ statsChan'[Len(statsChan) + 1] = e
  BY DEF Types, Send
<1>2. 1..Len(statsChan') = 1..Len(statsChan) \cup {Len(statsChan) + 1}
  BY <1>1
<1>3. ASSUME NEW op PROVE Queued(op)' = IF e.op = op THEN Queued(op) \cup {e.id} ELSE Queued(op)
  BY <1>1, <1>2 DEF Queued
<1> QED BY <1>1, <1>3

LEMMA TailQueued ==
    ASSUME Types, statsChan # <<>>, statsChan' = Tail(statsChan)
    PROVE  /\ statsChan' \in Seq(Events)
           /\ Head(statsChan) \in Events /\ Head(statsChan) = statsChan[1]
           /\ 1 \in 1..Len(statsChan)
           /\ \A op : Queued(op)' \subseteq Queued(op)
           /\ \A op : Queued(op) \subseteq
                 IF Head(statsChan).op = op THEN Queued(op)' \cup {Head(statsChan).id} ELSE Queued(op)'
           /\ \A k \in 1..Len(statsChan') :
                 k + 1 \in 1..Len(statsChan) /\ statsChan'[k] = statsChan[k + 1]
<1>1. /\ statsChan' \in Seq(Events) /\ Head(statsChan) \in Events
      /\ Head(statsChan) = statsChan[1] /\ Len(statsChan) \in Nat \ {0}
      /\ Len(statsChan') = Len(statsChan) - 1
      /\ \A k \in 1..Len(statsChan') : statsChan'[k] = statsChan[k + 1]
  BY DEF Types
<1>2. /\ \A k \in 1..Len(statsChan') : k + 1 \in 1..Len(statsChan)
      /\ 1 \in 1..Len(statsChan)
      /\ \A k \in 1..Len(statsChan) :
            k # 1 => k - 1 \in 1..Len(statsChan') /\ statsChan'[k - 1] = statsChan[k]
  BY <1>1
<1>3. ASSUME NEW op PROVE Queued(op)' \subseteq Queued(op)
  BY <1>1, <1>2 DEF Queued
<1>4. ASSUME NEW op
      PROVE  Queued(op) \subseteq
               IF Head(statsChan).op = op THEN Queued(op)' \cup {Head(statsChan).id} ELSE Queued(op)'
  <2> SUFFICES ASSUME NEW k \in 1..Len(statsChan), statsChan[k].op = op
               PROVE  k = 1 \/ statsChan[k].id \in Queued(op)'
    BY <1>1 DEF Queued
  <2>1. CASE k # 1
    <3>1. k - 1 \in 1..Len(statsChan') /\ statsChan'[k - 1] = statsChan[k]
      BY <1>2, <2>1
    <3> QED BY <3>1 DEF Queued
  <2> QED BY <2>1
<1> QED BY <1>1, <1>2, <1>3, <1>4

LEMMA SameQueued ==
    UNCHANGED statsChan => \A op : Queued(op)' = Queued(op)
  BY DEF Queued

(* A start that is in the channel is sent by the message's own goroutine. *)
LEMMA QueuedIsInSend ==
    ASSUME ChanInv, NEW m, m \in Queued("start")
    PROVE  InSend(m)
  BY DEF ChanInv, Queued, InSend

LEMMA InitEstablishes == GeneratorInit => IndInv
<1> SUFFICES ASSUME GeneratorInit PROVE IndInv
  OBVIOUS
<1>1. \A op : Queued(op) = {}
  <2>1. 1..Len(statsChan) = {}
    BY DEF GeneratorInit, MsgsInit, ProcInit, StatsInit
  <2> QED BY <2>1 DEF Queued
<1>2. Types
  BY GeneratorAssumption DEF GeneratorInit, MsgsInit, ProcInit, StatsInit, Pool!Init, Pool!Items, Msgs, Types
<1>3. ChanInv
  BY <1>1 DEF GeneratorInit, MsgsInit, ProcInit, StatsInit, ChanInv
<1>4. TableInv
  BY DEF GeneratorInit, MsgsInit, ProcInit, TableInv
<1>5. PoolInv
  BY DEF GeneratorInit, MsgsInit, ProcInit, Pool!Init, Pool!NoErr, Pool!Pending, Pool!Items, Msgs, PoolInv
<1>6. IdleInv /\ IdleOnlyWhenAllHeard
  BY DEF GeneratorInit, MsgsInit, ProcInit, StatsInit, IdleInv, IdleOnlyWhenAllHeard
<1>7. Running
  BY DEF GeneratorInit, ProcInit, Running
<1> QED BY <1>2, <1>3, <1>4, <1>5, <1>6, <1>7 DEF IndInv, LiveInv

(* When the timeout is set and the table empty, all messages were heard of. *)
LEMMA AllHeard ==
    ASSUME Types, ChanInv, TableInv, PoolInv, timeout # NoTimeout, currentOps = {}
    PROVE  answer = Pool!NoErr /\ \A m \in 1..taken : m \in heard
<1>1. answer = Pool!NoErr
  BY DEF ChanInv
<1> SUFFICES ASSUME NEW m \in 1..taken PROVE m \in heard
  BY <1>1
<1>2. m \in Msgs
  BY GeneratorAssumption DEF Types, Msgs
<1>3. pub[m] \in {"pending", "sent", "failed"}
  BY <1>1, <1>2 DEF PoolInv
<1>4. m \notin Queued("start")
  BY <1>2, <1>3 DEF ChanInv
<1> QED BY <1>2, <1>3, <1>4 DEF TableInv

(* A step of the statistics goroutine. *)
LEMMA LoopPreserves ==
    ASSUME LiveInv, Loop, UNCHANGED <<poolVars, procVars, msgVars>>
    PROVE  LiveInv'
<1> USE DEF LiveInv, poolVars, procVars, msgVars
<1>1. CASE ReceiveEvent
  <2> DEFINE e == Head(statsChan)
  <2>1. /\ statsChan # <<>> /\ statsChan' = Tail(statsChan) /\ loop' = "top"
        /\ currentOps' = OpsAfter(e) /\ idle' = IdleAfter(OpsAfter(e))
        /\ timeout' = IF e.op = "setTimeout" THEN IdleTimeout ELSE timeout
        /\ UNCHANGED <<timer, ctx>>
    BY <1>1 DEF ReceiveEvent
  <2>2. /\ statsChan' \in Seq(Events) /\ e \in Events /\ e = statsChan[1]
        /\ 1 \in 1..Len(statsChan)
        /\ \A op : Queued(op)' \subseteq Queued(op)
        /\ \A op : Queued(op) \subseteq
              IF e.op = op THEN Queued(op)' \cup {e.id} ELSE Queued(op)'
        /\ \A k \in 1..Len(statsChan') :
              k + 1 \in 1..Len(statsChan) /\ statsChan'[k] = statsChan[k + 1]
    BY <2>1, TailQueued
  <2> HIDE DEF e
  <2>3. e.id \in Queued(e.op) /\ e.op \in {"start", "cancel", "done", "setTimeout"}
    BY <2>2 DEF Queued, Events
  <2>4. Types'
    BY <2>2 DEF Types
  <2>5. ChanInv'
    <3>1. \A k \in 1..Len(statsChan') :
             statsChan'[k].op = "start" => statsChan'[k].from = statsChan'[k].id
      BY <2>2 DEF ChanInv
    <3>2. \A m \in Msgs \cap Queued("start")' : pub'[m] = "starting"
      BY <2>2 DEF ChanInv
    <3>3. Queued("done")' \cup Queued("cancel")' \subseteq heard'
      BY <2>2 DEF ChanInv
    <3>4. Queued("setTimeout")' # {} \/ timeout' # NoTimeout => answer' = Pool!NoErr
      BY <2>1, <2>2, <2>3 DEF ChanInv
    <3> QED BY <3>1, <3>2, <3>3, <3>4 DEF ChanInv
  <2>6. TableInv'
    <3> SUFFICES ASSUME NEW m \in Msgs, pub[m] # "new", m \notin Queued("start")'
                 PROVE  m \in currentOps' \cup heard
      BY DEF TableInv
    <3>1. CASE e.op = "start"
      BY <2>1, <2>2, <3>1 DEF OpsAfter, TableInv
    <3>2. CASE e.op \in {"cancel", "done"}
      BY <2>1, <2>2, <2>3, <3>2 DEF OpsAfter, TableInv, ChanInv
    <3>3. CASE e.op = "setTimeout"
      BY <2>1, <2>2, <3>3 DEF OpsAfter, TableInv
    <3> QED BY <2>3, <3>1, <3>2, <3>3
  <2>7. PoolInv'
    BY DEF PoolInv
  <2>8. IdleInv'
    <3>1. idle' # Zero => currentOps' = {}
      BY <2>1 DEF IdleAfter, IdleInv
    <3>2. timer' # Stopped => timeout' # NoTimeout
      BY <2>1, IdleTimeoutAssumption DEF IdleInv, NoTimeout
    <3> QED BY <2>1, <3>1, <3>2 DEF IdleInv
  <2>9. IdleOnlyWhenAllHeard'
    BY <2>1 DEF IdleOnlyWhenAllHeard
  <2> QED BY <2>4, <2>5, <2>6, <2>7, <2>8, <2>9
<1>2. CASE ~ReceiveEvent
  <2>1. UNCHANGED <<currentOps, timeout, idle, statsChan>>
    BY <1>2 DEF Loop, LoopEnds, SetTimer, ReceiveClosed, ContextDone, LogTick, IdleTimerFires
  <2>2. Types' /\ ChanInv' /\ TableInv' /\ PoolInv'
    BY <2>1, SameQueued DEF Types, ChanInv, TableInv, PoolInv
  <2>3. IdleInv'
    BY <1>2 DEF Loop, LoopEnds, SetTimer, ReceiveClosed, ContextDone, LogTick, IdleTimerFires,
               IdleInv, Zero, Stopped, NoTimeout
  <2>4. ctx' = "idle" => ctx = "idle" \/ (timeout # NoTimeout /\ currentOps = {})
    BY <1>2 DEF Loop, LoopEnds, SetTimer, ReceiveClosed, ContextDone, LogTick, IdleTimerFires,
               IdleInv, Stopped, CancelBy
  <2>5. IdleOnlyWhenAllHeard'
    BY <2>4, AllHeard DEF IdleOnlyWhenAllHeard
  <2> QED BY <2>2, <2>3, <2>5
<1> QED BY <1>1, <1>2

(* Steps that send nothing and leave the pool and the publishes alone. *)
LEMMA QuietPreserves ==
    ASSUME LiveInv, UNCHANGED <<loop, currentOps, timeout, idle, timer, statsChan>>,
           UNCHANGED <<poolVars, pub, heard>>, ctx' \in {ctx, "signal"}
    PROVE  LiveInv'
<1>1. \A op : Queued(op)' = Queued(op)
  BY SameQueued
<1>2. Types' /\ ChanInv' /\ TableInv' /\ PoolInv'
  BY <1>1 DEF LiveInv, Types, ChanInv, TableInv, PoolInv, poolVars
<1>3. IdleInv' /\ IdleOnlyWhenAllHeard'
  BY DEF LiveInv, IdleInv, IdleOnlyWhenAllHeard, poolVars
<1> QED BY <1>2, <1>3 DEF LiveInv

(* Steps of the pool, with nothing sent. *)
LEMMA PoolPreserves ==
    ASSUME LiveInv, UNCHANGED statsVars, UNCHANGED <<pub, heard>>,
           PoolStep \/ \E m \in Msgs : PublishOpCancelled(m)
    PROVE  LiveInv'
<1> USE DEF LiveInv, statsVars
<1>1. \A op : Queued(op)' = Queued(op)
  BY SameQueued
<1>2. TableInv' /\ IdleInv' /\ statsChan' \in Seq(Events)
  BY <1>1 DEF TableInv, IdleInv, Types
<1>3. answer = Pool!Pending /\ answer # Pool!NoErr
  BY DEF PoolStep, PublishOpCancelled, Pool!Take, Pool!Start, Pool!Finish,
         Pool!Pending, Pool!NoErr
<1>4. ChanInv'
  BY <1>1, <1>3 DEF ChanInv
<1>5. ctx # "idle" /\ IdleOnlyWhenAllHeard'
  BY <1>3 DEF IdleOnlyWhenAllHeard
<1>6. CASE PoolStep
  <2>1. Types' /\ UNCHANGED answer
    BY <1>6, GeneratorAssumption DEF PoolStep, Pool!Take, Pool!Start, Pool!Items, Types, Msgs
  <2>2. \A m \in Msgs : state'[m] = "ok" => state[m] = "ok"
    BY <1>6 DEF PoolStep, Pool!Take, Pool!Start, Pool!Items, Types, Msgs
  <2>3. PoolInv'
    BY <1>3, <2>1, <2>2 DEF PoolInv
  <2> QED BY <1>2, <1>4, <1>5, <2>1, <2>3
<1>7. ASSUME NEW m \in Msgs, PublishOpCancelled(m) PROVE LiveInv'
  <2>1. Types' /\ UNCHANGED answer
    BY <1>7 DEF PublishOpCancelled, Pool!Finish, Types
  <2>2. \A k \in Msgs : state'[k] = "ok" => state[k] = "ok"
    BY <1>7 DEF PublishOpCancelled, Pool!Finish, Types
  <2>3. PoolInv'
    BY <1>3, <2>1, <2>2 DEF PoolInv
  <2> QED BY <1>2, <1>4, <1>5, <2>1, <2>3
<1> QED BY <1>6, <1>7

LEMMA EventsAreTyped ==
    /\ Event(Main, "setTimeout", Main) \in Events
    /\ \A m \in Msgs : \A op \in {"start", "cancel"} : Event(m, op, m) \in Events
    /\ \A r \in Receivers, m \in Msgs : Event(r, "done", m) \in Events
  BY GeneratorAssumption DEF Event, Events

LEMMA PublishOpPreserves ==
    ASSUME LiveInv, NEW m \in Msgs, PublishOp(m)
    PROVE  LiveInv'
<1> USE DEF LiveInv
<1> DEFINE e == Event(m, "start", m)
<1>1. /\ e \in Events /\ Send(e) /\ e.op = "start" /\ e.id = m /\ e.from = m
      /\ pub[m] = "new" /\ pub' = [pub EXCEPT ![m] = "starting"] /\ state[m] = "busy"
      /\ UNCHANGED <<loop, currentOps, timeout, idle, timer, ctx, taken, state, answer, heard>>
  BY EventsAreTyped DEF PublishOp, SendOnly, poolVars, Event
<1> HIDE DEF e
<1>2. /\ statsChan' \in Seq(Events)
      /\ \A op : Queued(op)' = IF op = "start" THEN Queued(op) \cup {m} ELSE Queued(op)
      /\ Len(statsChan) \in Nat /\ Len(statsChan') = Len(statsChan) + 1
      /\ \A k \in 1..Len(statsChan) : statsChan'[k] = statsChan[k]
      /\ statsChan'[Len(statsChan) + 1] = e
  BY <1>1, AppendQueued
<1>3. Types'
  BY <1>1, <1>2 DEF Types
<1>4. ChanInv'
  <2>1. \A k \in 1..Len(statsChan') :
           statsChan'[k].op = "start" => statsChan'[k].from = statsChan'[k].id
    BY <1>1, <1>2 DEF ChanInv
  <2> QED BY <1>1, <1>2, <2>1 DEF ChanInv, Types
<1>5. TableInv'
  BY <1>1, <1>2 DEF TableInv, Types
<1>6. PoolInv'
  BY <1>1 DEF PoolInv, Types
<1>7. IdleInv' /\ IdleOnlyWhenAllHeard'
  BY <1>1 DEF IdleInv, IdleOnlyWhenAllHeard
<1> QED BY <1>3, <1>4, <1>5, <1>6, <1>7

(* The publish waits for its start: then it is no longer in the channel. *)
LEMMA PublishPreserves ==
    ASSUME LiveInv, NEW m \in Msgs, Publish(m)
    PROVE  LiveInv'
<1> USE DEF LiveInv
<1>1. /\ pub[m] = "starting" /\ pub' = [pub EXCEPT ![m] = "pending"]
      /\ state'[m] = "ok" /\ answer = Pool!Pending /\ answer # Pool!NoErr
      /\ \E r \in {"ok", "failed"} : state' = [state EXCEPT ![m] = r]
      /\ ~InSend(m) /\ UNCHANGED <<statsVars, taken, answer, heard>>
  <2>1. answer = Pool!Pending /\ answer # Pool!NoErr /\ UNCHANGED <<taken, answer>>
    BY DEF Publish, Pool!Finish, Pool!Pending, Pool!NoErr
  <2>2. \E r \in {"ok", "failed"} : state' = [state EXCEPT ![m] = r]
    BY DEF Publish, Pool!Finish
  <2> QED BY <2>1, <2>2 DEF Publish
<1>2. m \notin Queued("start") /\ \A op : Queued(op)' = Queued(op)
  BY <1>1, QueuedIsInSend, SameQueued DEF statsVars
<1>3. Types'
  BY <1>1 DEF Types, statsVars
<1>4. ChanInv'
  BY <1>1, <1>2 DEF ChanInv, Types, statsVars
<1>5. TableInv'
  BY <1>1, <1>2 DEF TableInv, Types, statsVars
<1>6. PoolInv'
  BY <1>1 DEF PoolInv, Types
<1>7. IdleInv' /\ IdleOnlyWhenAllHeard'
  BY <1>1 DEF IdleInv, IdleOnlyWhenAllHeard, statsVars
<1> QED BY <1>3, <1>4, <1>5, <1>6, <1>7

LEMMA PublishSucceedsPreserves ==
    ASSUME LiveInv, NEW m \in Msgs, PublishSucceeds(m)
    PROVE  LiveInv'
<1> USE DEF LiveInv
<1>1. /\ pub[m] = "pending" /\ pub' = [pub EXCEPT ![m] = "sent"]
      /\ UNCHANGED <<statsVars, taken, state, answer, heard>>
  BY DEF PublishSucceeds, poolVars
<1>2. Types' /\ PoolInv'
  BY <1>1 DEF Types, PoolInv, statsVars
<1>3. ChanInv' /\ TableInv'
  <2>1. \A op : Queued(op)' = Queued(op)
    BY <1>1, SameQueued DEF statsVars
  <2> QED BY <1>1, <2>1 DEF ChanInv, TableInv, Types, statsVars
<1>4. IdleInv' /\ IdleOnlyWhenAllHeard'
  BY <1>1 DEF IdleInv, IdleOnlyWhenAllHeard, statsVars
<1> QED BY <1>2, <1>3, <1>4

(* A message is heard of, and the end of its task reported. *)
LEMMA HeardPreserves ==
    ASSUME LiveInv, NEW m \in Msgs, NEW e \in Events, SendOnly(e),
           e.op \in {"done", "cancel"}, e.id = m,
           heard' = heard \cup {m}, UNCHANGED poolVars,
           \/ UNCHANGED pub
           \/ pub[m] = "pending" /\ pub' = [pub EXCEPT ![m] = "failed"]
    PROVE  LiveInv'
<1> USE DEF LiveInv
<1>1. UNCHANGED <<loop, currentOps, timeout, idle, timer, ctx, taken, state, answer>>
  BY DEF SendOnly, poolVars
<1>2. /\ statsChan' \in Seq(Events)
      /\ \A op : Queued(op)' = IF e.op = op THEN Queued(op) \cup {m} ELSE Queued(op)
      /\ Len(statsChan) \in Nat /\ Len(statsChan') = Len(statsChan) + 1
      /\ \A k \in 1..Len(statsChan) : statsChan'[k] = statsChan[k]
      /\ statsChan'[Len(statsChan) + 1] = e
  BY AppendQueued DEF SendOnly
<1>3. Types'
  BY <1>1, <1>2 DEF Types
<1>4. ChanInv'
  <2>1. \A k \in 1..Len(statsChan') :
           statsChan'[k].op = "start" => statsChan'[k].from = statsChan'[k].id
    BY <1>2 DEF ChanInv
  <2>2. UNCHANGED <<Queued("start"), Queued("setTimeout")>>
    BY <1>2
  <2>3. \A k \in Msgs \cap Queued("start")' : pub'[k] = "starting"
    BY <2>2 DEF ChanInv, Types
  <2>4. Queued("done")' \cup Queued("cancel")' \subseteq heard'
    BY <1>2 DEF ChanInv
  <2> QED BY <1>1, <2>1, <2>2, <2>3, <2>4 DEF ChanInv
<1>5. TableInv'
  <2>1. UNCHANGED Queued("start")
    BY <1>2
  <2> QED BY <1>1, <2>1 DEF TableInv, Types
<1>6. PoolInv'
  BY <1>1 DEF PoolInv, Types
<1>7. IdleInv' /\ IdleOnlyWhenAllHeard'
  BY <1>1 DEF IdleInv, IdleOnlyWhenAllHeard
<1> QED BY <1>3, <1>4, <1>5, <1>6, <1>7

(* The pool returns nil: all its work went well. *)
LEMMA SourceEndsPreserves ==
    ASSUME LiveInv, SourceEnds
    PROVE  LiveInv'
<1> USE DEF LiveInv
<1> DEFINE e == Event(Main, "setTimeout", Main)
<1>1. /\ e \in Events /\ Send(e) /\ e.op = "setTimeout"
      /\ answer' = Pool!NoErr /\ answer # Pool!NoErr
      /\ UNCHANGED <<loop, currentOps, timeout, idle, timer, ctx, taken, state, pub, heard>>
  BY EventsAreTyped DEF SourceEnds, SendOnly, msgVars, Event, Pool!Return, Pool!Pending,
     Pool!NoErr
<1>2. \A m \in 1..taken : state[m] = "ok"
  <2>1. \/ \A m \in 1..taken : state[m] = "ok"
        \/ Pool!NoErr \in Pool!Failed
        \/ Pool!NoErr = Pool!SeqErr
    BY DEF SourceEnds, Pool!Return
  <2> QED BY <2>1, GeneratorAssumption DEF Pool!NoErr, Pool!SeqErr, Pool!Failed, Pool!Items
<1> HIDE DEF e
<1>3. /\ statsChan' \in Seq(Events)
      /\ \A op : op # "setTimeout" => Queued(op)' = Queued(op)
      /\ Len(statsChan) \in Nat /\ Len(statsChan') = Len(statsChan) + 1
      /\ \A k \in 1..Len(statsChan) : statsChan'[k] = statsChan[k]
      /\ statsChan'[Len(statsChan) + 1] = e
  BY <1>1, AppendQueued
<1>4. Types'
  BY <1>1, <1>3 DEF Types
<1>5. ChanInv'
  <2>1. \A k \in 1..Len(statsChan') :
           statsChan'[k].op = "start" => statsChan'[k].from = statsChan'[k].id
    BY <1>1, <1>3 DEF ChanInv
  <2>2. UNCHANGED <<Queued("start"), Queued("done"), Queued("cancel")>>
    BY <1>3
  <2> QED BY <1>1, <2>1, <2>2 DEF ChanInv
<1>6. TableInv'
  <2>1. UNCHANGED Queued("start")
    BY <1>3
  <2> QED BY <1>1, <2>1 DEF TableInv
<1>7. PoolInv' /\ IdleInv' /\ IdleOnlyWhenAllHeard'
  BY <1>1, <1>2 DEF PoolInv, IdleInv, IdleOnlyWhenAllHeard
<1> QED BY <1>4, <1>5, <1>6, <1>7

(* The steps that end the process. *)
Exits ==
    \/ SourceFails \/ GeneratorExits \/ SendPanics \/ GeneratorKilled
    \/ SignalAgain /\ GeneratorGone

LEMMA ExitsEnd ==
    ASSUME Exits
    PROVE  ~Running' /\ ctx' = "live" /\ ~watchdog'
  BY DEF Exits, SourceFails, GeneratorExits, SendPanics, GeneratorKilled, SignalAgain,
     MainEnds, TimeIsUp, Exit, GeneratorGone, StatsGone, Running

LEMMA StaysRunning ==
    ASSUME Running, Steps, ~Exits
    PROVE  Running'
  BY DEF Steps, GeneratorNext, MainStep, PublisherStep, PublishOp, PublishOpCancelled, Publish,
     PublishSucceeds, PublishFails, ReceiveAnswer, DoneTaskReturns, SubscriptionFails, PoolStep,
     SourceEnds, WaitForCancellation, CommandReturns, GeneratorSignalled, FirstSignal,
     GeneratorStats, Exits, Running, procVars, generatorVars

LEMMA NothingFollows ==
    ASSUME ~Running, ctx = "live", ~watchdog, Steps
    PROVE  ~Running' /\ ctx' = "live" /\ ~watchdog'
<1>1. UNCHANGED generatorVars
  BY DEF Steps, GeneratorNext, MainStep, PublisherStep, PublishOp, PublishOpCancelled, Publish,
     PublishSucceeds, PublishFails, ReceiveAnswer, DoneTaskReturns, SubscriptionFails, PoolStep,
     SourceEnds, SourceFails, WaitForCancellation, CommandReturns, GeneratorExits, MainEnds,
     SendPanics, GeneratorKilled, TimeIsUp, GeneratorSignalled, FirstSignal, SignalAgain,
     SignalArrives, GeneratorStats, Running
<1> QED BY <1>1 DEF generatorVars, statsVars, procVars, Running

(* A process that runs, and does not end with the step. *)
LEMMA StepPreserves ==
    ASSUME LiveInv, Steps, ~Exits
    PROVE  LiveInv'
<1>1. CASE GeneratorStats(Loop)
  BY <1>1, LoopPreserves DEF GeneratorStats
<1>2. ASSUME NEW m \in Msgs, PublisherStep(m) PROVE LiveInv'
  <2>1. CASE PublishOpCancelled(m)
    BY <2>1, PoolPreserves DEF PublishOpCancelled, msgVars
  <2>2. CASE PublishFails(m)
    <3> DEFINE e == Event(m, "cancel", m)
    <3>1. e \in Events /\ e.op = "cancel" /\ e.id = m
      BY EventsAreTyped DEF Event
    <3> HIDE DEF e
    <3>2. SendOnly(e) /\ heard' = heard \cup {m} /\ UNCHANGED poolVars
          /\ pub[m] = "pending" /\ pub' = [pub EXCEPT ![m] = "failed"]
      BY <2>2 DEF PublishFails, e
    <3> QED BY <3>1, <3>2, HeardPreserves
  <2> QED
    BY <1>2, <2>1, <2>2, PublishOpPreserves, PublishPreserves, PublishSucceedsPreserves
       DEF PublisherStep
<1>3. ASSUME NEW r \in Receivers, NEW m \in Msgs, ReceiveAnswer(r, m) PROVE LiveInv'
  <2> DEFINE e == Event(r, "done", m)
  <2>1. e \in Events /\ e.op = "done" /\ e.id = m
    BY EventsAreTyped DEF Event
  <2> HIDE DEF e
  <2>2. SendOnly(e) /\ heard' = heard \cup {m} /\ UNCHANGED <<poolVars, pub>>
    BY <1>3 DEF ReceiveAnswer, e
  <2> QED BY <2>1, <2>2, HeardPreserves
<1>4. CASE PoolStep
  BY <1>4, PoolPreserves DEF PoolStep, msgVars
<1>6. CASE SourceEnds
  BY <1>6, SourceEndsPreserves
<1>7. CASE \/ \E r \in Receivers : DoneTaskReturns(r)
           \/ SubscriptionFails \/ WaitForCancellation \/ CommandReturns
           \/ GeneratorSignalled \/ UNCHANGED generatorVars
  <2>1. /\ UNCHANGED <<loop, currentOps, timeout, idle, timer, statsChan>>
        /\ UNCHANGED <<poolVars, pub, heard>> /\ ctx' \in {ctx, "signal"}
    <3>1. CASE GeneratorSignalled
      BY <3>1 DEF GeneratorSignalled, FirstSignal, CancelBy, Exits, msgVars
    <3>2. CASE ~GeneratorSignalled
      BY <1>7, <3>2 DEF DoneTaskReturns, SubscriptionFails, WaitForCancellation,
         CommandReturns, CloseChannel, statsVars, msgVars, generatorVars
    <3> QED BY <3>1, <3>2
  <2> QED BY <2>1, QuietPreserves
<1>8. CASE SourceFails \/ GeneratorExits \/ SendPanics \/ GeneratorKilled
  BY <1>8 DEF SourceFails, GeneratorExits, SendPanics, GeneratorKilled, Exits
<1> QED
  BY <1>1, <1>2, <1>3, <1>4, <1>6, <1>7, <1>8 DEF Steps, GeneratorNext, MainStep

LEMMA NextPreserves == IndInv /\ Steps => IndInv'
<1> SUFFICES ASSUME IndInv, Steps PROVE IndInv'
  OBVIOUS
<1>1. CASE Running /\ Exits
  BY <1>1, ExitsEnd DEF IndInv
<1>2. CASE Running /\ ~Exits
  BY <1>2, StepPreserves, StaysRunning DEF IndInv
<1>3. CASE ~Running
  BY <1>3, NothingFollows DEF IndInv
<1> QED BY <1>1, <1>2, <1>3

(* "Cancel as soon as we are idle (no more outstanding requests"           *)
(* (pubsub.go:96): for any number of messages, callbacks, workers and      *)
(* signals, and whatever is answered, refused, delayed or repeated.        *)
THEOREM IdleIsAllHeard == GeneratorSpec => []IdleOnlyWhenAllHeard
<1>1. IndInv => IdleOnlyWhenAllHeard
  BY DEF IndInv, LiveInv, IdleOnlyWhenAllHeard
<1> QED
  BY <1>1, InitEstablishes, NextPreserves, PTL DEF GeneratorSpec, Steps

LEMMA StepUsesPool == [GeneratorNext]_generatorVars => [Pool!Next]_(Pool!absvars)
<1> SUFFICES ASSUME [GeneratorNext]_generatorVars PROVE Pool!Next \/ UNCHANGED poolVars
  BY DEF poolVars, Pool!absvars
<1> USE DEF Msgs, Pool!Items
<1>1. ASSUME NEW m \in Msgs, PublisherStep(m) PROVE Pool!Next \/ UNCHANGED poolVars
  BY <1>1 DEF PublisherStep, PublishOp, PublishOpCancelled, Publish, PublishSucceeds,
     PublishFails, Pool!Next
<1>2. CASE PoolStep
  BY <1>2 DEF PoolStep, Pool!Next
<1>3. CASE SourceEnds \/ SourceFails
  BY <1>3 DEF SourceEnds, SourceFails, Pool!Next
<1>4. CASE GeneratorStats(Loop) \/ GeneratorSignalled \/ UNCHANGED generatorVars
  BY <1>4 DEF GeneratorStats, GeneratorSignalled, generatorVars
<1>5. CASE WaitForCancellation \/ CommandReturns \/ GeneratorExits \/ SendPanics \/ GeneratorKilled
  BY <1>5 DEF WaitForCancellation, CommandReturns, GeneratorExits, SendPanics, GeneratorKilled
<1>6. CASE SubscriptionFails
  BY <1>6 DEF SubscriptionFails
<1>7. ASSUME NEW r \in Receivers, DoneTaskReturns(r) \/ \E m \in Msgs : ReceiveAnswer(r, m)
      PROVE  UNCHANGED poolVars
  BY <1>7 DEF DoneTaskReturns, ReceiveAnswer
<1> QED
  BY <1>1, <1>2, <1>3, <1>4, <1>5, <1>6, <1>7 DEF GeneratorNext, MainStep

(* The generator uses its pool as ApplyParallel promises (source.go:       *)
(* StartSourceBytes): messages are taken in order, each is published at    *)
(* most once and within the pool's size, and the pool answers once, when   *)
(* no publishOp is running; a stop or an error of the command adds nothing.*)
THEOREM GeneratorUsesPool == GeneratorSpec => Pool!Spec
<1>1. GeneratorInit => Pool!Init
  BY DEF GeneratorInit, MsgsInit
<1> QED
  BY <1>1, StepUsesPool, PTL DEF GeneratorSpec, Pool!Spec
=============================================================================
