------------------------ MODULE StatsCallers_proofs -------------------------
(***************************************************************************)
(* Proofs about the statistics goroutine: for any number of callers and    *)
(* any idle timeout, its table holds the outstanding tasks, its timer      *)
(* follows the idle period, and it cancels the process only when no task   *)
(* has been active for that long.                                          *)
(***************************************************************************)
EXTENDS StatsCallers, SequenceTheorems, TLAPS

Events == [from : Callers, op : {"start", "cancel", "done", "setTimeout"}, id : TaskIds]

Types ==
    /\ loop \in {"top", "select", "exited"}
    /\ timeout \in {NoTimeout, IdleTimeout}
    /\ idle \in {Zero} \cup 0..IdleTimeout
    /\ timer \in {Stopped} \cup 0..IdleTimeout
    /\ ctx \in {"live", "idle", "signal"}
    /\ statsChan \in Seq(Events)
    /\ at \in [Tasks -> {"out", "starting", "busy", "ending"}]
    /\ main \in {"begin", "setting", "command", "stopping", "stopped"}
    /\ quiet \in 0..IdleTimeout

(* The callers with an event in a channel, and a channel with at most one  *)
(* event of each.                                                          *)
Blocked(ch) == {ch[k].from : k \in 1..Len(ch)}

OneEach(ch) == \A j, k \in 1..Len(ch) : ch[j].from = ch[k].from => j = k

(* An event is what its caller has to say where it is. *)
Fits(e, place, m) ==
    /\ e.from = Main => e.op = "setTimeout" /\ m = "setting"
    /\ e.from \in Tasks =>
          /\ e.id = e.from
          /\ \/ e.op = "start" /\ place[e.from] = "starting"
             \/ e.op \in {"done", "cancel"} /\ place[e.from] = "ending"

AllFit(ch, place, m) == \A k \in 1..Len(ch) : Fits(ch[k], place, m)

ChanInv == OneEach(statsChan) /\ AllFit(statsChan, at, main)

(* The tasks whose start has been received and whose end has not. *)
Outstanding(place, senders) ==
    {t \in Tasks : \/ place[t] = "busy"
                   \/ place[t] = "starting" /\ t \notin senders
                   \/ place[t] = "ending" /\ t \in senders}

TableInv == currentOps = Outstanding(at, Blocked(statsChan))

(* An idle period is without tasks, and the timer is only ever armed after *)
(* the timeout is set.                                                     *)
IdleInv ==
    /\ idle # Zero => currentOps = {} /\ quiet >= idle
    /\ timeout = NoTimeout => timer = Stopped

IndInv == Types /\ ChanInv /\ TableInv /\ IdleInv /\ TimerFollowsIdlePeriod
-----------------------------------------------------------------------------
(* A send adds its caller to those that are blocked. *)
LEMMA AppendBlocked ==
    ASSUME NEW ch \in Seq(Events), NEW e \in Events
    PROVE  /\ Append(ch, e) \in Seq(Events)
           /\ Blocked(Append(ch, e)) = Blocked(ch) \cup {e.from}
           /\ OneEach(ch) /\ e.from \notin Blocked(ch) => OneEach(Append(ch, e))
<1> DEFINE new == Append(ch, e)
<1>1. /\ new \in Seq(Events) /\ Len(ch) \in Nat /\ Len(new) = Len(ch) + 1
      /\ \A k \in 1..Len(ch) : new[k] = ch[k]
      /\ new[Len(ch) + 1] = e
  OBVIOUS
<1>2. 1..Len(new) = 1..Len(ch) \cup {Len(ch) + 1}
  BY <1>1
<1> HIDE DEF new
<1>3. Blocked(new) = Blocked(ch) \cup {e.from}
  BY <1>1, <1>2 DEF Blocked
<1>4. OneEach(ch) /\ e.from \notin Blocked(ch) => OneEach(new)
  BY <1>1, <1>2 DEF Blocked, OneEach
<1> QED BY <1>1, <1>3, <1>4 DEF new

(* A receive lets the first of them go. *)
LEMMA TailBlocked ==
    ASSUME NEW ch \in Seq(Events), ch # <<>>, OneEach(ch)
    PROVE  /\ Tail(ch) \in Seq(Events)
           /\ Head(ch) \in Events /\ Head(ch) = ch[1] /\ 1 \in 1..Len(ch)
           /\ OneEach(Tail(ch))
           /\ Blocked(Tail(ch)) = Blocked(ch) \ {Head(ch).from}
           /\ \A k \in 1..Len(Tail(ch)) : k + 1 \in 1..Len(ch) /\ Tail(ch)[k] = ch[k + 1]
<1> DEFINE new == Tail(ch)
<1>1. /\ new \in Seq(Events) /\ Head(ch) \in Events /\ Head(ch) = ch[1]
      /\ Len(ch) \in Nat \ {0} /\ Len(new) = Len(ch) - 1
      /\ \A k \in 1..Len(new) : new[k] = ch[k + 1]
  OBVIOUS
<1> HIDE DEF new
<1>2. /\ \A k \in 1..Len(new) : k + 1 \in 1..Len(ch)
      /\ \A k \in 1..Len(ch) : k # 1 => k - 1 \in 1..Len(new) /\ new[k - 1] = ch[k]
      /\ 1 \in 1..Len(ch)
  BY <1>1
<1>3. OneEach(new)
  <2> SUFFICES ASSUME NEW j \in 1..Len(new), NEW k \in 1..Len(new), new[j].from = new[k].from
               PROVE  j = k
    BY DEF OneEach
  <2>1. j + 1 = k + 1
    BY <1>1, <1>2 DEF OneEach
  <2> QED BY <2>1
<1>4. Blocked(new) \subseteq Blocked(ch) \ {ch[1].from}
  <2> SUFFICES ASSUME NEW k \in 1..Len(new)
               PROVE  new[k].from \in Blocked(ch) \ {ch[1].from}
    BY DEF Blocked
  <2>1. k + 1 \in 1..Len(ch) /\ new[k] = ch[k + 1] /\ k + 1 # 1
    BY <1>1, <1>2
  <2> QED BY <1>2, <2>1 DEF Blocked, OneEach
<1>5. Blocked(ch) \ {ch[1].from} \subseteq Blocked(new)
  <2> SUFFICES ASSUME NEW k \in 1..Len(ch), ch[k].from # ch[1].from
               PROVE  ch[k].from \in Blocked(new)
    BY DEF Blocked
  <2>1. k - 1 \in 1..Len(new) /\ new[k - 1] = ch[k]
    BY <1>2
  <2> QED BY <2>1 DEF Blocked
<1> QED BY <1>1, <1>2, <1>3, <1>4, <1>5 DEF new

(* To be in a send is to be blocked. *)
LEMMA InSendIsBlocked == \A p : InSend(p) <=> p \in Blocked(statsChan)
  BY DEF InSend, Blocked

(* A caller that is not where it reports from is in no send. *)
LEMMA NotBlocked ==
    ASSUME AllFit(statsChan, at, main)
    PROVE  /\ main # "setting" => Main \notin Blocked(statsChan)
           /\ \A t \in Tasks : at[t] \in {"out", "busy"} => t \notin Blocked(statsChan)
  BY DEF AllFit, Fits, Blocked, Tasks

(* A send by a caller that was in none. *)
LEMMA SendInv ==
    ASSUME Types, ChanInv, NEW e \in Events, statsChan' = Append(statsChan, e),
           e.from \notin Blocked(statsChan), Fits(e, at', main'),
           \A k \in 1..Len(statsChan) : Fits(statsChan[k], at', main')
    PROVE  /\ statsChan' \in Seq(Events)
           /\ ChanInv'
           /\ Blocked(statsChan') = Blocked(statsChan) \cup {e.from}
<1>1. /\ statsChan' \in Seq(Events)
      /\ Blocked(statsChan') = Blocked(statsChan) \cup {e.from}
      /\ OneEach(statsChan')
  BY AppendBlocked DEF Types, ChanInv
<1>2. AllFit(statsChan', at', main')
  <2>1. /\ Len(statsChan) \in Nat /\ Len(statsChan') = Len(statsChan) + 1
        /\ \A k \in 1..Len(statsChan) : statsChan'[k] = statsChan[k]
        /\ statsChan'[Len(statsChan) + 1] = e
    BY DEF Types
  <2>2. 1..Len(statsChan') = 1..Len(statsChan) \cup {Len(statsChan) + 1}
    BY <2>1
  <2> QED BY <2>1, <2>2 DEF AllFit
<1> QED BY <1>1, <1>2 DEF ChanInv
-----------------------------------------------------------------------------
(* The statistics begin with no task and no timeout. *)
LEMMA InitInv == Init => IndInv
<1> SUFFICES ASSUME Init PROVE IndInv
  OBVIOUS
<1>1. statsChan = <<>> /\ statsChan \in Seq(Events) /\ Len(statsChan) = 0
  BY DEF Init, StatsInit
<1>2. Types
  BY <1>1, IdleTimeoutAssumption DEF Init, StatsInit, Types, Zero, Stopped, NoTimeout
<1>3. ChanInv
  BY <1>1 DEF ChanInv, OneEach, AllFit
<1>4. TableInv
  BY <1>1 DEF Init, StatsInit, TableInv, Outstanding
<1>5. IdleInv /\ TimerFollowsIdlePeriod
  BY DEF Init, StatsInit, IdleInv, TimerFollowsIdlePeriod, Zero, Stopped
<1> QED BY <1>2, <1>3, <1>4, <1>5 DEF IndInv

(* An event is received: the table gains or loses its task. *)
LEMMA ReceiveInv ==
    ASSUME IndInv, LoopStep(ReceiveEvent)
    PROVE  IndInv'
<1> DEFINE e == Head(statsChan)
<1>1. /\ statsChan # <<>> /\ statsChan' = Tail(statsChan)
      /\ currentOps' = OpsAfter(e)
      /\ timeout' = IF e.op = "setTimeout" THEN IdleTimeout ELSE timeout
      /\ idle' = IdleAfter(currentOps')
      /\ loop' = "top"
      /\ UNCHANGED <<timer, ctx, at, main, quiet>>
  BY DEF LoopStep, ReceiveEvent
<1>2. /\ statsChan' \in Seq(Events) /\ e \in Events
      /\ OneEach(statsChan')
      /\ Blocked(statsChan') = Blocked(statsChan) \ {e.from}
      /\ e = statsChan[1] /\ 1 \in 1..Len(statsChan)
      /\ \A k \in 1..Len(statsChan') :
            k + 1 \in 1..Len(statsChan) /\ statsChan'[k] = statsChan[k + 1]
  BY <1>1, TailBlocked DEF IndInv, Types, ChanInv
<1>3. Fits(e, at, main) /\ e.from \in Blocked(statsChan)
  BY <1>2 DEF IndInv, ChanInv, AllFit, Blocked
<1>4. e.from \in Callers /\ e.op \in {"start", "cancel", "done", "setTimeout"}
  BY <1>2 DEF Events
<1> HIDE DEF e
<1>5. ChanInv'
  <2>1. AllFit(statsChan', at, main)
    BY <1>2 DEF IndInv, ChanInv, AllFit
  <2> QED BY <1>1, <1>2, <2>1 DEF ChanInv
<1>6. Types'
  BY <1>1, <1>2, IdleTimeoutAssumption DEF IndInv, Types, IdleAfter, Zero
<1>7. TableInv'
  <2>1. CASE e.from = Main
    <3>1. currentOps' = currentOps
      BY <1>1, <1>3, <2>1 DEF Fits, OpsAfter
    <3>2. Outstanding(at, Blocked(statsChan')) = Outstanding(at, Blocked(statsChan))
      BY <1>2, <2>1 DEF Outstanding, Tasks
    <3> QED BY <1>1, <3>1, <3>2 DEF IndInv, TableInv
  <2>2. CASE e.from \in Tasks /\ e.op = "start"
    <3>1. at[e.from] = "starting" /\ e.id = e.from
      BY <1>3, <2>2 DEF Fits
    <3>2. currentOps' = currentOps \cup {e.from}
      BY <1>1, <2>2, <3>1 DEF OpsAfter
    <3>3. Outstanding(at, Blocked(statsChan')) = Outstanding(at, Blocked(statsChan)) \cup {e.from}
      BY <1>2, <2>2, <3>1 DEF Outstanding
    <3> QED BY <1>1, <3>2, <3>3 DEF IndInv, TableInv
  <2>3. CASE e.from \in Tasks /\ e.op # "start"
    <3>1. at[e.from] = "ending" /\ e.id = e.from /\ e.op \in {"done", "cancel"}
      BY <1>3, <2>3 DEF Fits
    <3>2. currentOps' = currentOps \ {e.from}
      BY <1>1, <3>1 DEF OpsAfter
    <3>3. Outstanding(at, Blocked(statsChan')) = Outstanding(at, Blocked(statsChan)) \ {e.from}
      BY <1>2, <2>3, <3>1 DEF Outstanding
    <3> QED BY <1>1, <3>2, <3>3 DEF IndInv, TableInv
  <2> QED BY <1>4, <2>1, <2>2, <2>3 DEF Tasks
<1>8. IdleInv'
  <2>1. idle' # Zero => currentOps' = {} /\ quiet' >= idle'
    BY <1>1 DEF IndInv, Types, IdleInv, IdleAfter, Zero
  <2>2. timeout' = NoTimeout => timer' = Stopped
    BY <1>1, IdleTimeoutAssumption DEF IndInv, Types, IdleInv, NoTimeout
  <2> QED BY <2>1, <2>2 DEF IdleInv
<1>9. TimerFollowsIdlePeriod'
  BY <1>1 DEF TimerFollowsIdlePeriod
<1> QED BY <1>5, <1>6, <1>7, <1>8, <1>9 DEF IndInv

(* The other steps of the goroutine leave the table and the channel alone. *)
LEMMA LoopInv ==
    ASSUME IndInv, LoopStep(Loop)
    PROVE  IndInv'
<1> USE IdleTimeoutAssumption DEF Zero, Stopped, NoTimeout
<1>1. CASE ReceiveEvent
  BY <1>1, ReceiveInv DEF LoopStep
<1>2. CASE ~ReceiveEvent
  <2>1. UNCHANGED <<statsChan, currentOps, timeout, idle, at, main, quiet>>
    BY <1>2 DEF LoopStep, Loop, LoopEnds, SetTimer, ReceiveClosed, ContextDone, LogTick,
       IdleTimerFires
  <2>2. ChanInv' /\ TableInv'
    BY <2>1 DEF IndInv, ChanInv, TableInv
  <2>3. CASE SetTimer
    <3>1. Types'
      BY <2>1, <2>3 DEF IndInv, Types, SetTimer, CancelBy
    <3>2. IdleInv'
      BY <2>1, <2>3 DEF IndInv, Types, IdleInv, SetTimer
    <3>3. TimerFollowsIdlePeriod'
      BY <2>1, <2>3 DEF IndInv, Types, IdleInv, TimerFollowsIdlePeriod, SetTimer, CancelBy,
         Cancelled
    <3> QED BY <2>2, <3>1, <3>2, <3>3 DEF IndInv
  <2>4. CASE IdleTimerFires
    <3>1. Types'
      BY <2>1, <2>4 DEF IndInv, Types, IdleTimerFires, CancelBy
    <3>2. IdleInv'
      BY <2>1, <2>4 DEF IndInv, IdleInv, IdleTimerFires
    <3>3. TimerFollowsIdlePeriod'
      BY <2>4 DEF TimerFollowsIdlePeriod, IdleTimerFires
    <3> QED BY <2>2, <3>1, <3>2, <3>3 DEF IndInv
  <2>5. CASE LoopEnds \/ ReceiveClosed \/ ContextDone \/ LogTick
    <3>1. UNCHANGED <<timer, ctx>> /\ loop' \in {"top", "exited"}
      BY <2>5 DEF LoopEnds, ReceiveClosed, ContextDone, LogTick
    <3>2. Types' /\ IdleInv' /\ TimerFollowsIdlePeriod'
      BY <2>1, <3>1 DEF IndInv, Types, IdleInv, TimerFollowsIdlePeriod
    <3> QED BY <2>2, <3>2 DEF IndInv
  <2> QED BY <1>2, <2>3, <2>4, <2>5 DEF LoopStep, Loop
<1> QED BY <1>1, <1>2

(* A task is reported. *)
LEMMA StartInv ==
    ASSUME IndInv, NEW t \in Tasks, StartTask(t)
    PROVE  IndInv'
<1> DEFINE e == Event(t, "start", t)
<1>1. /\ at[t] = "out" /\ at' = [at EXCEPT ![t] = "starting"]
      /\ statsChan' = Append(statsChan, e)
      /\ UNCHANGED <<loop, currentOps, timeout, idle, timer, ctx, main, quiet>>
  BY DEF StartTask, Send
<1>2. e \in Events /\ e.from = t /\ e.op = "start" /\ e.id = t
  BY CallersAssumption DEF Event, Events, Tasks
<1> HIDE DEF e
<1>3. t \notin Blocked(statsChan) /\ Main \notin Tasks
  BY <1>1, NotBlocked DEF IndInv, ChanInv, Tasks
<1>4. Fits(e, at', main')
  BY <1>1, <1>2, <1>3 DEF IndInv, Types, Fits
<1>5. \A k \in 1..Len(statsChan) : Fits(statsChan[k], at', main')
  BY <1>1, <1>3 DEF IndInv, Types, ChanInv, AllFit, Fits, Blocked
<1>6. statsChan' \in Seq(Events) /\ ChanInv'
      /\ Blocked(statsChan') = Blocked(statsChan) \cup {t}
  BY <1>1, <1>2, <1>3, <1>4, <1>5, SendInv DEF IndInv
<1>7. Types'
  BY <1>1, <1>6 DEF IndInv, Types
<1>8. TableInv'
  BY <1>1, <1>3, <1>6 DEF IndInv, Types, TableInv, Outstanding
<1>9. IdleInv' /\ TimerFollowsIdlePeriod'
  BY <1>1 DEF IndInv, IdleInv, TimerFollowsIdlePeriod
<1> QED BY <1>6, <1>7, <1>8, <1>9 DEF IndInv

(* Its end is reported: the task has been active until now. *)
LEMMA EndInv ==
    ASSUME IndInv, NEW t \in Tasks, NEW op \in {"done", "cancel"}, EndTask(t, op)
    PROVE  IndInv'
<1> DEFINE e == Event(t, op, t)
<1>1. /\ at[t] = "busy" /\ at' = [at EXCEPT ![t] = "ending"] /\ quiet' = 0
      /\ statsChan' = Append(statsChan, e)
      /\ UNCHANGED <<loop, currentOps, timeout, idle, timer, ctx, main>>
  BY DEF EndTask, Send
<1>2. e \in Events /\ e.from = t /\ e.op = op /\ e.id = t
  BY CallersAssumption DEF Event, Events, Tasks
<1> HIDE DEF e
<1>3. t \notin Blocked(statsChan) /\ Main \notin Tasks
  BY <1>1, NotBlocked DEF IndInv, ChanInv, Tasks
<1>4. Fits(e, at', main')
  BY <1>1, <1>2, <1>3 DEF IndInv, Types, Fits
<1>5. \A k \in 1..Len(statsChan) : Fits(statsChan[k], at', main')
  BY <1>1, <1>3 DEF IndInv, Types, ChanInv, AllFit, Fits, Blocked
<1>6. statsChan' \in Seq(Events) /\ ChanInv'
      /\ Blocked(statsChan') = Blocked(statsChan) \cup {t}
  BY <1>1, <1>2, <1>3, <1>4, <1>5, SendInv DEF IndInv
<1>7. Types'
  BY <1>1, <1>6, IdleTimeoutAssumption DEF IndInv, Types
<1>8. TableInv'
  BY <1>1, <1>3, <1>6 DEF IndInv, Types, TableInv, Outstanding
<1>9. idle = Zero
  <2>1. t \in currentOps
    BY <1>1 DEF IndInv, TableInv, Outstanding
  <2> QED BY <2>1 DEF IndInv, IdleInv
<1>10. IdleInv' /\ TimerFollowsIdlePeriod'
  BY <1>1, <1>9 DEF IndInv, IdleInv, TimerFollowsIdlePeriod
<1> QED BY <1>6, <1>7, <1>8, <1>10 DEF IndInv

(* A report returns: its event is in the channel no longer. *)
LEMMA ReturnsInv ==
    ASSUME IndInv, NEW t \in Tasks, StartTaskReturns(t) \/ EndTaskReturns(t)
    PROVE  IndInv'
<1>1. /\ t \notin Blocked(statsChan)
      /\ UNCHANGED <<statsVars, main, quiet>>
      /\ \/ at[t] = "starting" /\ at' = [at EXCEPT ![t] = "busy"]
         \/ at[t] = "ending" /\ at' = [at EXCEPT ![t] = "out"]
  BY InSendIsBlocked DEF StartTaskReturns, EndTaskReturns
<1>2. Types'
  BY <1>1 DEF IndInv, Types, statsVars
<1>3. AllFit(statsChan, at', main)
  BY <1>1 DEF IndInv, Types, ChanInv, AllFit, Fits, Blocked
<1>4. ChanInv'
  BY <1>1, <1>3 DEF IndInv, ChanInv, statsVars
<1>5. TableInv'
  BY <1>1 DEF IndInv, Types, TableInv, Outstanding, statsVars
<1>6. IdleInv' /\ TimerFollowsIdlePeriod'
  BY <1>1 DEF IndInv, IdleInv, TimerFollowsIdlePeriod, statsVars
<1> QED BY <1>2, <1>4, <1>5, <1>6 DEF IndInv

(* main sets the timeout, runs the command, and stops the statistics. *)
LEMMA MainInv ==
    ASSUME IndInv, MainStep \/ Stop
    PROVE  IndInv'
<1>1. UNCHANGED <<loop, currentOps, timeout, idle, timer, ctx, at, quiet>>
  BY DEF MainStep, SetIdleTimeout, CommandRuns, StatsStopped, Stop, CloseChannel, statsVars
<1>2. main' \in {"setting", "command", "stopping", "stopped"}
  BY DEF MainStep, SetIdleTimeout, CommandRuns, StatsStopped, Stop
<1>3. IdleInv' /\ TimerFollowsIdlePeriod'
  BY <1>1 DEF IndInv, IdleInv, TimerFollowsIdlePeriod
<1>4. CASE SetIdleTimeout
  <2> DEFINE e == Event(Main, "setTimeout", Main)
  <2>1. main = "begin" /\ main' = "setting" /\ statsChan' = Append(statsChan, e)
    BY <1>4 DEF SetIdleTimeout, Send
  <2>2. e \in Events /\ e.from = Main /\ e.op = "setTimeout"
    BY CallersAssumption DEF Event, Events
  <2> HIDE DEF e
  <2>3. Main \notin Blocked(statsChan) /\ Main \notin Tasks
    BY <2>1, NotBlocked DEF IndInv, ChanInv, Tasks
  <2>4. Fits(e, at', main')
    BY <2>1, <2>2, <2>3 DEF Fits
  <2>5. \A k \in 1..Len(statsChan) : Fits(statsChan[k], at', main')
    BY <1>1, <2>3 DEF IndInv, ChanInv, AllFit, Fits, Blocked
  <2>6. statsChan' \in Seq(Events) /\ ChanInv'
        /\ Blocked(statsChan') = Blocked(statsChan) \cup {Main}
    BY <2>1, <2>2, <2>3, <2>4, <2>5, SendInv DEF IndInv
  <2>7. Types'
    BY <1>1, <1>2, <2>6 DEF IndInv, Types
  <2>8. TableInv'
    BY <1>1, <2>3, <2>6 DEF IndInv, TableInv, Outstanding
  <2> QED BY <1>3, <2>6, <2>7, <2>8 DEF IndInv
<1>5. CASE CommandRuns \/ StatsStopped \/ Stop
  <2>1. UNCHANGED statsChan /\ Main \notin Blocked(statsChan)
    <3>1. CASE CommandRuns
      BY <3>1, InSendIsBlocked DEF CommandRuns, statsVars
    <3>2. CASE StatsStopped \/ Stop
      BY <3>2, NotBlocked DEF IndInv, ChanInv, StatsStopped, Stop, CloseChannel, statsVars
    <3> QED BY <1>5, <3>1, <3>2
  <2>2. Types' /\ TableInv'
    BY <1>1, <1>2, <2>1 DEF IndInv, Types, TableInv
  <2>3. AllFit(statsChan, at, main')
    BY <2>1 DEF IndInv, ChanInv, AllFit, Fits, Blocked
  <2>4. ChanInv'
    BY <1>1, <2>1, <2>3 DEF IndInv, ChanInv
  <2> QED BY <1>3, <2>2, <2>4 DEF IndInv
<1> QED BY <1>4, <1>5 DEF MainStep

(* Time passes for the idle period, the timer and the quiet together. *)
LEMMA TickInv ==
    ASSUME IndInv, Tick
    PROVE  IndInv'
<1> USE IdleTimeoutAssumption DEF Zero, Stopped, NoTimeout
<1>1. /\ idle' = IF idle \in 0..(IdleTimeout - 1) THEN idle + 1 ELSE idle
      /\ timer' = IF timer > 0 THEN timer - 1 ELSE timer
      /\ UNCHANGED <<loop, currentOps, timeout, ctx, statsChan, at, main>>
  BY DEF Tick, ClocksAdvance
<1>2. quiet' \in 0..IdleTimeout
      /\ (currentOps = {} => quiet' = IF quiet < IdleTimeout THEN quiet + 1 ELSE quiet)
  <2>1. currentOps = {} => \A t \in Tasks : ~Active(t)
    BY InSendIsBlocked DEF IndInv, TableInv, Outstanding, Active
  <2>2. quiet \in 0..IdleTimeout
    BY DEF IndInv, Types
  <2> QED BY <2>1, <2>2 DEF Tick
<1>3. Types'
  BY <1>1, <1>2 DEF IndInv, Types
<1>4. ChanInv' /\ TableInv'
  BY <1>1 DEF IndInv, ChanInv, TableInv
<1>5. IdleInv'
  BY <1>1, <1>2 DEF IndInv, Types, IdleInv
<1>6. TimerFollowsIdlePeriod'
  BY <1>1 DEF IndInv, Types, TimerFollowsIdlePeriod
<1> QED BY <1>3, <1>4, <1>5, <1>6 DEF IndInv

(* Every step keeps the invariant. *)
LEMMA NextInv == IndInv /\ [Next]_vars => IndInv'
<1> SUFFICES ASSUME IndInv, [Next]_vars PROVE IndInv'
  OBVIOUS
<1>1. CASE LoopStep(Loop)
  BY <1>1, LoopInv
<1>2. CASE \E t \in Tasks : StartTask(t) \/ CallerStep(t)
  <2>1. PICK t \in Tasks : StartTask(t) \/ CallerStep(t)
    BY <1>2
  <2> QED BY <2>1, StartInv, EndInv, ReturnsInv DEF CallerStep
<1>3. CASE MainStep \/ Stop
  BY <1>3, MainInv
<1>4. CASE Signal
  <2>1. UNCHANGED <<loop, currentOps, timeout, idle, timer, statsChan, at, main, quiet>>
        /\ ctx' \in {"live", "idle", "signal"} /\ (ctx' = "live" => ctx = "live")
    BY <1>4 DEF Signal, CancelBy, IndInv, Types
  <2> QED
    BY <2>1 DEF IndInv, Types, ChanInv, TableInv, IdleInv, TimerFollowsIdlePeriod
<1>5. CASE Tick
  BY <1>5, TickInv
<1>6. CASE UNCHANGED vars
  BY <1>6 DEF IndInv, Types, ChanInv, TableInv, IdleInv, TimerFollowsIdlePeriod, vars, statsVars
<1> QED BY <1>1, <1>2, <1>3, <1>4, <1>5, <1>6 DEF Next
-----------------------------------------------------------------------------
(* What the goroutine, its timer and its callers have to do with one       *)
(* another, in every state.                                                *)
THEOREM StatsInvariance == Spec => []IndInv
  BY InitInv, NextInv, PTL DEF Spec

(* The table of stats_accum.go holds exactly the tasks whose start has     *)
(* been received and whose end has not.                                    *)
THEOREM TableIsRight == Spec => []TableIsOutstandingTasks
<1>1. IndInv => TableIsOutstandingTasks
  BY InSendIsBlocked DEF IndInv, TableInv, Outstanding, TableIsOutstandingTasks, Active
<1> QED BY <1>1, StatsInvariance, PTL

(* The timer of stats.go fires at the end of the idle period, whatever     *)
(* events and log ticks came in between.                                   *)
THEOREM TimerIsRight == Spec => []TimerFollowsIdlePeriod
<1>1. IndInv => TimerFollowsIdlePeriod
  BY DEF IndInv
<1> QED BY <1>1, StatsInvariance, PTL

(* stats.go cancels the process for idleness only after the whole timeout  *)
(* without an active task.                                                 *)
THEOREM IdleCancelIsRight == Spec => IdleCancelOnlyWhenQuiet
<1> DEFINE Quiet == ctx = "live" /\ ctx' = "idle" =>
                       quiet >= IdleTimeout /\ \A t \in Tasks : ~Active(t)
<1>1. IndInv /\ [Next]_vars => [Quiet]_vars
  <2> SUFFICES ASSUME IndInv, Next, ctx = "live", ctx' = "idle"
               PROVE  quiet >= IdleTimeout /\ \A t \in Tasks : ~Active(t)
    OBVIOUS
  <2> USE IdleTimeoutAssumption DEF Zero, Stopped, NoTimeout
  <2>1. SetTimer \/ IdleTimerFires
    BY DEF Next, LoopStep, Loop, LoopEnds, ReceiveEvent, ReceiveClosed, ContextDone, LogTick,
       StartTask, CallerStep, StartTaskReturns, EndTask, EndTaskReturns, MainStep,
       SetIdleTimeout, CommandRuns, StatsStopped, Stop, CloseChannel, Signal, CancelBy, Tick,
       ClocksAdvance, statsVars
  <2>2. idle # Zero /\ idle >= IdleTimeout
    <3>1. CASE SetTimer
      BY <3>1 DEF SetTimer, IndInv, Types
    <3>2. CASE IdleTimerFires
      BY <3>2 DEF IdleTimerFires, IndInv, Types, TimerFollowsIdlePeriod
    <3> QED BY <2>1, <3>1, <3>2
  <2>3. currentOps = {} /\ quiet >= IdleTimeout
    BY <2>2 DEF IndInv, Types, IdleInv
  <2> QED
    BY <2>3, InSendIsBlocked DEF IndInv, TableInv, Outstanding, Active
<1> QED BY <1>1, StatsInvariance, PTL DEF Spec, IdleCancelOnlyWhenQuiet
=============================================================================
