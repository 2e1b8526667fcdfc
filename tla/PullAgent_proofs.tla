-------------------------- MODULE PullAgent_proofs ---------------------------
(***************************************************************************)
(* Proofs about the services of the agent.  PullAgent: for every number of *)
(* requests, deliveries, signals, failures and restarts, a request is      *)
(* acknowledged only after its response is stored, what is leased is being *)
(* handled, and nobody sends on the closed statistics channel.  HttpServer:*)
(* for every number of requests and calls, status 200 means that every     *)
(* call was answered and, for a push, its response published.              *)
(***************************************************************************)
EXTENDS PullAgent, HttpServer, SequenceTheorems, TLAPS

Events == [from : Callers, op : {"start", "cancel", "done", "setTimeout"}, id : TaskIds]

Places == {"free", "starting", "invoke", "endingOk", "endingErr", "await", "published"}

LoopTypes ==
    /\ loop \in {"top", "select", "exited"}
    /\ currentOps \subseteq TaskIds
    /\ timeout \in {NoTimeout, IdleTimeout}
    /\ idle \in {Zero} \cup 0..IdleTimeout
    /\ timer \in {Stopped} \cup 0..IdleTimeout
    /\ ctx \in {"live", "idle", "signal"}
    /\ statsChan \in Seq(Events)
    /\ closed \in BOOLEAN

AgentTypes ==
    /\ main \in {"begin", "setting", "receive", "failing", "stopping", "exited"}
    /\ code \in {-1, 0, 1, 2}
    /\ watchdog \in BOOLEAN
    /\ dl \in [Deliveries -> Places]
    /\ dmsg \in [Deliveries -> Msgs \cup {NoMsg}]
    /\ holder \in [Msgs -> Deliveries \cup {NoOne}]
    /\ acked \subseteq Msgs
    /\ responses \in [Msgs -> 0..2]

(* A delivery that is handled has a message, and one whose publish has     *)
(* succeeded has its response on the topic.                                *)
HasMessage == \A d \in Deliveries : dl[d] # "free" => dmsg[d] \in Msgs
Published  == \A d \in Deliveries : dl[d] = "published" => responses[dmsg[d]] >= 1

WorkInv == HasMessage /\ Published /\ AckedOnlyAfterResponse /\ LeasedIsHandled

(* Who is in a send is where the code sends. *)
Sends(p, place, work) ==
    \/ p = Main /\ place = "setting"
    \/ p \in Deliveries /\ work[p] \in {"starting", "endingOk", "endingErr"}

Senders == \A k \in 1..Len(statsChan) : Sends(statsChan[k].from, main, dl)

(* The channel is closed only by main, once Receive has drained. *)
ClosedLast ==
    /\ closed => main = "stopping"
    /\ main = "stopping" => statsChan = <<>> /\ \A d \in Deliveries : ~InCallback(d)

ChanInv == Senders /\ ClosedLast

IndInv == LoopTypes /\ AgentTypes /\ WorkInv /\ ChanInv
-----------------------------------------------------------------------------
(* The event of a task, or of the timeout, is one of the channel's. *)
LEMMA EventType ==
    ASSUME NEW p \in Callers, NEW op \in {"start", "done", "setTimeout"}
    PROVE  Event(p, op, SrcId) \in Events /\ Event(p, op, SrcId).from = p
  BY AgentAssumption DEF Event, Events

(* A channel that nobody sends on. *)
LEMMA EmptyChan == <<>> \in Seq(Events)
  OBVIOUS

(* A send appends its event. *)
LEMMA SendTypes ==
    ASSUME LoopTypes, NEW e \in Events, SendOnly(e)
    PROVE  /\ LoopTypes'
           /\ Len(statsChan') = Len(statsChan) + 1
           /\ \A k \in 1..Len(statsChan') :
                 statsChan'[k] = IF k = Len(statsChan') THEN e ELSE statsChan[k]
<1>1. statsChan' = Append(statsChan, e)
  BY DEF SendOnly, Send
<1>2. statsChan' \in Seq(Events)
  BY <1>1 DEF LoopTypes
<1>3. LoopTypes'
  BY <1>2 DEF LoopTypes, SendOnly
<1> QED BY <1>1, <1>3 DEF LoopTypes

(* What a caller that sends leaves true of the channel: the senders before *)
(* it are where they were.                                                 *)
LEMMA SendKeepsSenders ==
    ASSUME LoopTypes, Senders, NEW e \in Events, SendOnly(e), Sends(e.from, main', dl'),
           \A p \in Callers : Sends(p, main, dl) => Sends(p, main', dl')
    PROVE  Senders'
<1>1. /\ Len(statsChan') = Len(statsChan) + 1 /\ Len(statsChan) \in Nat
      /\ \A k \in 1..Len(statsChan') :
            statsChan'[k] = IF k = Len(statsChan') THEN e ELSE statsChan[k]
  BY SendTypes DEF LoopTypes
<1> SUFFICES ASSUME NEW k \in 1..Len(statsChan') PROVE Sends(statsChan'[k].from, main', dl')
  BY DEF Senders
<1>2. CASE k = Len(statsChan')
  BY <1>1, <1>2
<1>3. CASE k # Len(statsChan')
  <2>1. k \in 1..Len(statsChan) /\ statsChan'[k] = statsChan[k]
    BY <1>1, <1>3
  <2>2. statsChan[k] \in Events /\ Sends(statsChan[k].from, main, dl)
    BY <2>1 DEF LoopTypes, Senders
  <2>3. statsChan[k].from \in Callers
    BY <2>2 DEF Events
  <2> QED BY <2>1, <2>2, <2>3
<1> QED BY <1>2, <1>3

(* Nor does a step that sends nothing move them. *)
LEMMA SendersStay ==
    ASSUME LoopTypes, Senders, UNCHANGED statsChan,
           \A p \in Callers : InSend(p) /\ Sends(p, main, dl) => Sends(p, main', dl')
    PROVE  Senders'
<1>1. \A k \in 1..Len(statsChan) : statsChan[k] \in Events
  BY DEF LoopTypes
<1>2. \A k \in 1..Len(statsChan) : statsChan[k].from \in Callers /\ InSend(statsChan[k].from)
  BY <1>1 DEF Events, InSend
<1>3. \A k \in 1..Len(statsChan) : Sends(statsChan[k].from, main', dl')
  BY <1>2 DEF Senders
<1> QED BY <1>3 DEF Senders

(* The loop of the statistics goroutine keeps its types. *)
LEMMA LoopStep ==
    ASSUME LoopTypes, Loop \/ ClocksAdvance
    PROVE  LoopTypes'
<1> USE IdleTimeoutAssumption DEF NoTimeout, Zero, Stopped
<1>1. CASE ReceiveEvent
  <2>1. Head(statsChan) \in Events /\ Tail(statsChan) \in Seq(Events)
    BY <1>1 DEF ReceiveEvent, LoopTypes
  <2>2. currentOps' \subseteq TaskIds
    BY <1>1, <2>1 DEF ReceiveEvent, LoopTypes, OpsAfter, Events
  <2>3. idle' \in {Zero} \cup 0..IdleTimeout
    BY <1>1 DEF ReceiveEvent, LoopTypes, IdleAfter
  <2>4. timeout' \in {NoTimeout, IdleTimeout}
    BY <1>1 DEF ReceiveEvent, LoopTypes
  <2> QED BY <1>1, <2>1, <2>2, <2>3, <2>4 DEF ReceiveEvent, LoopTypes
<1>2. CASE SetTimer
  <2>1. timer' \in {Stopped} \cup 0..IdleTimeout
    BY <1>2 DEF SetTimer, LoopTypes
  <2>2. ctx' \in {"live", "idle", "signal"}
    BY <1>2 DEF SetTimer, LoopTypes, CancelBy
  <2> QED BY <1>2, <2>1, <2>2 DEF SetTimer, LoopTypes
<1>3. CASE LoopEnds \/ ReceiveClosed \/ ContextDone \/ LogTick
  BY <1>3 DEF LoopEnds, ReceiveClosed, ContextDone, LogTick, LoopTypes
<1>4. CASE IdleTimerFires
  BY <1>4 DEF IdleTimerFires, CancelBy, LoopTypes
<1>5. CASE ClocksAdvance
  BY <1>5 DEF ClocksAdvance, LoopTypes
<1> QED BY <1>1, <1>2, <1>3, <1>4, <1>5 DEF Loop

(* It only takes the first sender off the channel, and closes nothing. *)
LEMMA LoopChannel ==
    ASSUME LoopTypes, Loop \/ ClocksAdvance
    PROVE  /\ closed' = closed
           /\ statsChan = <<>> => statsChan' = <<>>
           /\ Len(statsChan') <= Len(statsChan)
           /\ \A k \in 1..Len(statsChan') :
                 \E j \in 1..Len(statsChan) : statsChan'[k] = statsChan[j]
<1>1. CASE ReceiveEvent
  <2>1. statsChan # <<>> /\ statsChan' = Tail(statsChan) /\ closed' = closed
    BY <1>1 DEF ReceiveEvent
  <2>2. Len(statsChan') = Len(statsChan) - 1 /\ Len(statsChan) \in Nat \ {0}
    BY <2>1 DEF LoopTypes
  <2>3. \A k \in 1..Len(statsChan') : statsChan'[k] = statsChan[k + 1]
    BY <2>1, <2>2 DEF LoopTypes
  <2>4. \A k \in 1..Len(statsChan') : k + 1 \in 1..Len(statsChan)
    BY <2>2
  <2> QED BY <2>1, <2>2, <2>3, <2>4
<1>2. CASE UNCHANGED <<statsChan, closed>>
  BY <1>2 DEF LoopTypes
<1> QED
  BY <1>1, <1>2 DEF Loop, LoopEnds, SetTimer, ReceiveClosed, ContextDone, LogTick,
     IdleTimerFires, ClocksAdvance
-----------------------------------------------------------------------------
(* The process begins with nothing leased and nothing sent. *)
LEMMA InitInv == Init => IndInv
<1> SUFFICES ASSUME Init PROVE IndInv
  OBVIOUS
<1>1. LoopTypes
  <2>1. statsChan \in Seq(Events)
    BY EmptyChan DEF Init, ProcInit, StatsInit
  <2>2. closed \in BOOLEAN
    BY DEF Init, ProcInit, StatsInit
  <2>3. idle \in {Zero} /\ timer \in {Stopped} /\ timeout \in {NoTimeout} /\ currentOps = {}
        /\ loop = "top" /\ ctx = "live"
    BY DEF Init, ProcInit, StatsInit
  <2> QED BY <2>1, <2>2, <2>3 DEF LoopTypes
<1>2. AgentTypes
  <2>1. watchdog \in BOOLEAN
    BY DEF Init, ProcInit
  <2>2. dl \in [Deliveries -> Places] /\ dmsg \in [Deliveries -> Msgs \cup {NoMsg}]
        /\ holder \in [Msgs -> Deliveries \cup {NoOne}] /\ responses \in [Msgs -> 0..2]
    BY DEF Init, ProcInit, Places
  <2> QED BY <2>1, <2>2 DEF Init, ProcInit, AgentTypes
<1>3. WorkInv
  BY DEF Init, ProcInit, WorkInv, HasMessage, Published, AckedOnlyAfterResponse, LeasedIsHandled
<1>4. ChanInv
  BY DEF Init, ProcInit, StatsInit, ChanInv, Senders, ClosedLast
<1> QED BY <1>1, <1>2, <1>3, <1>4 DEF IndInv

(* An exit, a panic included, leaves nothing of the process. *)
LEMMA ExitInv ==
    ASSUME IndInv, NEW c \in {0, 1, 2}, Exit(c), Gone, UNCHANGED <<acked, responses>>
    PROVE  IndInv'
<1>1. LoopTypes'
  <2>1. statsChan' \in Seq(Events)
    BY EmptyChan DEF Exit, Gone, StatsGone
  <2>2. closed' \in BOOLEAN
    BY DEF Exit, Gone, StatsGone
  <2>3. idle' \in {Zero} /\ timer' \in {Stopped} /\ timeout' \in {NoTimeout}
        /\ currentOps' = {} /\ loop' = "top" /\ ctx' = "live"
    BY DEF Exit, Gone, StatsGone
  <2> QED BY <2>1, <2>2, <2>3 DEF LoopTypes
<1>2. AgentTypes'
  <2>1. watchdog' \in BOOLEAN
    BY DEF Exit, Gone
  <2>2. dl' \in [Deliveries -> Places] /\ dmsg' \in [Deliveries -> Msgs \cup {NoMsg}]
        /\ holder' \in [Msgs -> Deliveries \cup {NoOne}]
    BY DEF Exit, Gone, Places
  <2> QED BY <2>1, <2>2 DEF Exit, Gone, IndInv, AgentTypes
<1>3. WorkInv'
  BY DEF IndInv, WorkInv, Exit, Gone, HasMessage, Published, AckedOnlyAfterResponse,
     LeasedIsHandled
<1>4. ChanInv'
  BY DEF Exit, Gone, StatsGone, ChanInv, Senders, ClosedLast
<1> QED BY <1>1, <1>2, <1>3, <1>4 DEF IndInv

(* The statistics goroutine and its clocks leave the work alone. *)
LEMMA StatsInv ==
    ASSUME IndInv, StatsStep(Loop) \/ StatsStep(ClocksAdvance)
    PROVE  IndInv'
<1>1. Loop \/ ClocksAdvance
  BY DEF StatsStep
<1>2. UNCHANGED <<procVars, workVars, cloudVars>>
  BY DEF StatsStep
<1>3. LoopTypes'
  BY <1>1, LoopStep DEF IndInv
<1>4. AgentTypes' /\ WorkInv'
  BY <1>2 DEF IndInv, AgentTypes, WorkInv, HasMessage, Published, AckedOnlyAfterResponse,
     LeasedIsHandled, procVars, workVars, cloudVars
<1>5. /\ closed' = closed
      /\ statsChan = <<>> => statsChan' = <<>>
      /\ \A k \in 1..Len(statsChan') :
            \E j \in 1..Len(statsChan) : statsChan'[k] = statsChan[j]
  BY <1>1, LoopChannel DEF IndInv
<1>6. Senders'
  BY <1>2, <1>5 DEF IndInv, ChanInv, Senders, Sends, procVars, workVars
<1>7. ClosedLast'
  BY <1>2, <1>5 DEF IndInv, ChanInv, ClosedLast, InCallback, procVars, workVars
<1> QED BY <1>3, <1>4, <1>6, <1>7 DEF IndInv, ChanInv

(* main: the channel is closed only when Receive has nothing left. *)
LEMMA MainInv ==
    ASSUME IndInv,
           \/ SetIdleTimeout \/ CallReceive \/ ReceiveReturns \/ ReceiveFails \/ Restart
    PROVE  IndInv'
<1>1. UNCHANGED <<watchdog, workVars, cloudVars>>
  BY DEF SetIdleTimeout, CallReceive, ReceiveReturns, ReceiveFails, Restart
<1>2. AgentTypes' /\ WorkInv'
  <2>1. code' \in {-1, 0, 1, 2}
        /\ main' \in {"begin", "setting", "receive", "failing", "stopping", "exited"}
    BY DEF SetIdleTimeout, CallReceive, ReceiveReturns, ReceiveFails, Restart, IndInv,
       AgentTypes
  <2> QED
    BY <1>1, <2>1 DEF IndInv, AgentTypes, WorkInv, HasMessage, Published,
       AckedOnlyAfterResponse, LeasedIsHandled, workVars, cloudVars
<1>3. CASE SetIdleTimeout /\ HasIdleTimeout
  <2>1. Event(Main, "setTimeout", SrcId) \in Events
        /\ Event(Main, "setTimeout", SrcId).from = Main
    BY EventType, AgentAssumption
  <2>2. SendOnly(Event(Main, "setTimeout", SrcId)) /\ main = "begin" /\ main' = "setting"
    BY <1>3 DEF SetIdleTimeout
  <2>3. LoopTypes'
    BY <2>1, <2>2, SendTypes DEF IndInv
  <2>4. \A p \in Callers : Sends(p, main, dl) => Sends(p, main', dl')
    BY <1>1, <2>2 DEF Sends, workVars
  <2>5. Senders'
    BY <2>1, <2>2, <2>4, SendKeepsSenders DEF IndInv, ChanInv, Sends
  <2>6. ClosedLast'
    BY <2>2 DEF IndInv, ChanInv, ClosedLast, SendOnly
  <2> QED BY <1>2, <2>3, <2>5, <2>6 DEF IndInv, ChanInv
<1>4. CASE /\ UNCHANGED statsVars /\ ~InSend(Main)
           /\ main # "stopping" /\ main' \in {"begin", "receive", "failing"}
  <2>1. LoopTypes' /\ ClosedLast'
    <3>1. LoopTypes'
      BY <1>4 DEF IndInv, LoopTypes, statsVars
    <3>2. ~closed
      BY <1>4 DEF IndInv, ChanInv, ClosedLast
    <3>3. ~closed' /\ main' # "stopping"
      BY <1>4, <3>2 DEF statsVars
    <3> QED BY <3>1, <3>3 DEF ClosedLast
  <2>2. Senders'
    BY <1>1, <1>4 DEF IndInv, ChanInv, Senders, Sends, InSend, statsVars, workVars
  <2> QED BY <1>2, <2>1, <2>2 DEF IndInv, ChanInv
<1>5. CASE main \in {"begin", "receive", "exited"}
  <2>1. ~InSend(Main)
    BY <1>5, AgentAssumption DEF IndInv, ChanInv, Senders, Sends, InSend, Deliveries
  <2>2. CASE ReceiveReturns
    <3>1. \A d \in Deliveries : ~InCallback(d)
      BY <2>2 DEF ReceiveReturns, Drained
    <3>2. \A p \in Callers : ~Sends(p, main, dl)
      BY <2>2, <3>1, AgentAssumption DEF ReceiveReturns, Sends, InCallback, Deliveries
    <3>3. statsChan = <<>>
      <4>1. statsChan \in Seq(Events)
            /\ \A k \in 1..Len(statsChan) : Sends(statsChan[k].from, main, dl)
        BY DEF IndInv, LoopTypes, ChanInv, Senders
      <4>2. \A k \in 1..Len(statsChan) : statsChan[k].from \in Callers
        <5>1. \A k \in 1..Len(statsChan) : statsChan[k] \in Events
          BY <4>1
        <5> QED BY <5>1 DEF Events
      <4>3. Len(statsChan) = 0
        <5>1. Len(statsChan) \in Nat /\ (Len(statsChan) # 0 => 1 \in 1..Len(statsChan))
          BY <4>1
        <5>2. 1 \in 1..Len(statsChan) => FALSE
          BY <3>2, <4>1, <4>2
        <5> QED BY <5>1, <5>2
      <4> QED BY <4>1, <4>3
    <3>4. LoopTypes'
      BY <2>2 DEF ReceiveReturns, CloseChannel, IndInv, LoopTypes
    <3>5. ChanInv'
      BY <1>1, <2>2, <3>1, <3>3 DEF ReceiveReturns, CloseChannel, ChanInv, Senders,
         ClosedLast, InCallback, workVars
    <3> QED BY <1>2, <3>4, <3>5 DEF IndInv
  <2>3. CASE ~ReceiveReturns /\ ~(SetIdleTimeout /\ HasIdleTimeout)
    <3>1. /\ UNCHANGED statsVars
          /\ main # "stopping" /\ main' \in {"begin", "receive", "failing"}
      BY <1>5, <2>3 DEF SetIdleTimeout, CallReceive, ReceiveFails, Restart
    <3> QED BY <1>4, <2>1, <3>1
  <2> QED BY <1>3, <2>2, <2>3
<1>6. CASE CallReceive
  BY <1>4, <1>6 DEF CallReceive
<1> QED BY <1>5, <1>6 DEF SetIdleTimeout, ReceiveReturns, ReceiveFails, Restart

(* A signal cancels, or ends the process. *)
LEMMA SignalInv ==
    ASSUME IndInv, Signal
    PROVE  IndInv'
<1>1. UNCHANGED <<acked, responses>>
  BY DEF Signal
<1>2. CASE SignalAgain /\ Gone
  BY <1>1, <1>2, ExitInv DEF SignalAgain
<1>3. CASE FirstSignal /\ UNCHANGED <<workVars, holder>>
  <2>1. /\ CancelBy("signal")
        /\ watchdog' = TRUE
        /\ UNCHANGED <<loop, currentOps, timeout, idle, timer, statsChan, closed>>
        /\ UNCHANGED <<main, code, dl, dmsg, holder, acked, responses>>
    BY <1>1, <1>3 DEF FirstSignal, workVars
  <2>2. LoopTypes'
    BY <2>1 DEF IndInv, LoopTypes, CancelBy
  <2>3. AgentTypes' /\ WorkInv'
    BY <2>1 DEF IndInv, AgentTypes, WorkInv, HasMessage, Published, AckedOnlyAfterResponse,
       LeasedIsHandled
  <2>4. ChanInv'
    BY <2>1 DEF IndInv, ChanInv, Senders, Sends, ClosedLast, InCallback
  <2> QED BY <2>2, <2>3, <2>4 DEF IndInv
<1> QED BY <1>2, <1>3 DEF Signal
-----------------------------------------------------------------------------
(* A delivery gets a free place and a message that nobody else holds. *)
LEMMA LeaseInv ==
    ASSUME IndInv, NEW d \in Deliveries, NEW m \in Msgs,
           Deliver(d, m) \/ DeliverUndecodable(d, m)
    PROVE  IndInv'
<1>1. /\ main = "receive" /\ dl[d] = "free" /\ holder[m] = NoOne
      /\ holder' = [holder EXCEPT ![m] = d]
      /\ dmsg' = [dmsg EXCEPT ![d] = m]
      /\ UNCHANGED <<main, code, watchdog, acked, responses>>
  BY DEF Deliver, DeliverUndecodable, Lease, procVars
<1>2. PICK place \in {"starting", "endingErr"} : dl' = [dl EXCEPT ![d] = place]
  BY DEF Deliver, DeliverUndecodable
<1>3. AgentTypes'
  BY <1>1, <1>2 DEF IndInv, AgentTypes, Places
<1>4. WorkInv'
  <2>1. HasMessage'
    BY <1>1, <1>2 DEF IndInv, WorkInv, HasMessage, AgentTypes
  <2>2. Published'
    BY <1>1, <1>2 DEF IndInv, WorkInv, Published, AgentTypes
  <2>3. AckedOnlyAfterResponse'
    BY <1>1 DEF IndInv, WorkInv, AckedOnlyAfterResponse
  <2>4. LeasedIsHandled'
    BY <1>1, <1>2, AgentAssumption DEF IndInv, WorkInv, LeasedIsHandled, AgentTypes,
       Deliveries
  <2> QED BY <2>1, <2>2, <2>3, <2>4 DEF WorkInv
<1>5. \A p \in Callers : Sends(p, main, dl) => Sends(p, main', dl')
  BY <1>1, <1>2 DEF IndInv, AgentTypes, Sends
<1>6. ClosedLast'
  BY <1>1 DEF IndInv, ChanInv, ClosedLast, Deliver, DeliverUndecodable, SendOnly, statsVars
<1>7. CASE Deliver(d, m)
  <2>1. Event(d, "start", SrcId) \in Events /\ Event(d, "start", SrcId).from = d
    BY EventType DEF Deliveries
  <2>2. SendOnly(Event(d, "start", SrcId)) /\ dl' = [dl EXCEPT ![d] = "starting"]
    BY <1>7 DEF Deliver
  <2>3. LoopTypes'
    BY <2>1, <2>2, SendTypes DEF IndInv
  <2>4. Sends(d, main', dl')
    BY <2>2 DEF IndInv, AgentTypes, Sends
  <2>5. Senders'
    BY <1>5, <2>1, <2>2, <2>4, SendKeepsSenders DEF IndInv, ChanInv
  <2> QED BY <1>3, <1>4, <1>6, <2>3, <2>5 DEF IndInv, ChanInv
<1>8. CASE DeliverUndecodable(d, m)
  <2>1. UNCHANGED statsVars
    BY <1>8 DEF DeliverUndecodable
  <2>2. LoopTypes'
    BY <2>1 DEF IndInv, LoopTypes, statsVars
  <2>3. Senders'
    BY <1>5, <2>1, SendersStay DEF IndInv, ChanInv, statsVars
  <2> QED BY <1>3, <1>4, <1>6, <2>2, <2>3 DEF IndInv, ChanInv
<1> QED BY <1>7, <1>8

(* The task is reported and the backend called. *)
LEMMA InvokeInv ==
    ASSUME IndInv, NEW d \in Deliveries,
           \/ StartTaskReturns(d)
           \/ InvokeReturns(d, "endingOk") \/ InvokeReturns(d, "endingErr")
    PROVE  IndInv'
<1>1. UNCHANGED <<main, code, watchdog, dmsg, holder, acked, responses>>
  BY DEF StartTaskReturns, InvokeReturns, procVars, cloudVars
<1>2. PICK place \in {"invoke", "endingOk", "endingErr"} : dl' = [dl EXCEPT ![d] = place]
  BY DEF StartTaskReturns, InvokeReturns
<1>3. dl[d] \in {"starting", "invoke"}
  BY DEF StartTaskReturns, InvokeReturns
<1>4. AgentTypes'
  BY <1>1, <1>2 DEF IndInv, AgentTypes, Places
<1>5. WorkInv'
  BY <1>1, <1>2, <1>3 DEF IndInv, WorkInv, AgentTypes, HasMessage, Published,
     AckedOnlyAfterResponse, LeasedIsHandled
<1>6. main # "stopping" /\ ~closed
  BY <1>3 DEF IndInv, ChanInv, ClosedLast, InCallback
<1>7. CASE StartTaskReturns(d)
  <2>1. UNCHANGED statsVars /\ ~InSend(d) /\ dl' = [dl EXCEPT ![d] = "invoke"]
    BY <1>7 DEF StartTaskReturns
  <2>2. LoopTypes'
    BY <2>1 DEF IndInv, LoopTypes, statsVars
  <2>3. \A p \in Callers : Sends(p, main, dl) /\ p # d => Sends(p, main', dl')
    BY <1>1, <2>1 DEF IndInv, AgentTypes, Sends
  <2>4. Senders'
    BY <2>1, <2>3, SendersStay DEF IndInv, ChanInv, statsVars
  <2>5. ClosedLast'
    BY <1>1, <1>6, <2>1 DEF ClosedLast, statsVars
  <2> QED BY <1>4, <1>5, <2>2, <2>4, <2>5 DEF IndInv, ChanInv
<1>8. CASE InvokeReturns(d, "endingOk") \/ InvokeReturns(d, "endingErr")
  <2>1. Event(d, "done", SrcId) \in Events /\ Event(d, "done", SrcId).from = d
    BY EventType DEF Deliveries
  <2>2. SendOnly(Event(d, "done", SrcId)) /\ dl[d] = "invoke"
    BY <1>8 DEF InvokeReturns
  <2>3. PICK r \in {"endingOk", "endingErr"} : dl' = [dl EXCEPT ![d] = r]
    BY <1>8 DEF InvokeReturns
  <2>4. LoopTypes'
    BY <2>1, <2>2, SendTypes DEF IndInv
  <2>5. Sends(d, main', dl') /\ \A p \in Callers : Sends(p, main, dl) => Sends(p, main', dl')
    BY <1>1, <2>3 DEF IndInv, AgentTypes, Sends
  <2>6. Senders'
    BY <2>1, <2>2, <2>5, SendKeepsSenders DEF IndInv, ChanInv
  <2>7. ClosedLast'
    BY <1>1, <1>6, <2>2 DEF ClosedLast, SendOnly
  <2> QED BY <1>4, <1>5, <2>4, <2>6, <2>7 DEF IndInv, ChanInv
<1> QED BY <1>7, <1>8

(* A delivery ends with an ack or a nack. *)
LEMMA DeliveryEnds ==
    ASSUME IndInv, NEW d \in Deliveries, dl[d] # "free", ~InSend(d),
           Forget(d), GiveBack(d), UNCHANGED <<statsVars, procVars>>,
           AgentTypes', Published', AckedOnlyAfterResponse'
    PROVE  IndInv'
<1>1. LoopTypes'
  BY DEF IndInv, LoopTypes, statsVars
<1>2. HasMessage'
  BY DEF IndInv, WorkInv, HasMessage, AgentTypes, Forget
<1>3. LeasedIsHandled'
  BY AgentAssumption DEF IndInv, WorkInv, LeasedIsHandled, HasMessage, AgentTypes, Forget,
     GiveBack, HasLease, Deliveries
<1>4. \A p \in Callers : Sends(p, main, dl) /\ p # d => Sends(p, main', dl')
  BY DEF IndInv, AgentTypes, Sends, Forget, procVars
<1>5. Senders'
  BY <1>4, SendersStay DEF IndInv, ChanInv, statsVars
<1>6. ClosedLast'
  BY DEF IndInv, AgentTypes, ChanInv, ClosedLast, InCallback, Forget, statsVars, procVars
<1> QED BY <1>1, <1>2, <1>3, <1>5, <1>6 DEF IndInv, WorkInv, ChanInv

(* A delivery that waits for its publish, or for nothing, is in no send. *)
LEMMA NotSending ==
    ASSUME IndInv, NEW d \in Deliveries, dl[d] \in {"await", "published"}
    PROVE  ~InSend(d)
  BY AgentAssumption DEF IndInv, ChanInv, Senders, Sends, InSend, Deliveries

(* The message keeps or gains responses. *)
LEMMA ResponsesGrow ==
    ASSUME AgentTypes, NEW m \in Msgs, AddResponse(m) \/ UNCHANGED responses
    PROVE  /\ responses' \in [Msgs -> 0..2]
           /\ \A n \in Msgs : responses'[n] >= responses[n]
           /\ AddResponse(m) => responses'[m] >= 1
  BY DEF AgentTypes, AddResponse

(* The callback publishes, or gives the message back. *)
LEMMA CallbackEndsInv ==
    ASSUME IndInv, NEW d \in Deliveries, InvokerFailed(d) \/ Publish(d) \/ PublishPanics(d)
    PROVE  IndInv'
<1>1. CASE InvokerFailed(d)
  <2>1. dl[d] # "free" /\ ~InSend(d) /\ Forget(d) /\ GiveBack(d)
        /\ UNCHANGED <<statsVars, procVars, acked, responses>>
    BY <1>1 DEF InvokerFailed
  <2>2. AgentTypes'
    BY <2>1 DEF IndInv, AgentTypes, Places, Forget, GiveBack, HasLease, procVars
  <2>3. Published' /\ AckedOnlyAfterResponse'
    BY <2>1 DEF IndInv, WorkInv, AgentTypes, Published, AckedOnlyAfterResponse, Forget
  <2> QED BY <2>1, <2>2, <2>3, DeliveryEnds
<1>2. CASE Publish(d)
  <2>1. /\ dl[d] = "endingOk" /\ ~InSend(d) /\ dl' = [dl EXCEPT ![d] = "await"]
        /\ UNCHANGED <<statsVars, procVars, dmsg, cloudVars>>
    BY <1>2 DEF Publish
  <2>2. LoopTypes' /\ AgentTypes'
    BY <2>1 DEF IndInv, LoopTypes, AgentTypes, Places, statsVars, procVars, cloudVars
  <2>3. WorkInv'
    BY <2>1 DEF IndInv, WorkInv, AgentTypes, HasMessage, Published, AckedOnlyAfterResponse,
       LeasedIsHandled, cloudVars
  <2>4. \A p \in Callers : Sends(p, main, dl) /\ p # d => Sends(p, main', dl')
    BY <2>1 DEF IndInv, AgentTypes, Sends, procVars
  <2>5. Senders'
    BY <2>1, <2>4, SendersStay DEF IndInv, ChanInv, statsVars
  <2>6. ClosedLast'
    BY <2>1 DEF IndInv, AgentTypes, ChanInv, ClosedLast, InCallback, statsVars, procVars
  <2> QED BY <2>2, <2>3, <2>5, <2>6 DEF IndInv, ChanInv
<1>3. CASE PublishPanics(d)
  BY <1>3, ExitInv DEF PublishPanics
<1> QED BY <1>1, <1>2, <1>3

(* The goroutine that waits for the publish. *)
LEMMA PublishInv ==
    ASSUME IndInv, NEW d \in Deliveries,
           \/ PublishSucceeds(d)
           \/ PublishFails(d, TRUE) \/ PublishFails(d, FALSE)
           \/ Ack(d)
    PROVE  IndInv'
<1>1. dl[d] \in {"await", "published"} /\ dmsg[d] \in Msgs /\ ~InSend(d)
  BY NotSending DEF PublishSucceeds, PublishFails, Ack, IndInv, WorkInv, HasMessage
<1>2. CASE PublishSucceeds(d)
  <2>1. /\ dl[d] = "await" /\ dl' = [dl EXCEPT ![d] = "published"] /\ AddResponse(dmsg[d])
        /\ UNCHANGED <<statsVars, procVars, dmsg, holder, acked>>
    BY <1>2 DEF PublishSucceeds
  <2>2. /\ responses' \in [Msgs -> 0..2]
        /\ \A n \in Msgs : responses'[n] >= responses[n]
        /\ responses'[dmsg[d]] >= 1
    BY <1>1, <2>1, ResponsesGrow DEF IndInv
  <2>3. LoopTypes' /\ AgentTypes'
    BY <2>1, <2>2 DEF IndInv, LoopTypes, AgentTypes, Places, statsVars, procVars
  <2>4. HasMessage' /\ LeasedIsHandled'
    BY <2>1 DEF IndInv, WorkInv, AgentTypes, HasMessage, LeasedIsHandled
  <2>5. Published'
    BY <1>1, <2>1, <2>2 DEF IndInv, WorkInv, AgentTypes, HasMessage, Published
  <2>6. AckedOnlyAfterResponse'
    BY <2>1, <2>2 DEF IndInv, WorkInv, AgentTypes, AckedOnlyAfterResponse
  <2>7. Senders'
    BY <2>1 DEF IndInv, AgentTypes, ChanInv, Senders, Sends, statsVars, procVars
  <2>8. ClosedLast'
    BY <2>1 DEF IndInv, AgentTypes, ChanInv, ClosedLast, InCallback, statsVars, procVars
  <2> QED BY <2>3, <2>4, <2>5, <2>6, <2>7, <2>8 DEF IndInv, WorkInv, ChanInv
<1>3. CASE PublishFails(d, TRUE) \/ PublishFails(d, FALSE)
  <2>1. /\ AddResponse(dmsg[d]) \/ UNCHANGED responses
        /\ Forget(d) /\ GiveBack(d) /\ UNCHANGED <<statsVars, procVars, acked>>
    BY <1>3 DEF PublishFails
  <2>2. responses' \in [Msgs -> 0..2] /\ \A n \in Msgs : responses'[n] >= responses[n]
    BY <1>1, <2>1, ResponsesGrow DEF IndInv
  <2>3. AgentTypes'
    BY <2>1, <2>2 DEF IndInv, AgentTypes, Places, Forget, GiveBack, HasLease, procVars
  <2>4. Published'
    BY <2>1, <2>2 DEF IndInv, WorkInv, HasMessage, AgentTypes, Published, Forget
  <2>5. AckedOnlyAfterResponse'
    BY <2>1, <2>2 DEF IndInv, WorkInv, AgentTypes, AckedOnlyAfterResponse
  <2> QED BY <1>1, <2>1, <2>3, <2>4, <2>5, DeliveryEnds
<1>4. CASE Ack(d)
  <2>1. /\ dl[d] = "published" /\ acked' = acked \cup {dmsg[d]}
        /\ Forget(d) /\ GiveBack(d) /\ UNCHANGED <<statsVars, procVars, responses>>
    BY <1>4 DEF Ack
  <2>2. AgentTypes'
    BY <1>1, <2>1 DEF IndInv, AgentTypes, Places, Forget, GiveBack, HasLease, procVars
  <2>3. Published'
    BY <2>1 DEF IndInv, WorkInv, AgentTypes, Published, Forget
  <2>4. AckedOnlyAfterResponse'
    BY <2>1 DEF IndInv, WorkInv, Published, AckedOnlyAfterResponse
  <2> QED BY <1>1, <2>1, <2>2, <2>3, <2>4, DeliveryEnds
<1> QED BY <1>2, <1>3, <1>4

(* A lease that ends leaves its delivery at work. *)
LEMMA LeaseEndsInv ==
    ASSUME IndInv, NEW d \in Deliveries, LeaseEnds(d)
    PROVE  IndInv'
<1>1. /\ holder' = [holder EXCEPT ![dmsg[d]] = NoOne]
      /\ UNCHANGED <<statsVars, procVars, workVars, acked, responses>>
  BY DEF LeaseEnds
<1>2. LoopTypes' /\ AgentTypes'
  BY <1>1 DEF IndInv, LoopTypes, AgentTypes, statsVars, procVars, workVars
<1>3. WorkInv'
  BY <1>1 DEF IndInv, WorkInv, AgentTypes, HasMessage, Published, AckedOnlyAfterResponse,
     LeasedIsHandled, workVars
<1>4. ChanInv'
  BY <1>1 DEF IndInv, ChanInv, Senders, Sends, ClosedLast, InCallback, statsVars, procVars,
     workVars
<1> QED BY <1>2, <1>3, <1>4 DEF IndInv

(* Every step keeps the invariant. *)
LEMMA NextInv == IndInv /\ [Next]_vars => IndInv'
<1> SUFFICES ASSUME IndInv, [Next]_vars PROVE IndInv'
  OBVIOUS
<1>1. CASE StatsStep(Loop) \/ StatsStep(ClocksAdvance)
  BY <1>1, StatsInv
<1>2. CASE \E d \in Deliveries, m \in Msgs : Deliver(d, m) \/ DeliverUndecodable(d, m)
  BY <1>2, LeaseInv
<1>3. CASE \E d \in Deliveries : CallbackStep(d) \/ LeaseEnds(d)
  <2>1. PICK d \in Deliveries : CallbackStep(d) \/ LeaseEnds(d)
    BY <1>3
  <2> QED BY <2>1, InvokeInv, CallbackEndsInv, PublishInv, LeaseEndsInv DEF CallbackStep
<1>4. CASE SetIdleTimeout \/ CallReceive \/ ReceiveReturns \/ ReceiveFails \/ Restart
  BY <1>4, MainInv
<1>5. CASE ExitOnError \/ ExitNormally \/ ForcedExit \/ StartFails
  BY <1>5, ExitInv DEF ExitOnError, ExitNormally, MainEnds, ForcedExit, TimeIsUp, StartFails
<1>6. CASE Signal
  BY <1>6, SignalInv
<1>7. CASE UNCHANGED vars
  <2>1. LoopTypes' /\ AgentTypes'
    BY <1>7 DEF IndInv, LoopTypes, AgentTypes, vars, statsVars, procVars, workVars, cloudVars
  <2>2. WorkInv'
    BY <1>7 DEF IndInv, WorkInv, HasMessage, Published, AckedOnlyAfterResponse,
       LeasedIsHandled, vars, workVars, cloudVars
  <2>3. ChanInv'
    BY <1>7 DEF IndInv, ChanInv, Senders, Sends, ClosedLast, InCallback, vars, statsVars,
       procVars, workVars
  <2> QED BY <2>1, <2>2, <2>3 DEF IndInv
<1> QED BY <1>1, <1>2, <1>3, <1>4, <1>5, <1>6, <1>7 DEF Next, MainStep
-----------------------------------------------------------------------------
(* What leases, deliveries, responses and the statistics channel have to   *)
(* do with one another, in every state.                                    *)
THEOREM AgentInvariance == Spec => []IndInv
  BY InitInv, NextInv, PTL DEF Spec

(* The variables keep their types, through exits and restarts.             *)
THEOREM TypeCorrect == Spec => []TypeOK
<1>1. LoopTypes => StatsTypeOK
  <2>1. statsChan \in Seq(Events) => \A k \in 1..Len(statsChan) : statsChan[k] \in Events
    OBVIOUS
  <2> QED BY <2>1 DEF LoopTypes, StatsTypeOK, Events
<1>2. StatsTypeOK /\ AgentTypes => TypeOK
  BY DEF AgentTypes, Places, TypeOK
<1>3. IndInv => TypeOK
  BY <1>1, <1>2 DEF IndInv
<1> QED BY <1>3, AgentInvariance, PTL

(* pubsub.go acknowledges a request only when its response is on the       *)
(* topic, whatever fails, is redelivered or restarted.                     *)
THEOREM AckedAnswered == Spec => []AckedOnlyAfterResponse
<1>1. IndInv => AckedOnlyAfterResponse
  BY DEF IndInv, WorkInv
<1> QED BY <1>1, AgentInvariance, PTL

(* No path through the callback of pubsub.go, or the goroutine it leaves   *)
(* behind, ends without an ack or a nack.                                  *)
THEOREM LeasesHandled == Spec => []LeasedIsHandled
<1>1. IndInv => LeasedIsHandled
  BY DEF IndInv, WorkInv
<1> QED BY <1>1, AgentInvariance, PTL

(* Stop (stats.go:173) closes the channel when no callback can send on it  *)
(* any more.                                                               *)
THEOREM ClosedAfterSenders == Spec => []NoSendOnClosedChannel
<1>1. IndInv => NoSendOnClosedChannel
  BY DEF IndInv, ChanInv, ClosedLast, NoSendOnClosedChannel, Callbacks
<1> QED BY <1>1, AgentInvariance, PTL
-----------------------------------------------------------------------------
(* The HTTP endpoints. *)

(* A call that is going on has no reply yet; the push endpoint makes one   *)
(* call, and publishes after it.                                           *)
RepliesFollow(r) ==
    /\ at[r] = "none" => replies[r] = 0
    /\ at[r] # "none" => replies[r] <= calls[r]
    /\ at[r] \in {"starting", "invoke", "endingOk"} => replies[r] < calls[r]
    /\ push /\ at[r] = "next" => replies[r] < calls[r]
    /\ push /\ at[r] \in {"next", "starting", "invoke", "endingOk"} => calls[r] = 1
    /\ at[r] = "publish" => push /\ replies[r] = calls[r]
    /\ at[r] = "ok" => replies[r] = calls[r] /\ (push => r \in published)

HttpPlaces == {"none", "next", "starting", "invoke", "endingOk", "endingErr", "publish"} \cup Ended

HttpInv ==
    /\ push \in BOOLEAN
    /\ at \in [Requests -> HttpPlaces]
    /\ calls \in [Requests -> Nat]
    /\ replies \in [Requests -> Nat]
    /\ \A r \in Requests : RepliesFollow(r)

LEMMA AcceptPreserves ==
    ASSUME HttpInv, NEW r \in Requests, Accept(r)
    PROVE  HttpInv'
BY ServerAssumption DEF Accept, reqVars, HttpInv, RepliesFollow, HttpPlaces, Ended

LEMMA HandlerPreserves ==
    ASSUME HttpInv, NEW r \in Requests, HandlerStep(r)
    PROVE  HttpInv'
<1> USE DEF HttpInv, RepliesFollow, HttpPlaces, Ended, Move, reqVars
<1>1. CASE StartCall(r)
  BY <1>1 DEF StartCall
<1>2. CASE CallStarts(r)
  BY <1>2 DEF CallStarts
<1>3. CASE CallReturns(r, "endingOk")
  BY <1>3 DEF CallReturns
<1>4. CASE CallReturns(r, "endingErr")
  BY <1>4 DEF CallReturns
<1>5. CASE CallFails(r)
  BY <1>5 DEF CallFails
<1>6. CASE CallSucceeds(r)
  BY <1>6 DEF CallSucceeds
<1>7. CASE PublishReturns(r)
  BY <1>7 DEF PublishReturns
<1>8. CASE AnswerRequest(r)
  BY <1>8 DEF AnswerRequest
<1>9. CASE HandlerPanics(r)
  BY <1>9 DEF HandlerPanics
<1> QED
  BY <1>1, <1>2, <1>3, <1>4, <1>5, <1>6, <1>7, <1>8, <1>9 DEF HandlerStep

(* The requests that the end of the process breaks are not answered. *)
LEMMA GonePreserves ==
    ASSUME HttpInv, ServerGone
    PROVE  HttpInv'
BY DEF ServerGone, InFlight, HttpInv, RepliesFollow, HttpPlaces, Ended

(* "Ack the message" (pubsub_push.go:120), "Send back the response"        *)
(* (bigquery_rdf.go:109): for every number of requests and of calls in     *)
(* them, status 200 is only sent when every call has its reply and, at the *)
(* push endpoint, the response is on the topic.                            *)
THEOREM OkMeansComplete == HttpSpec => []OkIsComplete
<1>1. HttpInit => HttpInv
  BY DEF HttpInit, RequestsInit, HttpInv, RepliesFollow, HttpPlaces
<1>2. HttpInv /\ [HttpNext]_httpVars => HttpInv'
  <2> SUFFICES ASSUME HttpInv, [HttpNext]_httpVars PROVE HttpInv'
    OBVIOUS
  <2>1. CASE \E r \in Requests : Accept(r) \/ HandlerStep(r)
    BY <2>1, AcceptPreserves, HandlerPreserves
  <2>2. CASE ServerStats(Loop) \/ Shutdown \/ ServerSignalled \/ UNCHANGED httpVars
    <3>1. ServerGone \/ UNCHANGED <<push, at, calls, replies, published>>
      BY <2>2 DEF ServerStats, Shutdown, ServerSignalled, httpVars, reqVars
    <3> QED
      BY <3>1, GonePreserves DEF HttpInv, RepliesFollow
  <2>3. CASE ListenFails \/ ServerExits \/ ServerKilled
    BY <2>3, GonePreserves DEF ListenFails, ServerExits, ServerKilled
  <2> QED
    BY <2>1, <2>2, <2>3 DEF HttpNext
<1>3. HttpInv => OkIsComplete
  BY DEF HttpInv, RepliesFollow, OkIsComplete
<1> QED
  BY <1>1, <1>2, <1>3, PTL DEF HttpSpec
=============================================================================
