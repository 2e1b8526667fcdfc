------------------------------ MODULE PullAgent ------------------------------
(***************************************************************************)
(* The agent as a Pub/Sub worker ("serve pubsub-pull"): one process that   *)
(* pulls request messages, calls the backend for each, publishes the       *)
(* response and then acknowledges the request (serve/pubsub.go), with the  *)
(* statistics goroutine that may end it (StatsLoop), signals and the       *)
(* forced exit (main.go), and its restarts by the job controller.          *)
(*                                                                         *)
(* The subscription, the response topic and the client library's Receive   *)
(* are external, modelled from what serve/pubsub.go asks of them: a        *)
(* message is delivered at least once, again after a nack or when its      *)
(* lease ends; Receive runs one callback per message, MaxOutstanding at    *)
(* most; after its context is cancelled it delivers nothing more and       *)
(* returns when every callback has returned and every leased message was   *)
(* acknowledged or refused, or its lease has ended.                        *)
(*                                                                         *)
(* The id under which the invoker reports a task is "" for every task: it  *)
(* looks up the key "srcId" in the context of the command, where nothing   *)
(* is stored under that key (protoio/backend.go:179).                      *)
(***************************************************************************)
EXTENDS AgentMain

CONSTANTS
    Main,            \* the main goroutine
    Msgs,            \* the request messages
    NoAttributes,    \* those that were published without attributes
    NoMsg,           \* a delivery slot that is not in use
    NoOne,           \* a message that is not leased
    SrcId,           \* the id of every task: ""
    HasIdleTimeout,  \* --idleTimeout was given
    MaxOutstanding,  \* --maxoutstandingmessages
    MaxFailures,     \* bound: errors that end the command: in its start or of Receive
    MaxRestarts      \* bound: restarts after exit code 1 (backoffLimit)

Deliveries == Callers \ {Main}   \* bound: deliveries in process at the same time

ASSUME AgentAssumption ==
    /\ Main \in Callers
    /\ TaskIds = {SrcId}
    /\ NoAttributes \subseteq Msgs
    /\ NoMsg \notin Msgs
    /\ NoOne \notin Callers
    /\ HasIdleTimeout \in BOOLEAN
    /\ MaxOutstanding \in Nat \ {0}

VARIABLES
    dl,         \* per delivery: "free" or where its handling is
    dmsg,       \* per delivery: the message, or NoMsg
    holder,     \* external, per message: the delivery that has the lease, or NoOne
    acked,      \* external: the acknowledged messages
    responses,  \* external, per message: responses published (0, 1, 2 = many)
    failures, restarts \* bound counters

workVars  == <<dl, dmsg>>
cloudVars == <<holder, acked, responses>>
bounds    == <<failures, restarts>>
vars      == <<statsVars, procVars, workVars, cloudVars, bounds>>

Init ==
    /\ StatsInit
    /\ ProcInit("begin")   \* then "setting", "receive", "failing", "stopping"
    /\ dl = [d \in Deliveries |-> "free"]
    /\ dmsg = [d \in Deliveries |-> NoMsg]
    /\ holder = [m \in Msgs |-> NoOne]
    /\ acked = {}
    /\ responses = [m \in Msgs |-> 0]
    /\ failures = 0
    /\ restarts = 0

(* A callback that has not returned, and so has a place in flow control. *)
InCallback(d) == dl[d] \in {"starting", "invoke", "endingOk", "endingErr"}
Callbacks == {d \in Deliveries : InCallback(d)}

(* A delivery whose message is still leased to it. *)
HasLease(d) == dmsg[d] # NoMsg /\ holder[dmsg[d]] = d
-----------------------------------------------------------------------------
(* The process is gone with its goroutines, and what it had leased goes    *)
(* back to the subscription.                                               *)
Gone ==
    /\ StatsGone
    /\ dl' = [d \in Deliveries |-> "free"]
    /\ dmsg' = [d \in Deliveries |-> NoMsg]
    /\ holder' = [m \in Msgs |-> NoOne]

(* The job controller starts a new process after exit code 1 only          *)
(* (podFailurePolicy and backoffLimit of the job template).                *)
Restart ==
    /\ main = "exited"
    /\ code = 1
    /\ restarts < MaxRestarts
    /\ restarts' = restarts + 1
    /\ main' = "begin"
    /\ code' = -1
    /\ UNCHANGED <<statsVars, watchdog, signals, workVars, cloudVars, failures>>

(* if idleTimeout > 0 { stats.SetStatsIdleTimeout(idleTimeout) } *)
SetIdleTimeout ==
    /\ main = "begin"
    /\ IF HasIdleTimeout
       THEN /\ SendOnly(Event(Main, "setTimeout", SrcId))
            /\ main' = "setting"
       ELSE /\ main' = "receive"
            /\ UNCHANGED statsVars
    /\ UNCHANGED <<code, watchdog, signals, workVars, cloudVars, bounds>>

(* The send returns and sub.Receive is called. *)
CallReceive ==
    /\ main = "setting"
    /\ ~InSend(Main)
    /\ main' = "receive"
    /\ UNCHANGED <<statsVars, code, watchdog, signals, workVars, cloudVars, bounds>>

(* The command does not get as far as Receive: the backend does not connect *)
(* in time, or a client cannot be made.  os.Exit(1).                        *)
StartFails ==
    /\ main = "begin"
    /\ failures < MaxFailures
    /\ failures' = failures + 1
    /\ Exit(1) /\ Gone
    /\ UNCHANGED <<signals, acked, responses, restarts>>

(* Receive leases a message and runs the callback with it. *)
Lease(d, m) ==
    /\ main = "receive"
    /\ ~Cancelled
    /\ dl[d] = "free"
    /\ m \notin acked /\ holder[m] = NoOne
    /\ Cardinality(Callbacks) < MaxOutstanding
    /\ holder' = [holder EXCEPT ![m] = d]
    /\ dmsg' = [dmsg EXCEPT ![d] = m]
    /\ UNCHANGED <<procVars, acked, responses, bounds>>

(* handleMessage calls the invoker, which decodes the request and reports   *)
(* the start of the task.                                                   *)
Deliver(d, m) ==
    /\ Lease(d, m)
    /\ dl' = [dl EXCEPT ![d] = "starting"]
    /\ SendOnly(Event(d, "start", SrcId))

(* The request cannot be decoded: an error before anything is reported.     *)
DeliverUndecodable(d, m) ==
    /\ Lease(d, m)
    /\ dl' = [dl EXCEPT ![d] = "endingErr"]
    /\ UNCHANGED statsVars

(* stats.StartTask returns and the backend is called. *)
StartTaskReturns(d) ==
    /\ dl[d] = "starting"
    /\ ~InSend(d)
    /\ dl' = [dl EXCEPT ![d] = "invoke"]
    /\ UNCHANGED <<statsVars, procVars, dmsg, cloudVars, bounds>>

(* client.Invoke returns, with or without an error, and stats.DoneTask is  *)
(* called in both cases.  A reply that cannot be encoded is an error too.  *)
InvokeReturns(d, r) ==
    /\ dl[d] = "invoke"
    /\ dl' = [dl EXCEPT ![d] = r]
    /\ SendOnly(Event(d, "done", SrcId))
    /\ UNCHANGED <<procVars, dmsg, cloudVars, bounds>>

(* The delivery is over. *)
Forget(d) ==
    /\ dl' = [dl EXCEPT ![d] = "free"]
    /\ dmsg' = [dmsg EXCEPT ![d] = NoMsg]

(* A nack by a delivery that has lost its lease has no effect. *)
GiveBack(d) ==
    holder' = IF HasLease(d) THEN [holder EXCEPT ![dmsg[d]] = NoOne] ELSE holder

(* The invoker returns an error: nack, and the callback returns. *)
InvokerFailed(d) ==
    /\ dl[d] = "endingErr"
    /\ ~InSend(d)
    /\ GiveBack(d)
    /\ Forget(d)
    /\ UNCHANGED <<statsVars, procVars, acked, responses, bounds>>

(* Mutant: the callback acknowledges when it has called Publish. *)
PublishAndAck(d) ==
    /\ dl[d] = "endingOk"
    /\ ~InSend(d)
    /\ dmsg[d] \notin NoAttributes
    /\ acked' = acked \cup {dmsg[d]}
    /\ GiveBack(d)
    /\ Forget(d)
    /\ UNCHANGED <<statsVars, procVars, responses, bounds>>

(* Mutant: the publish error is not looked at and the message is forgotten *)
(* with neither ack nor nack.                                              *)
PublishFailsForgotten(d, stored) ==
    /\ dl[d] = "await"
    /\ Forget(d)
    /\ UNCHANGED <<statsVars, procVars, cloudVars, bounds>>

(* attributes["Hostname"] = ..., top.Publish, and the callback returns; a  *)
(* goroutine waits for the result.                                         *)
Publish(d) ==
    /\ dl[d] = "endingOk"
    /\ ~InSend(d)
    /\ dmsg[d] \notin NoAttributes
    /\ dl' = [dl EXCEPT ![d] = "await"]
    /\ UNCHANGED <<statsVars, procVars, dmsg, cloudVars, bounds>>

(* The same assignment to the nil map of a message without attributes.     *)
PublishPanics(d) ==
    /\ dl[d] = "endingOk"
    /\ ~InSend(d)
    /\ dmsg[d] \in NoAttributes
    /\ Exit(2) /\ Gone
    /\ UNCHANGED <<signals, acked, responses, bounds>>

AddResponse(m) == responses' = [responses EXCEPT ![m] = IF @ < 2 THEN @ + 1 ELSE @]

(* The topic has the response: res.Get returns no error. *)
PublishSucceeds(d) ==
    /\ dl[d] = "await"
    /\ AddResponse(dmsg[d])
    /\ dl' = [dl EXCEPT ![d] = "published"]
    /\ UNCHANGED <<statsVars, procVars, dmsg, holder, acked, bounds>>

(* res.Get returns an error, whether or not the topic has the response:    *)
(* nack.                                                                   *)
PublishFails(d, stored) ==
    /\ dl[d] = "await"
    /\ IF stored THEN AddResponse(dmsg[d]) ELSE UNCHANGED responses
    /\ GiveBack(d)
    /\ Forget(d)
    /\ UNCHANGED <<statsVars, procVars, acked, bounds>>

(* All good - ack message!  (Without exactly-once delivery an ack counts   *)
(* even when the lease has ended.)                                         *)
Ack(d) ==
    /\ dl[d] = "published"
    /\ acked' = acked \cup {dmsg[d]}
    /\ GiveBack(d)
    /\ Forget(d)
    /\ UNCHANGED <<statsVars, procVars, responses, bounds>>

(* The lease cannot be extended any longer (--maxExtension). *)
LeaseEnds(d) ==
    /\ HasLease(d)
    /\ holder' = [holder EXCEPT ![dmsg[d]] = NoOne]
    /\ UNCHANGED <<statsVars, procVars, workVars, acked, responses, bounds>>

(* Receive has nothing left to wait for. *)
Drained == \A d \in Deliveries : ~InCallback(d) /\ ~HasLease(d)

(* Mutant: the command returns when its context is cancelled. *)
ReceiveReturnsAtOnce ==
    /\ main = "receive"
    /\ Cancelled
    /\ CloseChannel
    /\ main' = "stopping"
    /\ UNCHANGED <<code, watchdog, signals, workVars, cloudVars, bounds>>

(* Receive returns nil after the cancellation; main calls statsCfg.Stop(). *)
ReceiveReturns ==
    /\ main = "receive"
    /\ Cancelled
    /\ Drained
    /\ CloseChannel
    /\ main' = "stopping"
    /\ UNCHANGED <<code, watchdog, signals, workVars, cloudVars, bounds>>

(* The subscription fails for good; Receive delivers nothing more, waits   *)
(* for its callbacks, and returns the error: os.Exit(1).                   *)
ReceiveFails ==
    /\ main = "receive"
    /\ failures < MaxFailures
    /\ failures' = failures + 1
    /\ main' = "failing"
    /\ UNCHANGED <<statsVars, code, watchdog, signals, workVars, cloudVars, restarts>>

ExitOnError ==
    /\ main = "failing"
    /\ Drained
    /\ Exit(1) /\ Gone
    /\ UNCHANGED <<signals, acked, responses, bounds>>

ExitNormally ==
    /\ MainEnds /\ Gone
    /\ UNCHANGED <<acked, responses, bounds>>

(* Mutant: no forced exit is prepared. *)
SignalNoWatchdog ==
    /\ \/ SignalAgain /\ Gone
       \/ /\ SignalArrives
          /\ ~Cancelled
          /\ CancelBy("signal")
          /\ UNCHANGED <<loop, currentOps, timeout, idle, timer, statsChan, closed>>
          /\ UNCHANGED <<main, code, watchdog, workVars, holder>>
    /\ UNCHANGED <<acked, responses, bounds>>

Signal ==
    /\ \/ FirstSignal /\ UNCHANGED <<workVars, holder>>
       \/ SignalAgain /\ Gone
    /\ UNCHANGED <<acked, responses, bounds>>

ForcedExit ==
    /\ TimeIsUp /\ Gone
    /\ UNCHANGED <<acked, responses, bounds>>

(* A step of the statistics goroutine, or of its clocks, alone. *)
StatsStep(A) ==
    /\ Running
    /\ A
    /\ UNCHANGED <<procVars, workVars, cloudVars, bounds>>

CallbackStep(d) ==
    \/ StartTaskReturns(d)
    \/ InvokeReturns(d, "endingOk")
    \/ InvokeReturns(d, "endingErr")
    \/ InvokerFailed(d)
    \/ Publish(d)
    \/ PublishPanics(d)
    \/ PublishSucceeds(d)
    \/ PublishFails(d, TRUE)
    \/ PublishFails(d, FALSE)
    \/ Ack(d)

MainStep ==
    \/ SetIdleTimeout
    \/ CallReceive
    \/ ReceiveReturns
    \/ ExitOnError
    \/ ExitNormally
    \/ ForcedExit

Next ==
    \/ StatsStep(Loop)
    \/ StatsStep(ClocksAdvance)
    \/ \E d \in Deliveries, m \in Msgs : Deliver(d, m) \/ DeliverUndecodable(d, m)
    \/ \E d \in Deliveries : CallbackStep(d) \/ LeaseEnds(d)
    \/ MainStep
    \/ StartFails
    \/ ReceiveFails
    \/ Signal
    \/ Restart

Spec == Init /\ [][Next]_vars

(* Goroutines run, time passes, calls of the backend and of Pub/Sub return,*)
(* a ready case of select is taken in the end, and the job controller      *)
(* restarts what it may restart.                                           *)
Fairness ==
    /\ WF_vars(MainStep)
    /\ WF_vars(Restart)
    /\ \A d \in Deliveries : WF_vars(CallbackStep(d))
    /\ WF_vars(StatsStep(ClocksAdvance))
    /\ WF_vars(StatsStep(LoopEnds \/ SetTimer))
    /\ SF_vars(StatsStep(ReceiveEvent))
    /\ SF_vars(StatsStep(ReceiveClosed))
    /\ SF_vars(StatsStep(ContextDone))
    /\ SF_vars(StatsStep(IdleTimerFires))

FairSpec == Spec /\ Fairness

(* What the end of the process after a signal needs: main.go's own timer.  *)
MainFairSpec == Spec /\ WF_vars(MainStep)

(* The same for a process that nothing cancels, together with: the backend *)
(* and the topic do not refuse one message for ever, and the subscription  *)
(* delivers what it holds.                                                 *)
ServiceFairness ==
    /\ WF_vars(MainStep)
    /\ WF_vars(Restart)
    /\ \A d \in Deliveries : WF_vars(CallbackStep(d))
    /\ WF_vars(StatsStep(LoopEnds \/ SetTimer))
    /\ SF_vars(StatsStep(ReceiveEvent))
    /\ \A m \in Msgs :
         /\ SF_vars(\E d \in Deliveries : Deliver(d, m))
         /\ SF_vars(\E d \in Deliveries : dmsg[d] = m /\ InvokeReturns(d, "endingOk"))
         /\ SF_vars(\E d \in Deliveries : dmsg[d] = m /\ PublishSucceeds(d))

ServiceSpec == Spec /\ ServiceFairness
-----------------------------------------------------------------------------
(* Types of the variables. *)
TypeOK ==
    /\ StatsTypeOK
    /\ main \in {"begin", "setting", "receive", "failing", "stopping", "exited"}
    /\ code \in {-1, 0, 1, 2}
    /\ watchdog \in BOOLEAN
    /\ dl \in [Deliveries -> {"free", "starting", "invoke", "endingOk", "endingErr",
                              "await", "published"}]
    /\ dmsg \in [Deliveries -> Msgs \cup {NoMsg}]
    /\ holder \in [Msgs -> Deliveries \cup {NoOne}]
    /\ acked \subseteq Msgs
    /\ responses \in [Msgs -> 0..2]

(* A request is acknowledged only after its response is on the topic,      *)
(* whatever is redelivered, restarted or cut off in between: no request is *)
(* taken off the subscription without an answer.                           *)
AckedOnlyAfterResponse == \A m \in acked : responses[m] >= 1

(* A message leased to the process is being handled by it: every path of   *)
(* the callback, and of the goroutine it leaves behind, ends in an ack or  *)
(* a nack.                                                                 *)
LeasedIsHandled ==
    \A m \in Msgs : holder[m] # NoOne =>
        dl[holder[m]] # "free" /\ dmsg[holder[m]] = m

(* Nobody is sending, or still has to report the end of a task, when main  *)
(* closes the statistics channel: that send would panic.                   *)
NoSendOnClosedChannel == closed => statsChan = <<>> /\ Callbacks = {}

(* "shutdown after no activity for this time period" (pubsub.go:48): the   *)
(* idle timer does not cancel the process while it waits for the backend.  *)
IdleCancelOnlyWhenQuiet ==
    [][ctx = "live" /\ ctx' = "idle" => \A d \in Deliveries : dl[d] # "invoke"]_vars

(* "Waiting ... seconds before exiting forcibly" (main.go:68): after a     *)
(* signal the process ends, whatever its goroutines are blocked on.        *)
SignalEndsProcess == (ctx = "signal") ~> ~Running

(* "Timeout when there's no more work from Pub/Sub -- stop everything."    *)
(* (jobs.tf:151): once the idle timer has cancelled, the process ends.     *)
IdleShutdownCompletes == (ctx = "idle") ~> ~Running

(* Every request is answered and acknowledged, through failed calls, lost  *)
(* leases, a failing subscription and a restart.                           *)
EveryRequestAnswered == \A m \in Msgs : <>(m \in acked)
=============================================================================
