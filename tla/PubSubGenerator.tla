-------------------------- MODULE PubSubGenerator --------------------------
(***************************************************************************)
(* The agent as a load generator ("test pubsub"): it publishes the values  *)
(* of a source through the worker pool and counts the responses that come  *)
(* back on a subscription (test/pubsub.go, test/source.go).  The table of  *)
(* the statistics goroutine (StatsLoop) is its list of unanswered          *)
(* messages, and an idle timeout of zero, set when the source has ended,   *)
(* is what ends the process when the list is empty.                        *)
(*                                                                         *)
(* The pool is WorkPool, which ApplyParallel implements.  The topic, those *)
(* who answer and the subscription are external: a message may be stored   *)
(* although its publish is reported failed, an answer may never come and   *)
(* may be delivered any number of times, in any order.                     *)
(***************************************************************************)
EXTENDS AgentMain

CONSTANTS
    Main,            \* the main goroutine
    Receivers,       \* bound: callbacks of the subscription at one time
    MaxItems,        \* bound: messages the source gives
    PoolSize,        \* --max_batch
    MaxOutstanding,  \* --maxMessagesOutstanding
    NoMsg            \* a receiver that is not in use

VARIABLES
    taken, state, answer,   \* the pool's: see WorkPool
    pub,        \* per message: where publishOp or the goroutine it leaves behind is
    rcv,        \* per receiver: the message whose end it is reporting, or NoMsg
    subscribed, \* sub.Receive is running
    heard       \* history: messages answered, or reported as failed, to the process

Pool == INSTANCE WorkPool
Msgs == 1..MaxItems

ASSUME GeneratorAssumption ==
    /\ {Main} \cup Receivers \cup Msgs \subseteq Callers
    /\ {Main} \cup Msgs \subseteq TaskIds
    /\ MaxOutstanding \in Nat \ {0}
    /\ MaxItems \in Nat

poolVars == <<taken, state, answer>>
msgVars  == <<pub, rcv, subscribed, heard>>
generatorVars == <<statsVars, poolVars, procVars, msgVars>>

MsgsInit ==
    /\ Pool!Init
    /\ pub = [m \in Msgs |-> "new"]
    /\ rcv = [r \in Receivers |-> NoMsg]
    /\ subscribed \in BOOLEAN
    /\ heard = {}

(* main is at the "source", then "setting", "waiting", "stopping". *)
GeneratorInit == StatsInit /\ ProcInit("source") /\ MsgsInit
-----------------------------------------------------------------------------
(* The source is read, and a value is handed to a worker of the pool. *)
PoolStep ==
    /\ main = "source"
    /\ Pool!Take \/ Pool!Start
    /\ UNCHANGED <<statsVars, procVars, msgVars>>

(* publishOp: the context is live; StartTask. *)
PublishOp(m) ==
    /\ main = "source"
    /\ state[m] = "busy"
    /\ pub[m] = "new"
    /\ ~Cancelled
    /\ pub' = [pub EXCEPT ![m] = "starting"]
    /\ SendOnly(Event(m, "start", m))
    /\ UNCHANGED <<poolVars, procVars, rcv, subscribed, heard>>

(* publishOp: return ctxt.Err() *)
PublishOpCancelled(m) ==
    /\ main = "source"
    /\ state[m] = "busy"
    /\ pub[m] = "new"
    /\ Cancelled
    /\ Pool!Finish(m) /\ state'[m] = "failed"
    /\ UNCHANGED <<statsVars, procVars, msgVars>>

(* pubTopic.Publish blocks while too many messages are outstanding; then a *)
(* goroutine waits for the result and publishOp returns nil.               *)
Publish(m) ==
    /\ main = "source"
    /\ pub[m] = "starting"
    /\ ~InSend(m)
    /\ Cancelled \/ Cardinality({k \in Msgs : pub[k] = "pending"}) < MaxOutstanding
    /\ pub' = [pub EXCEPT ![m] = "pending"]
    /\ Pool!Finish(m) /\ state'[m] = "ok"
    /\ UNCHANGED <<statsVars, procVars, rcv, subscribed, heard>>

(* res.Get: the message is on the topic. *)
PublishSucceeds(m) ==
    /\ Running
    /\ pub[m] = "pending"
    /\ pub' = [pub EXCEPT ![m] = "sent"]
    /\ UNCHANGED <<statsVars, poolVars, procVars, rcv, subscribed, heard>>

(* Mutant: a failed publish is logged, its task is not cancelled. *)
PublishFailsLogged(m) ==
    /\ Running
    /\ pub[m] = "pending"
    /\ pub' = [pub EXCEPT ![m] = "failed"]
    /\ heard' = heard \cup {m}
    /\ UNCHANGED <<statsVars, poolVars, procVars, rcv, subscribed>>

(* res.Get: an error, of the publish or of the context; CancelTask. *)
PublishFails(m) ==
    /\ Running
    /\ pub[m] = "pending"
    /\ pub' = [pub EXCEPT ![m] = "failed"]
    /\ heard' = heard \cup {m}
    /\ SendOnly(Event(m, "cancel", m))
    /\ UNCHANGED <<poolVars, procVars, rcv, subscribed>>

(* External: the message may be on the topic, and was perhaps answered. *)
MayBeAnswered(m) == pub[m] \in {"pending", "sent", "failed"}

(* The receiver's callback acknowledges the answer and calls DoneTask; one *)
(* that has been handed its message does so after a cancellation too.      *)
ReceiveAnswer(r, m) ==
    /\ Running
    /\ subscribed
    /\ rcv[r] = NoMsg
    /\ MayBeAnswered(m)
    /\ rcv' = [rcv EXCEPT ![r] = m]
    /\ heard' = heard \cup {m}
    /\ SendOnly(Event(r, "done", m))
    /\ UNCHANGED <<poolVars, procVars, pub, subscribed>>

DoneTaskReturns(r) ==
    /\ Running
    /\ rcv[r] # NoMsg
    /\ ~InSend(r)
    /\ rcv' = [rcv EXCEPT ![r] = NoMsg]
    /\ UNCHANGED <<statsVars, poolVars, procVars, pub, subscribed, heard>>

(* sub.Receive returns: with an error, which is only logged, or without    *)
(* one after the context.                                                  *)
SubscriptionFails ==
    /\ Running
    /\ subscribed
    /\ subscribed' = FALSE
    /\ UNCHANGED <<statsVars, poolVars, procVars, pub, rcv, heard>>

(* Mutant: the idle timeout is set while messages are still being published. *)
SourceEndsEarly ==
    /\ main = "source"
    /\ answer = Pool!Pending
    /\ main' = "setting"
    /\ SendOnly(Event(Main, "setTimeout", Main))
    /\ UNCHANGED <<poolVars, code, watchdog, signals, msgVars>>

(* StartSourceBytes returns nil: SetStatsIdleTimeout(0). *)
SourceEnds ==
    /\ main = "source"
    /\ Pool!Return(Pool!NoErr)
    /\ main' = "setting"
    /\ SendOnly(Event(Main, "setTimeout", Main))
    /\ UNCHANGED <<code, watchdog, signals, msgVars>>

(* The process is gone, with what its goroutines were sending. *)
GeneratorGone ==
    /\ StatsGone
    /\ rcv' = [r \in Receivers |-> NoMsg]
    /\ subscribed' = FALSE
    /\ UNCHANGED <<pub, heard>>

(* StartSourceBytes returns an error: os.Exit(1). *)
SourceFails ==
    /\ main = "source"
    /\ \E a \in Msgs \cup {Pool!SeqErr} : Pool!Return(a)
    /\ Exit(1) /\ GeneratorGone
    /\ UNCHANGED signals

(* The send returns; <-c.Context().Done() *)
WaitForCancellation ==
    /\ main = "setting"
    /\ ~InSend(Main)
    /\ main' = "waiting"
    /\ UNCHANGED <<statsVars, poolVars, code, watchdog, signals, msgVars>>

(* "All sent messages received"; main calls statsCfg.Stop(). *)
CommandReturns ==
    /\ main = "waiting"
    /\ Cancelled
    /\ CloseChannel
    /\ main' = "stopping"
    /\ UNCHANGED <<poolVars, code, watchdog, signals, msgVars>>

GeneratorExits == MainEnds /\ GeneratorGone /\ UNCHANGED poolVars

(* A send on the closed channel, or blocked when it is closed. *)
SendPanics ==
    /\ Running
    /\ closed
    /\ statsChan # <<>>
    /\ Exit(2) /\ GeneratorGone
    /\ UNCHANGED <<poolVars, signals>>

GeneratorSignalled ==
    /\ (FirstSignal /\ UNCHANGED msgVars) \/ (SignalAgain /\ GeneratorGone)
    /\ UNCHANGED poolVars

GeneratorKilled == TimeIsUp /\ GeneratorGone /\ UNCHANGED poolVars

GeneratorStats(A) ==
    /\ Running
    /\ A
    /\ UNCHANGED <<poolVars, procVars, msgVars>>

PublisherStep(m) ==
    \/ PublishOp(m)
    \/ PublishOpCancelled(m)
    \/ Publish(m)
    \/ PublishSucceeds(m)
    \/ PublishFails(m)

MainStep ==
    \/ PoolStep
    \/ SourceEnds
    \/ SourceFails
    \/ WaitForCancellation
    \/ CommandReturns
    \/ GeneratorExits
    \/ SendPanics
    \/ GeneratorKilled

GeneratorNext ==
    \/ GeneratorStats(Loop)
    \/ \E m \in Msgs : PublisherStep(m)
    \/ \E r \in Receivers : DoneTaskReturns(r) \/ \E m \in Msgs : ReceiveAnswer(r, m)
    \/ SubscriptionFails
    \/ MainStep
    \/ GeneratorSignalled

GeneratorSpec == GeneratorInit /\ [][GeneratorNext]_generatorVars
-----------------------------------------------------------------------------
(* "Cancel as soon as we are idle (no more outstanding requests"           *)
(* (pubsub.go:96): the idle timeout of zero never ends the process with a  *)
(* message of the source that was neither answered nor refused, however    *)
(* starts, ends and cancellations overtake each other.                     *)
IdleOnlyWhenAllHeard ==
    ctx = "idle" => answer = Pool!NoErr /\ \A m \in 1..taken : m \in heard

(* Once everything that was sent is answered or refused, the process ends. *)
EndsWhenAllHeard ==
    (main = "waiting" /\ \A m \in 1..taken : m \in heard) ~> ~Running
=============================================================================
