----------------------------- MODULE HttpServer -----------------------------
(***************************************************************************)
(* The agent behind an HTTP endpoint: the BigQuery remote function server  *)
(* (serve/bigquery_rdf.go), which runs the calls of a request one after    *)
(* the other, and the Pub/Sub push endpoint (serve/pubsub_push.go), which  *)
(* runs one and publishes its response.  Handlers report their tasks to    *)
(* the statistics goroutine (StatsLoop), all under the id "" (see          *)
(* PullAgent).  net/http is external: a goroutine per request, whose       *)
(* panic costs the connection and not the process; Shutdown stops the      *)
(* listener, and ListenAndServe returns at once.                           *)
(***************************************************************************)
EXTENDS AgentMain

CONSTANTS
    Requests,      \* bound: requests, each with its handler
    MaxCalls,      \* bound: calls in a request to the remote function
    NoId           \* the id of every task: ""

ASSUME ServerAssumption ==
    /\ Requests \subseteq Callers
    /\ MaxCalls \in Nat \ {0}
    /\ NoId \in TaskIds

VARIABLES
    push,      \* the command: the push endpoint, or the remote function server
    at,        \* per request: where its handler is, or how it ended
    calls,     \* per request: its calls
    replies,   \* per request: replies collected
    published  \* external: the requests whose response is on the topic

reqVars  == <<push, at, calls, replies, published>>
httpVars == <<statsVars, procVars, reqVars>>

Ended == {"ok", "error", "dropped"}   \* 200; an error status or message; no answer

RequestsInit ==
    /\ push \in BOOLEAN
    /\ at = [r \in Requests |-> "none"]
    /\ calls = [r \in Requests |-> 0]
    /\ replies = [r \in Requests |-> 0]
    /\ published = {}

(* main is "serving", then "stopping". *)
HttpInit == StatsInit /\ ProcInit("serving") /\ RequestsInit

InFlight(r) == at[r] \notin {"none"} \cup Ended

Move(r, place) == at' = [at EXCEPT ![r] = place]
-----------------------------------------------------------------------------
(* A request is read.  It may be refused as unreadable. *)
Accept(r) ==
    /\ main = "serving"
    /\ at[r] = "none"
    /\ \E n \in 0..MaxCalls :
         /\ push => n = 1
         /\ calls' = [calls EXCEPT ![r] = n]
    /\ at' \in {[at EXCEPT ![r] = "next"], [at EXCEPT ![r] = "error"]}
    /\ UNCHANGED <<statsVars, procVars, push, replies, published>>

(* Mutant: the loop over the calls ends one too early. *)
AnswerEarly(r) ==
    /\ Running
    /\ at[r] = "next"
    /\ replies[r] + 1 >= calls[r]
    /\ Move(r, "ok")
    /\ UNCHANGED <<statsVars, procVars, push, calls, replies, published>>

(* The next call is decoded and its task reported; one that cannot be      *)
(* decoded ends the request, and an empty one (callData[0]) panics.        *)
StartCall(r) ==
    /\ Running
    /\ at[r] = "next"
    /\ replies[r] < calls[r]
    /\ \/ Move(r, "starting") /\ SendOnly(Event(r, "start", NoId))
       \/ Move(r, "error") /\ UNCHANGED statsVars
       \/ ~push /\ Move(r, "dropped") /\ UNCHANGED statsVars
    /\ UNCHANGED <<procVars, push, calls, replies, published>>

CallStarts(r) ==
    /\ Running
    /\ at[r] = "starting"
    /\ ~InSend(r)
    /\ Move(r, "invoke")
    /\ UNCHANGED <<statsVars, procVars, push, calls, replies, published>>

(* client.Invoke returns and DoneTask is called.  An answer that cannot be *)
(* encoded is an error too.                                                *)
CallReturns(r, result) ==
    /\ Running
    /\ at[r] = "invoke"
    /\ Move(r, result)
    /\ SendOnly(Event(r, "done", NoId))
    /\ UNCHANGED <<procVars, push, calls, replies, published>>

(* Mutant: the call is tried again, without limit. *)
CallFailsRetries(r) ==
    /\ Running
    /\ at[r] = "endingErr"
    /\ ~InSend(r)
    /\ Move(r, "next")
    /\ UNCHANGED <<statsVars, procVars, push, calls, replies, published>>

(* The invoker returns an error: an error message, or status 400. *)
CallFails(r) ==
    /\ Running
    /\ at[r] = "endingErr"
    /\ ~InSend(r)
    /\ Move(r, "error")
    /\ UNCHANGED <<statsVars, procVars, push, calls, replies, published>>

(* result.Replies[i], and the next call; or the publish of the response. *)
CallSucceeds(r) ==
    /\ Running
    /\ at[r] = "endingOk"
    /\ ~InSend(r)
    /\ replies' = [replies EXCEPT ![r] = @ + 1]
    /\ Move(r, IF push THEN "publish" ELSE "next")
    /\ UNCHANGED <<statsVars, procVars, push, calls, published>>

(* Mutant: status 200 before the publish has ended. *)
PublishUnawaited(r) ==
    /\ Running
    /\ at[r] = "publish"
    /\ Move(r, "ok")
    /\ UNCHANGED <<statsVars, procVars, push, calls, replies, published>>

(* <-res.Ready() and res.Get: the response is published, or may be; or the *)
(* message had no attributes, and the assignment to its nil map panicked.  *)
PublishReturns(r) ==
    /\ Running
    /\ at[r] = "publish"
    /\ \/ published' = published \cup {r} /\ Move(r, "ok")
       \/ published' \in {published, published \cup {r}} /\ Move(r, "error")
       \/ Move(r, "dropped") /\ UNCHANGED published
    /\ UNCHANGED <<statsVars, procVars, push, calls, replies>>

(* All replies are there. *)
AnswerRequest(r) ==
    /\ Running
    /\ at[r] = "next"
    /\ replies[r] >= calls[r]
    /\ Move(r, "ok")
    /\ UNCHANGED <<statsVars, procVars, push, calls, replies, published>>

(* The handler's send on the closed channel panics, and net/http recovers. *)
HandlerPanics(r) ==
    /\ Running
    /\ closed
    /\ InSend(r)
    /\ Move(r, "dropped")
    /\ statsChan' = SelectSeq(statsChan, LAMBDA e : e.from # r)
    /\ UNCHANGED <<loop, currentOps, timeout, idle, timer, ctx, closed>>
    /\ UNCHANGED <<procVars, push, calls, replies, published>>

(* Mutant: the context is never looked at. *)
ShutdownIgnored == FALSE /\ UNCHANGED httpVars

(* The context is done: srv.Shutdown is called, ListenAndServe returns     *)
(* ErrServerClosed, the command returns, and main calls statsCfg.Stop().   *)
Shutdown ==
    /\ ~push
    /\ main = "serving"
    /\ Cancelled
    /\ main' = "stopping"
    /\ CloseChannel
    /\ UNCHANGED <<code, watchdog, signals, reqVars>>

(* The process is gone, and the connections of its requests are broken. *)
ServerGone ==
    /\ StatsGone
    /\ at' = [r \in Requests |-> IF InFlight(r) THEN "dropped" ELSE at[r]]
    /\ UNCHANGED <<push, calls, replies, published>>

(* ListenAndServe returns another error: os.Exit(1). *)
ListenFails ==
    /\ main = "serving"
    /\ Exit(1) /\ ServerGone
    /\ UNCHANGED signals

ServerExits == MainEnds /\ ServerGone

ServerSignalled ==
    \/ FirstSignal /\ UNCHANGED reqVars
    \/ SignalAgain /\ ServerGone

ServerKilled == TimeIsUp /\ ServerGone

ServerStats(A) ==
    /\ Running
    /\ A
    /\ UNCHANGED <<procVars, reqVars>>

HandlerStep(r) ==
    \/ StartCall(r)
    \/ CallStarts(r)
    \/ CallReturns(r, "endingOk")
    \/ CallReturns(r, "endingErr")
    \/ CallFails(r)
    \/ CallSucceeds(r)
    \/ PublishReturns(r)
    \/ AnswerRequest(r)
    \/ HandlerPanics(r)

HttpNext ==
    \/ ServerStats(Loop)
    \/ \E r \in Requests : Accept(r) \/ HandlerStep(r)
    \/ Shutdown
    \/ ListenFails
    \/ ServerExits
    \/ ServerSignalled
    \/ ServerKilled

HttpSpec == HttpInit /\ [][HttpNext]_httpVars
-----------------------------------------------------------------------------
(* "Ack the message" (pubsub_push.go:120), "Send back the response"        *)
(* (bigquery_rdf.go:109): status 200 without an error message is only sent *)
(* when every call has its reply and, at the push endpoint, the response   *)
(* is on the topic.                                                        *)
OkIsComplete ==
    \A r \in Requests : at[r] = "ok" => replies[r] = calls[r] /\ (push => r \in published)

(* While the context is live every request that was read is answered.  (In *)
(* a cancelled process it may block in its report until the process ends:  *)
(* see SignalStopsServer.)                                                 *)
RequestsEnd == \A r \in Requests : InFlight(r) ~> (~InFlight(r) \/ Cancelled \/ ~Running)

(* "Shutting down HTTP Server" (bigquery_rdf.go:136): after a signal the   *)
(* remote function server ends by itself, whatever its handlers are        *)
(* blocked on; the push endpoint does not look at the context, and is      *)
(* ended by the forced exit.                                               *)
SignalStopsServer == (ctx = "signal") ~> ~Running
=============================================================================
