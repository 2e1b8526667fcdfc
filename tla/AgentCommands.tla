--------------------------- MODULE AgentCommands ---------------------------
(***************************************************************************)
(* The agent's process with one of the commands that make calls for files, *)
(* for HTTP requests or of their own (main.go): "serve file" is            *)
(* FileWorker, "serve bigquery-rdf" and "serve pubsub-push" are            *)
(* HttpServer, "test pubsub" is PubSubGenerator.  Each of them has the     *)
(* statistics goroutine beside it, and main.go's signals and forced exit.  *)
(***************************************************************************)
EXTENDS FileWorker, HttpServer, PubSubGenerator

VARIABLE command  \* "file", "http" or "generator"

agentVars == <<statsVars, procVars, fileVars, streamVars, reqVars, poolVars, msgVars, command>>

(* What belongs to the other commands is given one of its initial states. *)
AgentInit ==
    /\ StatsInit
    /\ \/ command = "file" /\ ProcInit("connect")
       \/ command = "http" /\ ProcInit("serving")
       \/ command = "generator" /\ ProcInit("source")
    /\ FileInit
    /\ command # "file" => lines = 0 /\ ~gz /\ ~remote /\ ~waits
    /\ RequestsInit
    /\ command # "http" => push
    /\ MsgsInit
    /\ command # "generator" => ~subscribed

File(A) ==
    /\ command = "file"
    /\ A
    /\ UNCHANGED <<reqVars, poolVars, msgVars, command>>

Http(A) ==
    /\ command = "http"
    /\ A
    /\ UNCHANGED <<fileVars, streamVars, poolVars, msgVars, command>>

Generate(A) ==
    /\ command = "generator"
    /\ A
    /\ UNCHANGED <<fileVars, streamVars, reqVars, command>>

AgentNext == File(Next) \/ Http(HttpNext) \/ Generate(GeneratorNext)

AgentSpec == AgentInit /\ [][AgentNext]_agentVars

(* A step of the statistics goroutine alone. *)
AgentStats(A) ==
    /\ Running
    /\ A
    /\ UNCHANGED <<procVars, fileVars, streamVars, reqVars, poolVars, msgVars, command>>

(* A ready case of select is taken in the end; those for the closed        *)
(* channel and for the context both end the loop.                          *)
StatsFairness ==
    /\ WF_agentVars(AgentStats(LoopEnds \/ SetTimer))
    /\ SF_agentVars(AgentStats(ReceiveEvent))
    /\ SF_agentVars(AgentStats(ReceiveClosed \/ ContextDone))

(* The main goroutine runs, files and the worker answer, and the forced    *)
(* exit comes.  That is left to the push endpoint, which has no other; the *)
(* remote function server must not need it.                                *)
MainFairness ==
    /\ WF_agentVars(\/ File(WorkerStep)
                    \/ Http(Shutdown \/ ServerExits)
                    \/ Generate(MainStep))
    /\ WF_agentVars(File(ForcedExit) \/ Http(push /\ ServerKilled))

(* An attempt to connect ends, but need never succeed; the states it goes  *)
(* through stay long enough for connect and for a call that waits to see   *)
(* them in the end.  Each of the two ends its wait for good.               *)
ConnectFairness ==
    /\ WF_agentVars(File(DeadlinePasses))
    /\ WF_agentVars(File(conn \in {"connecting", "idle"} /\ ClientChanges))
    /\ SF_agentVars(File(ConnectTimesOut \/ Reflect))

(* Handlers, publishes and callbacks run, and the backend and the topic    *)
(* answer the agent.  Nobody need answer the generator's messages.         *)
CallsFairness ==
    /\ \A r \in Requests : WF_agentVars(Http(HandlerStep(r)))
    /\ \A m \in Msgs : WF_agentVars(Generate(PublisherStep(m)))
    /\ \A r \in Receivers : WF_agentVars(Generate(DoneTaskReturns(r)))

AgentFairSpec ==
    AgentSpec /\ StatsFairness /\ MainFairness /\ ConnectFairness /\ CallsFairness
=============================================================================
