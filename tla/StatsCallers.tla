---------------------------- MODULE StatsCallers ----------------------------
(***************************************************************************)
(* The statistics goroutine with callers that report every task under an   *)
(* id of its own, as the Pub/Sub generator does (test/pubsub.go), and the  *)
(* main goroutine, which sets the idle timeout and, when the command has   *)
(* ended and no caller is left, stops the statistics (main.go:118).        *)
(***************************************************************************)
EXTENDS StatsLoop

CONSTANT Main   \* the main goroutine

Tasks == Callers \ {Main}

ASSUME CallersAssumption ==
    /\ Main \in Callers
    /\ TaskIds = Callers

VARIABLES
    at,     \* per task: "out", "starting", "busy" or "ending"
    main,   \* "begin", "setting", "command", "stopping" or "stopped"
    quiet   \* history: ticks since a task was last active, up to IdleTimeout

vars == <<statsVars, at, main, quiet>>

(* A task is active from when its start is received until it reports its end. *)
Active(t) == at[t] = "busy" \/ (at[t] = "starting" /\ ~InSend(t))

Init ==
    /\ StatsInit
    /\ at = [t \in Tasks |-> "out"]
    /\ main = "begin"
    /\ quiet = 0

(* SetStatsIdleTimeout(idleTimeout), and the command runs when it returns. *)
SetIdleTimeout ==
    /\ main = "begin"
    /\ main' = "setting"
    /\ Send(Event(Main, "setTimeout", Main))
    /\ UNCHANGED <<loop, currentOps, timeout, idle, timer, ctx, closed, at, quiet>>

CommandRuns ==
    /\ main = "setting"
    /\ ~InSend(Main)
    /\ main' = "command"
    /\ UNCHANGED <<statsVars, at, quiet>>

(* StartTask(id) *)
StartTask(t) ==
    /\ main = "command"
    /\ at[t] = "out"
    /\ at' = [at EXCEPT ![t] = "starting"]
    /\ Send(Event(t, "start", t))
    /\ UNCHANGED <<loop, currentOps, timeout, idle, timer, ctx, closed, main, quiet>>

StartTaskReturns(t) ==
    /\ at[t] = "starting"
    /\ ~InSend(t)
    /\ at' = [at EXCEPT ![t] = "busy"]
    /\ UNCHANGED <<statsVars, main, quiet>>

(* DoneTask(id, bytes) or CancelTask(id) *)
EndTask(t, op) ==
    /\ at[t] = "busy"
    /\ at' = [at EXCEPT ![t] = "ending"]
    /\ Send(Event(t, op, t))
    /\ quiet' = 0
    /\ UNCHANGED <<loop, currentOps, timeout, idle, timer, ctx, closed, main>>

EndTaskReturns(t) ==
    /\ at[t] = "ending"
    /\ ~InSend(t)
    /\ at' = [at EXCEPT ![t] = "out"]
    /\ UNCHANGED <<statsVars, main, quiet>>

(* The command has returned, every task is over: statsCfg.Stop(). *)
Stop ==
    /\ main = "command"
    /\ \A t \in Tasks : at[t] = "out"
    /\ CloseChannel
    /\ main' = "stopping"
    /\ UNCHANGED <<at, quiet>>

(* statsShutdown.Wait() *)
StatsStopped ==
    /\ main = "stopping"
    /\ loop = "exited"
    /\ main' = "stopped"
    /\ UNCHANGED <<statsVars, at, quiet>>

(* SIGINT or SIGTERM cancels the context (main.go:64). *)
Signal ==
    /\ CancelBy("signal")
    /\ UNCHANGED <<loop, currentOps, timeout, idle, timer, statsChan, closed, at, main, quiet>>

Tick ==
    /\ ClocksAdvance
    /\ quiet' = IF \E t \in Tasks : Active(t) THEN 0
                ELSE IF quiet < IdleTimeout THEN quiet + 1 ELSE quiet
    /\ UNCHANGED <<at, main>>

CallerStep(t) ==
    \/ StartTaskReturns(t)
    \/ EndTask(t, "done")
    \/ EndTask(t, "cancel")
    \/ EndTaskReturns(t)

MainStep == SetIdleTimeout \/ CommandRuns \/ StatsStopped

(* A step of the statistics goroutine alone. *)
LoopStep(A) == A /\ UNCHANGED <<at, main, quiet>>

Next ==
    \/ LoopStep(Loop)
    \/ \E t \in Tasks : StartTask(t) \/ CallerStep(t)
    \/ MainStep
    \/ Stop
    \/ Signal
    \/ Tick

Spec == Init /\ [][Next]_vars

(* Time passes, goroutines run, and work ends; new tasks, signals and the  *)
(* end of the command may or may not come.  A ready case of the loop's     *)
(* select is taken in the end: select chooses at random among ready cases, *)
(* and the log tick is ready only once every cfg.Freq.                     *)
Fairness ==
    /\ WF_vars(Tick)
    /\ WF_vars(MainStep)
    /\ \A t \in Tasks : WF_vars(CallerStep(t))
    /\ WF_vars(LoopStep(LoopEnds \/ SetTimer))
    /\ SF_vars(LoopStep(ReceiveEvent))
    /\ SF_vars(LoopStep(ReceiveClosed))
    /\ SF_vars(LoopStep(ContextDone))
    /\ SF_vars(LoopStep(IdleTimerFires))

FairSpec == Spec /\ Fairness
-----------------------------------------------------------------------------
(* "Tracking for operations (all operations outstanding)"                  *)
(* (stats_accum.go:82): the table holds exactly the tasks whose start has  *)
(* been received and whose end has not, at every point of every hand-over. *)
TableIsOutstandingTasks ==
    currentOps = {t \in Tasks : Active(t) \/ (at[t] = "ending" /\ InSend(t))}

(* "shutdown after no activity for this time period" (pubsub.go:48): the   *)
(* idle timer never cancels while a task is active, nor earlier than the   *)
(* idle timeout after the last one was.                                    *)
IdleCancelOnlyWhenQuiet ==
    [][ctx = "live" /\ ctx' = "idle" =>
          quiet >= IdleTimeout /\ \A t \in Tasks : ~Active(t)]_vars

(* The timer that is armed never fires before the idle period is over: it  *)
(* is set again in every round, from the start of the period.              *)
TimerFollowsIdlePeriod ==
    loop = "select" /\ ctx = "live" =>
        IF idle = Zero \/ timeout = NoTimeout THEN timer = Stopped
        ELSE timer = timeout - idle

(* While the context is live every report is received. *)
ReportsAreReceived ==
    \A p \in Callers : InSend(p) ~> (~InSend(p) \/ Cancelled)

(* A process that stays without tasks is cancelled, and Stop returns.      *)
IdleProcessIsCancelled ==
    (main = "command" /\ ~Cancelled) ~>
        (Cancelled \/ main = "stopping" \/ \E t \in Tasks : at[t] # "out")

StopReturns == (main = "stopping") ~> (main = "stopped")
=============================================================================
