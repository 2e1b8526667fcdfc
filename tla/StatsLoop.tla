------------------------------ MODULE StatsLoop ------------------------------
(***************************************************************************)
(* The statistics goroutine of the agent (stats/stats.go showStats, with   *)
(* the task table of stats/stats_accum.go): it receives the start, cancel  *)
(* and end of every task on an unbuffered channel, keeps the table of the  *)
(* outstanding tasks, and cancels the agent's context when the table has   *)
(* been empty for the idle timeout.  It stops receiving when the context   *)
(* is cancelled by anybody, or the channel closed.                         *)
(*                                                                         *)
(* This module has the goroutine and its channel; StatsCallers and the     *)
(* modules of the commands compose it with the code that reports tasks.    *)
(* The accounting that LogStats prints and resets is AccumStats: it never  *)
(* decides a step of this loop.                                            *)
(*                                                                         *)
(* Time: Tick is one unit.  Idle times past the timeout are all alike, so  *)
(* clocks stop at IdleTimeout.  Nothing hurries the goroutine: any number  *)
(* of ticks may pass while it is between two selects.                      *)
(***************************************************************************)
EXTENDS Integers, Sequences, FiniteSets

CONSTANTS
    Callers,     \* the goroutines that report tasks
    TaskIds,     \* the ids they report
    IdleTimeout  \* the idle timeout, in ticks

ASSUME IdleTimeoutAssumption == IdleTimeout \in Nat

NoTimeout == -1
Zero      == -1     \* idleTime.IsZero()
Stopped   == -1     \* a timer that is not running

VARIABLES
    loop,       \* "top" (before the for condition), "select" or "exited"
    currentOps, \* accum.currentOps: the ids of the outstanding tasks
    timeout,    \* the local variable timeout
    idle,       \* time.Since(idleTime), or Zero
    timer,      \* ticks until timeoutTimer fires (0: its channel is ready), or Stopped
    ctx,        \* the agent's context: "live", or cancelled by "idle" or by "signal"
    statsChan,  \* the callers blocked sending to statsChannel, with what they send
    closed      \* statsChannel is closed

statsVars == <<loop, currentOps, timeout, idle, timer, ctx, statsChan, closed>>

StatsInit ==
    /\ loop = "top"
    /\ currentOps = {}
    /\ timeout = NoTimeout
    /\ idle = Zero
    /\ timer = Stopped
    /\ ctx = "live"
    /\ statsChan = <<>>
    /\ closed = FALSE

(* The process is gone; another one will start from here. *)
StatsGone ==
    /\ loop' = "top"
    /\ currentOps' = {}
    /\ timeout' = NoTimeout
    /\ idle' = Zero
    /\ timer' = Stopped
    /\ ctx' = "live"
    /\ statsChan' = <<>>
    /\ closed' = FALSE

Cancelled == ctx # "live"

-----------------------------------------------------------------------------
(* The callers' side: cfg.statsChannel <- stats{...}.  A caller is blocked *)
(* in the send for as long as its event is in the queue.  A send on the    *)
(* closed channel, or one that is blocked when it is closed, panics: that  *)
(* is an event in the queue of a closed channel.                           *)

Event(p, op, id) == [from |-> p, op |-> op, id |-> id]

InSend(p) == \E k \in 1..Len(statsChan) : statsChan[k].from = p

Send(e) == statsChan' = Append(statsChan, e)

(* Stop(): close(cfg.statsChannel). *)
CloseChannel ==
    /\ closed' = TRUE
    /\ UNCHANGED <<loop, currentOps, timeout, idle, timer, ctx, statsChan>>

-----------------------------------------------------------------------------
(* The loop's side. *)

(* cancel() has an effect the first time only. *)
CancelBy(who) == ctx' = IF ctx = "live" THEN who ELSE ctx

(* for ctxt.Err() == nil: the loop ends when the context is cancelled. *)
LoopEnds ==
    /\ loop = "top"
    /\ Cancelled
    /\ loop' = "exited"
    /\ UNCHANGED <<currentOps, timeout, idle, timer, ctx, statsChan, closed>>

(* Mutant: the timer is not stopped when a task becomes active. *)
SetTimerNeverStopped ==
    /\ loop = "top"
    /\ ~Cancelled
    /\ loop' = "select"
    /\ IF idle # Zero /\ timeout # NoTimeout
       THEN IF timeout - idle <= 0
            THEN CancelBy("idle") /\ UNCHANGED timer
            ELSE timer' = timeout - idle /\ UNCHANGED ctx
       ELSE UNCHANGED <<timer, ctx>>
    /\ UNCHANGED <<currentOps, timeout, idle, statsChan, closed>>

(* Mutant: every round starts the idle period again. *)
SetTimerFromNow ==
    /\ loop = "top"
    /\ ~Cancelled
    /\ loop' = "select"
    /\ timer' = IF idle = Zero THEN Stopped
                ELSE IF timeout # NoTimeout THEN timeout ELSE timer
    /\ UNCHANGED <<currentOps, timeout, idle, ctx, statsChan, closed>>

(* Stop or set the timer for what is left of the idle period, and select. *)
SetTimer ==
    /\ loop = "top"
    /\ ~Cancelled
    /\ loop' = "select"
    /\ \/ idle = Zero /\ timer' = Stopped /\ UNCHANGED ctx
       \/ idle # Zero /\ timeout = NoTimeout /\ UNCHANGED <<timer, ctx>>
       \/ /\ idle # Zero /\ timeout # NoTimeout
          /\ IF timeout - idle <= 0
             THEN CancelBy("idle") /\ UNCHANGED timer
             ELSE timer' = timeout - idle /\ UNCHANGED ctx
    /\ UNCHANGED <<currentOps, timeout, idle, statsChan, closed>>

(* Mutant: a cancelled task stays in the table. *)
OpsAfterNoCancel(e) ==
    CASE e.op = "start"                  -> currentOps \cup {e.id}
      [] e.op = "done"                   -> currentOps \ {e.id}
      [] e.op \in {"cancel", "setTimeout"} -> currentOps

(* What StartOp, CancelOp and DoneOp leave in the table. *)
OpsAfter(e) ==
    CASE e.op = "start"              -> currentOps \cup {e.id}
      [] e.op \in {"cancel", "done"} -> currentOps \ {e.id}
      [] e.op = "setTimeout"         -> currentOps

(* Mutant: activity does not end the idle period. *)
IdleAfterKept(ops) == IF ops = {} /\ idle = Zero THEN 0 ELSE idle

(* The idle period starts with the first event that leaves no task active, *)
(* and ends with the first that leaves one.                                *)
IdleAfter(ops) ==
    IF ops = {} /\ idle = Zero THEN 0
    ELSE IF ops # {} /\ idle # Zero THEN Zero
    ELSE idle

(* case e, ok := <-cfg.statsChannel, with ok.  The sender that has waited  *)
(* longest is served.  With the context cancelled as well, select picks    *)
(* either case.  Nothing is received from a sender on the closed channel:  *)
(* it panics.                                                              *)
ReceiveEvent ==
    /\ loop = "select"
    /\ ~closed
    /\ statsChan # <<>>
    /\ LET e == Head(statsChan) IN
         /\ currentOps' = OpsAfter(e)
         /\ timeout' = IF e.op = "setTimeout" THEN IdleTimeout ELSE timeout
         /\ idle' = IdleAfter(OpsAfter(e))
    /\ statsChan' = Tail(statsChan)
    /\ loop' = "top"
    /\ UNCHANGED <<timer, ctx, closed>>

(* Mutant: ok is not looked at; the zero event starts the task "". *)
ReceiveClosedUnchecked ==
    /\ loop = "select"
    /\ closed
    /\ loop' = "top"
    /\ currentOps' = currentOps \cup {""}
    /\ idle' = IdleAfter(currentOps')
    /\ UNCHANGED <<timeout, timer, ctx, statsChan, closed>>

(* case e, ok := <-cfg.statsChannel, with !ok. *)
ReceiveClosed ==
    /\ loop = "select"
    /\ closed
    /\ loop' = "exited"
    /\ UNCHANGED <<currentOps, timeout, idle, timer, ctx, statsChan, closed>>

(* case <-ctxt.Done() *)
ContextDone ==
    /\ loop = "select"
    /\ Cancelled
    /\ loop' = "exited"
    /\ UNCHANGED <<currentOps, timeout, idle, timer, ctx, statsChan, closed>>

(* case <-time.After(time.Until(ntime)): LogStats, and round again. *)
LogTick ==
    /\ loop = "select"
    /\ loop' = "top"
    /\ UNCHANGED <<currentOps, timeout, idle, timer, ctx, statsChan, closed>>

(* Mutant: the loop is left without cancelling the context. *)
IdleTimerFiresNoCancel ==
    /\ loop = "select"
    /\ timer = 0
    /\ timer' = Stopped
    /\ loop' = "exited"
    /\ UNCHANGED <<currentOps, timeout, idle, ctx, statsChan, closed>>

(* case <-timeoutTimer.C: cfg.cancel() *)
IdleTimerFires ==
    /\ loop = "select"
    /\ timer = 0
    /\ timer' = Stopped
    /\ CancelBy("idle")
    /\ loop' = "top"
    /\ UNCHANGED <<currentOps, timeout, idle, statsChan, closed>>

Loop ==
    \/ LoopEnds
    \/ SetTimer
    \/ ReceiveEvent
    \/ ReceiveClosed
    \/ ContextDone
    \/ LogTick
    \/ IdleTimerFires

(* One unit of time passes for the idle period and for the timer. *)
ClocksAdvance ==
    /\ idle' = IF idle \in 0..(IdleTimeout - 1) THEN idle + 1 ELSE idle
    /\ timer' = IF timer > 0 THEN timer - 1 ELSE timer
    /\ UNCHANGED <<loop, currentOps, timeout, ctx, statsChan, closed>>

(* Types of the variables. *)
StatsTypeOK ==
    /\ loop \in {"top", "select", "exited"}
    /\ currentOps \subseteq TaskIds
    /\ timeout \in {NoTimeout, IdleTimeout}
    /\ idle \in {Zero} \cup 0..IdleTimeout
    /\ timer \in {Stopped} \cup 0..IdleTimeout
    /\ ctx \in {"live", "idle", "signal"}
    /\ \A k \in 1..Len(statsChan) :
          statsChan[k] \in [from : Callers, op : {"start", "cancel", "done", "setTimeout"},
                            id : TaskIds]
    /\ closed \in BOOLEAN
=============================================================================
