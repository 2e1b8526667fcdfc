----------------------------- MODULE AccumStats -----------------------------
(***************************************************************************)
(* The accounting of the statistics goroutine (stats/stats_accum.go): the  *)
(* outstanding operations with their start times, what was done in the     *)
(* current window, and LogStats, which reports a window and begins the     *)
(* next.  Reporting can fall in the middle of operations: each one's time  *)
(* is split over the windows it spans, while its latency is counted whole  *)
(* in the window where it ends.                                            *)
(***************************************************************************)
EXTENDS TimeDistribution

CONSTANTS
    Ids,        \* the ids of operations
    MaxTime,    \* bound: ticks
    MaxPoints,  \* bound: operations done in one window
    MaxRestarts \* bound: restarts

VARIABLES
    now,         \* time.Now()
    start,       \* a.start
    ops,         \* a.ops
    optime,      \* a.optime
    currentOps,  \* a.currentOps: start times, by id
    report,      \* what LogStats reported last: executed time and window, ops and latencies
    restarts,    \* history: how often an id was started again before its end, which
                 \* only happens to callers that share it
    unseen,      \* history: how many outstanding operations are not in the table for that
    owedTime,    \* history: time spent by operations, at each tick, and not reported yet;
                 \* of a cancelled one the time since its id's last start is taken back
    owedOps,     \* history: operations done and not reported yet
    worst        \* history: the longest of the operations done in this window

accumVars  == <<now, start, ops, optime, currentOps, report>>
shareVars  == <<restarts, unseen>>
histVars   == <<shareVars, owedTime, owedOps, worst>>
windowVars == <<distVars, accumVars, histVars>>

ASSUME AccumAssumption == Percentiles # <<>> /\ Percentiles[1] = 100

AccumInit ==
    /\ DistInit
    /\ now = 0
    /\ start = 0
    /\ ops = 0
    /\ optime = 0
    /\ currentOps = [i \in {} |-> 0]
    /\ report = [executed |-> 0, dur |-> 0, ops |-> 0]
    /\ restarts = 0
    /\ unseen = 0
    /\ owedTime = 0
    /\ owedOps = 0
    /\ worst = 0

Active == DOMAIN currentOps

Larger(a, b) == IF a >= b THEN a ELSE b

(* The time an operation has taken in this window. *)
InWindow(id) == now - Larger(currentOps[id], start)

Forget(id) == currentOps' = Restrict(currentOps, Active \ {id})

(* StartOp.  An id in the table loses its start; the operation that had it *)
(* goes on.                                                                *)
StartOp(id) ==
    /\ id \in Active => restarts < MaxRestarts
    /\ currentOps' = [i \in Active \cup {id} |-> IF i = id THEN now ELSE currentOps[i]]
    /\ IF id \in Active
       THEN restarts' = restarts + 1 /\ unseen' = unseen + 1
       ELSE UNCHANGED shareVars
    /\ UNCHANGED <<distVars, now, start, ops, optime, report, owedTime, owedOps, worst>>

(* What ends under an id that is not in the table has ended before, or is  *)
(* one of the unseen.                                                      *)
UnseenEnds == unseen > 0 /\ unseen' = unseen - 1 /\ UNCHANGED restarts

(* "Note that if a stats has been produced, it will have been included in  *)
(* the load for that window.  Going forward it will be excluded."          *)
CancelOp(id) ==
    /\ IF id \in Active
       THEN Forget(id) /\ owedTime' = owedTime - InWindow(id) /\ UNCHANGED shareVars
       ELSE UNCHANGED <<currentOps, owedTime>> /\ (UnseenEnds \/ UNCHANGED shareVars)
    /\ UNCHANGED <<distVars, now, start, ops, optime, report, owedOps, worst>>

(* Mutant: the latency is only the part in this window. *)
DoneOpClipped(id) ==
    /\ Len(points) < MaxPoints
    /\ id \in Active
    /\ Forget(id)
    /\ ops' = ops + 1
    /\ optime' = optime + InWindow(id)
    /\ Add(1, InWindow(id))
    /\ owedOps' = owedOps + 1
    /\ worst' = Larger(worst, now - currentOps[id])
    /\ UNCHANGED <<now, start, report, shareVars, owedTime>>

(* DoneOp.  The end of an operation that is not in the table is ignored.   *)
DoneOp(id) ==
    /\ Len(points) < MaxPoints
    /\ IF id \in Active
       THEN /\ Forget(id)
            /\ ops' = ops + 1
            /\ optime' = optime + InWindow(id)
            /\ Add(1, now - currentOps[id])
            /\ owedOps' = owedOps + 1
            /\ worst' = Larger(worst, now - currentOps[id])
            /\ UNCHANGED shareVars
       ELSE /\ \/ UnseenEnds /\ owedOps' = owedOps + 1
               \/ UNCHANGED <<shareVars, owedOps>>
            /\ UNCHANGED <<currentOps, ops, optime, distVars, worst>>
    /\ UNCHANGED <<now, start, report, owedTime>>

(* executed: completed operations and those going on. *)
Executed == optime + MapThenSumSet(InWindow, Active)

(* Mutant: the time of completed operations is reported again. *)
LogStatsKeepsTime ==
    /\ GetPercentile
    /\ report' = [executed |-> Executed, dur |-> now - start, ops |-> ops]
    /\ start' = now
    /\ ops' = 0
    /\ Clear
    /\ owedTime' = owedTime - report'.executed
    /\ owedOps' = owedOps - report'.ops
    /\ worst' = 0
    /\ UNCHANGED <<now, optime, currentOps, shareVars>>

(* LogStats: the latencies, the load, and all is reset. *)
LogStats ==
    /\ GetPercentile
    /\ report' = [executed |-> Executed, dur |-> now - start, ops |-> ops]
    /\ start' = now
    /\ ops' = 0
    /\ optime' = 0
    /\ Clear
    /\ owedTime' = owedTime - report'.executed
    /\ owedOps' = owedOps - report'.ops
    /\ worst' = 0
    /\ UNCHANGED <<now, currentOps, shareVars>>

Tick ==
    /\ now < MaxTime
    /\ now' = now + 1
    /\ owedTime' = owedTime + Cardinality(Active) + unseen
    /\ UNCHANGED <<distVars, start, ops, optime, currentOps, report, shareVars, owedOps, worst>>

AccumNext ==
    \/ \E id \in Ids : StartOp(id) \/ CancelOp(id) \/ DoneOp(id)
    \/ LogStats
    \/ Tick

AccumSpec == AccumInit /\ [][AccumNext]_windowVars
-----------------------------------------------------------------------------
(* "the total compute execution time since the start of the window,        *)
(* including completed operations *and* on-going operations"               *)
(* (stats_accum.go:114): over all windows together no time of an operation *)
(* is reported twice, and none done is counted twice, however starts,      *)
(* reports, cancellations and ends fall; and as long as no two operations  *)
(* had one id at once none is left out.  When they have, as all tasks of   *)
(* the agent do (backend.go:179), the table keeps one start for them: time *)
(* before the last start, time after the first end and all ends but one    *)
(* are lost.                                                               *)
WindowsAddUp ==
    /\ Executed <= owedTime
    /\ ops <= owedOps
    /\ restarts = 0 => Executed = owedTime /\ ops = owedOps

(* "percentile should be greatest to least, no more than 1.0 (max) or less *)
(* than 0.0 (min)" (timings.go:50): each value of a report is what the     *)
(* definition of a percentile gives for the operations done in the window, *)
(* in whatever order they were recorded and sorted; and the largest is the *)
(* whole latency of the longest of them, since the last start of its id,   *)
(* also when that was windows before.                                      *)
ReportsPercentiles ==
    [][start' > start =>
          /\ values'[1] = worst
          /\ points # <<>> =>
                \A j \in 1..NumPercentiles : values'[j] = Percentile(points, Percentiles[j])]_windowVars
=============================================================================
