----------------------------- MODULE StartSource -----------------------------
(***************************************************************************)
(* StartSource (examples/risk/agent/src/test/source.go), what "generate    *)
(* grpc" (test/grpc.go) and "generate pubsub" run: the lines of a file,    *)
(* read once or over and over, go through the rate limiter into the worker *)
(* pool.  The two are composed as they call one another: a value passes    *)
(* from the limiter to the pool in one step, the limiter waits in yield    *)
(* while the pool waits for a worker, and a pool that leaves its loop ends *)
(* the limiter.  A call of op is external: it ends at any moment, well or  *)
(* not.                                                                    *)
(***************************************************************************)
EXTENDS Throttle, ApplyParallel

CONSTANT FileSizes  \* bound: how many lines the source file may have

VARIABLES
    loop,     \* s.Loop
    limited,  \* s.Rate > 0
    lines,    \* how many lines the source file has
    line,     \* how many of them this pass has given
    starts    \* history: when the pool started to work on each value

sourceVars == <<loop, limited, lines, line, starts>>
allVars == <<throttleVars, vars, sourceVars>>

SourceInit ==
    /\ ThrottleInit
    /\ Init
    /\ loop \in BOOLEAN
    /\ limited \in BOOLEAN
    /\ lines \in FileSizes
    /\ line = 0
    /\ starts = <<>>

(* Bound: another value fits, and its sleep can end by MaxTime. *)
WithinBounds == yielded < MaxItems /\ nextOp <= MaxTime

(* Whoever ranges over the source: the limiter, or the pool itself. *)
ReadsSource == place = "range" /\ (limited \/ pc = "range")

(* for ctxt.Err() == nil: ReadLines looks at the context before each line.  *)
ReadLine ==
    /\ ReadsSource
    /\ ~cancelled
    /\ line < lines
    /\ WithinBounds
    /\ line' = line + 1
    /\ UNCHANGED <<loop, limited, lines>>

(* The limiter takes a line; without one, the pool does. *)
GiveToLimiter == limited /\ ReadLine /\ Take /\ UNCHANGED <<vars, starts>>

GiveToPool == ~limited /\ ReadLine /\ YieldValue /\ UNCHANGED <<throttleVars, starts>>

(* The limiter sleeps and wakes on its own. *)
LimiterSleeps ==
    /\ limited
    /\ WakeUp \/ ContextDone
    /\ UNCHANGED <<vars, sourceVars>>

LimiterYields == limited /\ Yield /\ YieldValue /\ UNCHANGED sourceVars

(* Reading the source fails: the error passes the limiter with no delay and *)
(* ends the loop of the pool, which ends the limiter.                       *)
SourceFails ==
    /\ ReadsSource
    /\ IF limited
       THEN PassError /\ UNCHANGED vars
       ELSE YieldError /\ UNCHANGED throttleVars
    /\ UNCHANGED sourceVars

LimiterYieldsError ==
    /\ limited
    /\ YieldError
    /\ ConsumerStops
    /\ UNCHANGED sourceVars

(* Mutant: the loop ends with the file. *)
NextPassOnlyOnce == FALSE

(* for ctxt.Err() == nil: the file is read again, if a context lets it. *)
NextPass == loop /\ ~cancelled

(* io.EOF, or the context is done: ReadLines ends, without an error. *)
NoMoreLines == ReadsSource /\ (line = lines \/ cancelled)

(* Mutant: each pass has a limiter of its own, which starts at once. *)
PassEndsNewLimiter ==
    /\ NoMoreLines
    /\ IF NextPass
       THEN /\ line' = 0
            /\ nextOp' = now
            /\ UNCHANGED <<now, place, delay, useRamp, cancelled, taken, yields, vars>>
       ELSE IF limited
            THEN SourceEnds /\ UNCHANGED <<vars, line>>
            ELSE SeqEnds /\ UNCHANGED <<throttleVars, line>>
    /\ UNCHANGED <<loop, limited, lines, starts>>

PassEnds ==
    /\ NoMoreLines
    /\ IF NextPass
       THEN line' = 0 /\ UNCHANGED <<throttleVars, vars>>
       ELSE IF limited
            THEN SourceEnds /\ UNCHANGED <<vars, line>>
            ELSE SeqEnds /\ UNCHANGED <<throttleVars, line>>
    /\ UNCHANGED <<loop, limited, lines, starts>>

(* The limiter has returned: so ends the sequence of the pool. *)
LimiterEnds ==
    /\ limited
    /\ place = "done"
    /\ SeqEnds
    /\ UNCHANGED <<throttleVars, sourceVars>>

(* The body of the pool's loop ends: the limiter goes on or is stopped. *)
LoopBody ==
    /\ Dispatch \/ ReceiveAtLimit
    /\ CASE ~limited       -> UNCHANGED throttleVars
         [] pc' = "range"  -> ConsumerGoesOn
         [] pc' = "drain"  -> ConsumerStops
    /\ starts' = IF pc' = "range" THEN Append(starts, now) ELSE starts
    /\ UNCHANGED <<loop, limited, lines, line>>

PoolEnds == (ReceiveInDrain \/ Return) /\ UNCHANGED <<throttleVars, sourceVars>>

OpReturns(i) == Worker(i) /\ UNCHANGED <<throttleVars, sourceVars>>

(* main's context is cancelled. *)
ContextEnds == Cancel /\ UNCHANGED <<vars, sourceVars>>

(* The clock behind time.Now and time.After, which only the limiter reads. *)
TimePasses == limited /\ pc # "returned" /\ Tick /\ UNCHANGED <<vars, sourceVars>>

Goroutine ==
    \/ GiveToLimiter
    \/ GiveToPool
    \/ LimiterSleeps
    \/ LimiterYields
    \/ SourceFails
    \/ LimiterYieldsError
    \/ PassEnds
    \/ LimiterEnds
    \/ LoopBody
    \/ PoolEnds

SourceNext ==
    \/ Goroutine
    \/ \E i \in Items : OpReturns(i)
    \/ ContextEnds
    \/ TimePasses

SourceSpec == SourceInit /\ [][SourceNext]_allVars

(* The command's goroutine runs and time passes.  The backend answers each *)
(* call, but once the context is cancelled the report of its end may block *)
(* for ever (StatsLoop), so nothing is assumed of calls after that.        *)
SourceFairness ==
    /\ WF_allVars(Goroutine)
    /\ WF_allVars(TimePasses)
    /\ \A i \in Items : WF_allVars(~cancelled /\ OpReturns(i))

SourceFairSpec == SourceSpec /\ SourceFairness
-----------------------------------------------------------------------------
(* "Batch operations per second max" (source.go:52): the limit is on the   *)
(* calls, though the limiter only sees when it yields.  Whatever time the  *)
(* pool makes it wait, n + 2 calls in a row never start within n delays.   *)
CallsAreLimited ==
    limited => \A i, j \in 1..Len(starts) :
                   i < j => starts[j] - starts[i] >= (j - i - 1) * Delay

(* A command that ends well has called the backend, with success, for     *)
(* every line it was given.  If nothing was cancelled these are the lines  *)
(* of the whole file, which it was not asked to loop over.  A cancelled    *)
(* command ends well too, wherever it is in the file (io.go:47), but what  *)
(* it has read of it was called, except for a line that a delay was cut    *)
(* short for (throttle.go:112).                                            *)
NilMeansAllDone ==
    pc = "returned" /\ err = NoErr =>
        /\ \A i \in 1..yielded : task[i] = "ok"
        /\ ~cancelled => ~loop /\ yielded = lines
        /\ ~loop => \/ yielded = line
                    \/ cancelled /\ limited /\ yielded = line - 1

(* A pass over a file ends the command: limiter and pool never wait for    *)
(* one another, however full the pool is.                                  *)
OnePassEnds == ~loop => <>(pc = "returned" \/ cancelled)
=============================================================================
