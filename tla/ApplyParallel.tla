---------------------------- MODULE ApplyParallel ----------------------------
(***************************************************************************)
(* stats.ApplyParallel (examples/risk/agent/src/stats/throttle.go): the    *)
(* pool that runs every batch command of the agent.  The caller's goroutine*)
(* ("the dispatcher") ranges over a sequence of (value, error) pairs and   *)
(* starts one goroutine per value; each goroutine sends its result on an   *)
(* unbuffered channel that only the dispatcher receives from.              *)
(*                                                                         *)
(* An unbuffered Go channel serves its blocked senders first come, first   *)
(* served, so err_ch is the queue of the goroutines blocked in the send.   *)
(* The end of work(v) and the start of the send are one step.              *)
(*                                                                         *)
(* The load test has a copy of its own (DataTools).                        *)
(***************************************************************************)
EXTENDS Integers, Sequences, FiniteSets

CONSTANTS
    MaxItems,   \* bound: the longest sequence explored
    Workers,    \* the argument workers
    NumCPU      \* runtime.NumCPU()

ASSUME SizesAssumption ==
    /\ MaxItems \in Nat
    /\ Workers \in Int
    /\ NumCPU \in Nat \ {0}

Items == 1..MaxItems

(* Errors: nil, the error of the sequence, or the item whose work failed. *)
NoErr  == 0
SeqErr == -1

PoolSize == IF Workers <= 0 THEN NumCPU ELSE Workers

VARIABLES
    pc,         \* the dispatcher: "range", "limit", "drain" or "returned"
    yielded,    \* how many values the sequence has yielded
    working,    \* the local variable working
    err,        \* the named result err: NoErr, SeqErr or the item whose work failed
    task,       \* per item: "new", "running" (in work), "ok" or "failed"
    err_ch,     \* the goroutines blocked sending their result, in order
    firstFail,  \* history: the first item whose failure was sent, or NoErr
    overrun     \* history: how many goroutines were started after that

vars == <<pc, yielded, working, err, task, err_ch, firstFail, overrun>>

Outcome(i) == IF task[i] = "failed" THEN i ELSE NoErr

Running == {i \in Items : task[i] = "running"}

Init ==
    /\ pc = "range"
    /\ yielded = 0
    /\ working = 0
    /\ err = NoErr
    /\ task = [i \in Items |-> "new"]
    /\ err_ch = <<>>
    /\ firstFail = NoErr
    /\ overrun = 0

(* The sequence yields another value. *)
YieldValue ==
    /\ pc = "range"
    /\ yielded < MaxItems
    /\ yielded' = yielded + 1
    /\ pc' = "limit"
    /\ UNCHANGED <<working, err, task, err_ch, firstFail, overrun>>

(* The sequence yields an error: err = seq_err; break. *)
YieldError ==
    /\ pc = "range"
    /\ err' = SeqErr
    /\ pc' = "drain"
    /\ UNCHANGED <<yielded, working, task, err_ch, firstFail, overrun>>

(* The sequence ends, after any number of values. *)
SeqEnds ==
    /\ pc = "range"
    /\ pc' = "drain"
    /\ UNCHANGED <<yielded, working, err, task, err_ch, firstFail, overrun>>

(* go func() { err := work(v); err_ch <- err }() *)
Go ==
    /\ task' = [task EXCEPT ![yielded] = "running"]
    /\ overrun' = IF firstFail = NoErr THEN overrun ELSE overrun + 1

(* Below the limit: count the goroutine and start it. *)
Dispatch ==
    /\ pc = "limit"
    /\ working # PoolSize
    /\ working' = working + 1
    /\ Go
    /\ pc' = "range"
    /\ UNCHANGED <<yielded, err, err_ch, firstFail>>

(* Mutant: the result received at the limit is not checked: no break. *)
ReceiveAtLimitNoBreak ==
    /\ pc = "limit"
    /\ working = PoolSize
    /\ err_ch # <<>>
    /\ Go
    /\ err' = IF err = NoErr THEN Outcome(Head(err_ch)) ELSE err
    /\ pc' = "range"
    /\ err_ch' = Tail(err_ch)
    /\ UNCHANGED <<working, yielded, firstFail>>

(* Mutant: working-- forgotten before the break. *)
ReceiveAtLimitNoDecrement ==
    /\ pc = "limit"
    /\ working = PoolSize
    /\ err_ch # <<>>
    /\ IF Outcome(Head(err_ch)) # NoErr
       THEN /\ err' = Outcome(Head(err_ch))
            /\ pc' = "drain"
            /\ UNCHANGED <<task, overrun>>
       ELSE /\ Go
            /\ pc' = "range"
            /\ UNCHANGED err
    /\ err_ch' = Tail(err_ch)
    /\ UNCHANGED <<working, yielded, firstFail>>

(* At the limit: receive one result first.  On nil the goroutine that ended *)
(* is replaced and working stays; on an error the value in hand is dropped. *)
ReceiveAtLimit ==
    /\ pc = "limit"
    /\ working = PoolSize
    /\ err_ch # <<>>
    /\ LET last_err == Outcome(Head(err_ch)) IN
         IF last_err # NoErr
         THEN /\ working' = working - 1
              /\ err' = last_err
              /\ pc' = "drain"
              /\ UNCHANGED <<task, overrun>>
         ELSE /\ Go
              /\ pc' = "range"
              /\ UNCHANGED <<working, err>>
    /\ err_ch' = Tail(err_ch)
    /\ UNCHANGED <<yielded, firstFail>>

(* Mutant: a later error replaces the first (no err == nil test). *)
ReceiveInDrainLastError ==
    /\ pc = "drain"
    /\ working > 0
    /\ err_ch # <<>>
    /\ working' = working - 1
    /\ err' = IF Outcome(Head(err_ch)) # NoErr
              THEN Outcome(Head(err_ch)) ELSE err
    /\ err_ch' = Tail(err_ch)
    /\ UNCHANGED <<pc, yielded, task, firstFail, overrun>>

(* for working > 0 { last_err := <-err_ch; working--; ... } *)
ReceiveInDrain ==
    /\ pc = "drain"
    /\ working > 0
    /\ err_ch # <<>>
    /\ working' = working - 1
    /\ err' = IF Outcome(Head(err_ch)) # NoErr /\ err = NoErr
              THEN Outcome(Head(err_ch)) ELSE err
    /\ err_ch' = Tail(err_ch)
    /\ UNCHANGED <<pc, yielded, task, firstFail, overrun>>

(* Mutant: return without draining. *)
ReturnEarly ==
    /\ pc = "drain"
    /\ pc' = "returned"
    /\ UNCHANGED <<yielded, working, err, task, err_ch, firstFail, overrun>>

Return ==
    /\ pc = "drain"
    /\ ~(working > 0)
    /\ pc' = "returned"
    /\ UNCHANGED <<yielded, working, err, task, err_ch, firstFail, overrun>>

(* work(v) returns with r and its goroutine blocks in err_ch <- err. *)
WorkReturns(i, r) ==
    /\ task[i] = "running"
    /\ task' = [task EXCEPT ![i] = r]
    /\ err_ch' = Append(err_ch, i)
    /\ firstFail' = IF r = "failed" /\ firstFail = NoErr THEN i ELSE firstFail
    /\ UNCHANGED <<pc, yielded, working, err, overrun>>

Dispatcher ==
    \/ YieldValue
    \/ YieldError
    \/ SeqEnds
    \/ Dispatch
    \/ ReceiveAtLimit
    \/ ReceiveInDrain
    \/ Return

Worker(i) == WorkReturns(i, "ok") \/ WorkReturns(i, "failed")

(* The call has returned: nothing more happens. *)
Terminated == pc = "returned" /\ UNCHANGED vars

Next == Dispatcher \/ (\E i \in Items : Worker(i)) \/ Terminated

Spec == Init /\ [][Next]_vars

-----------------------------------------------------------------------------
(* Types of the variables. *)
TypeOK ==
    /\ pc \in {"range", "limit", "drain", "returned"}
    /\ yielded \in 0..MaxItems
    /\ working \in 0..PoolSize
    /\ err \in Items \cup {NoErr, SeqErr}
    /\ task \in [Items -> {"new", "running", "ok", "failed"}]
    /\ err_ch \in Seq(Items)
    /\ firstFail \in Items \cup {NoErr}
    /\ overrun \in Nat

(* The counter working is the number of goroutines whose result has not    *)
(* been received, in work or blocked in their send: it is raised before the*)
(* limit is met, left alone when a result is traded for a new goroutine,   *)
(* lowered everywhere else.  So no more than PoolSize goroutines exist, and*)
(* none is left blocked in its send, leaked, when the function returns.    *)
NoGoroutineLost ==
    /\ Cardinality(Running) + Len(err_ch) = working
    /\ working <= PoolSize
    /\ pc = "returned" => Running = {} /\ err_ch = <<>>

(* "the first non-nil error is returned" (throttle.go:130-131): among the  *)
(* errors of the work, the first to be sent is the one returned, and it is *)
(* superseded only by an error of the sequence itself.                     *)
FirstErrorReturned ==
    pc = "returned" => err \in {firstFail, SeqErr}

(* "The first error will stop the processing of new work"                  *)
(* (throttle.go:130): not at once, since the dispatcher looks at results   *)
(* only when the pool is full, but after a failure has been sent no more   *)
(* than PoolSize - 1 further goroutines are ever started.                  *)
BoundedOverrun == overrun <= PoolSize - 1

(* The pool implements what the caller relies on: an item blocked in its   *)
(* send has finished its work.                                             *)
Abstract == INSTANCE WorkPool WITH
    taken  <- yielded,
    state  <- [i \in Items |-> IF task[i] = "running" THEN "busy" ELSE task[i]],
    answer <- IF pc = "returned" THEN err ELSE -2

ImplementsWorkPool == Abstract!Spec
=============================================================================
