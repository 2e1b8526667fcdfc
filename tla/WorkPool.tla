------------------------------ MODULE WorkPool ------------------------------
(***************************************************************************)
(* What ApplyParallel promises its caller, with no goroutine, channel or   *)
(* counter: items are taken in order, each is worked on at most once, at   *)
(* most PoolSize at a time; the call returns when no work is running, and  *)
(* its answer is NoErr exactly when every item taken from the sequence was *)
(* worked on without an error and the sequence itself gave no error.       *)
(***************************************************************************)
EXTENDS Integers, FiniteSets

CONSTANTS
    MaxItems,   \* bound: the longest sequence explored
    PoolSize    \* how many items may be in progress at once

Items == 1..MaxItems

(* Answers: an error of the work is named by the item that failed. *)
NoErr   == 0
SeqErr  == -1
Pending == -2

VARIABLES
    taken,      \* how many items the sequence has yielded
    state,      \* per item: "new", "busy", "ok" or "failed"
    answer      \* Pending until the call returns, then NoErr, SeqErr or an item

absvars == <<taken, state, answer>>

Busy   == {i \in Items : state[i] = "busy"}
Failed == {i \in Items : state[i] = "failed"}

Init ==
    /\ taken = 0
    /\ state = [i \in Items |-> "new"]
    /\ answer = Pending

(* The next item is taken from the sequence. *)
Take ==
    /\ answer = Pending
    /\ taken < MaxItems
    /\ taken' = taken + 1
    /\ UNCHANGED <<state, answer>>

(* The item taken last is handed to a worker. *)
Start ==
    /\ answer = Pending
    /\ taken \in Items
    /\ state[taken] = "new"
    /\ Cardinality(Busy) < PoolSize
    /\ state' = [state EXCEPT ![taken] = "busy"]
    /\ UNCHANGED <<taken, answer>>

Finish(i) ==
    /\ answer = Pending
    /\ state[i] = "busy"
    /\ \E r \in {"ok", "failed"} : state' = [state EXCEPT ![i] = r]
    /\ UNCHANGED <<taken, answer>>

(* The call returns: nothing is running, and the answer accounts for the   *)
(* items: NoErr only if all of them went well, an item only if it failed.  *)
Return(a) ==
    /\ answer = Pending
    /\ Busy = {}
    /\ \/ a = NoErr /\ \A i \in 1..taken : state[i] = "ok"
       \/ a \in Failed
       \/ a = SeqErr
    /\ answer' = a
    /\ UNCHANGED <<taken, state>>

Next ==
    \/ Take
    \/ Start
    \/ \E i \in Items : Finish(i)
    \/ \E a \in Items \cup {NoErr, SeqErr} : Return(a)

Spec == Init /\ [][Next]_absvars
=============================================================================
