-------------------------- MODULE TimeDistribution --------------------------
(***************************************************************************)
(* The latency distribution of a statistics window (stats/timings.go):     *)
(* weighted points, and percentiles read off by a walk from the largest    *)
(* point down.  Percentiles are integers, in hundredths.  sort.Slice is    *)
(* not stable, so any descending order of the points may be left behind.   *)
(* AccumStats uses it and holds its specification.                         *)
(***************************************************************************)
EXTENDS Integers, SequencesExt

CONSTANT Percentiles   \* the argument of GetPercentile

ASSUME DistributionAssumption ==
    /\ Percentiles \in Seq(0..100)
    /\ \A j \in 2..Len(Percentiles) : Percentiles[j - 1] > Percentiles[j]

VARIABLES
    points,   \* t.points
    total,    \* t.total
    values    \* what GetPercentile returned last

distVars == <<points, total, values>>

Point(timing, weight) == [timing |-> timing, weight |-> weight]

NumPercentiles == Len(Percentiles)

DistInit ==
    /\ points = <<>>
    /\ total = 0
    /\ values = [j \in 1..NumPercentiles |-> 0]

Add(weight, timing) ==
    /\ points' = Append(points, Point(timing, weight))
    /\ total' = total + weight
    /\ UNCHANGED values

Clear ==
    /\ points' = <<>>
    /\ total' = 0

(* What sort.Slice may leave of s: its points from the largest down. *)
SortedOrders(s) ==
    LET Indices == 1..Len(s)
        Orders  == {q \in [Indices -> Indices] : \A i, j \in Indices : i # j => q[i] # q[j]}
    IN {t \in {[i \in Indices |-> s[q[i]]] : q \in Orders} :
          \A i \in 2..Len(s) : t[i - 1].timing >= t[i].timing}

(* Mutant: a percentile is given away before the point is taken off. *)
WalkStepBefore(s, acc, i) ==
    LET ready == {j \in acc.j..NumPercentiles :
                    \A k \in acc.j..j : acc.left * 100 <= Percentiles[k] * total}
    IN [left   |-> acc.left - s[i].weight,
        j      |-> acc.j + Cardinality(ready),
        values |-> [j \in 1..NumPercentiles |->
                      IF j \in ready THEN s[i].timing ELSE acc.values[j]]]

(* The walk: before point i, acc.left is the weight not yet walked over    *)
(* and acc.j the first percentile without a value.  The point is taken off *)
(* and every percentile that what is left has come down to is its timing.  *)
WalkStep(s, acc, i) ==
    LET left  == acc.left - s[i].weight
        ready == {j \in acc.j..NumPercentiles :
                    \A k \in acc.j..j : left * 100 <= Percentiles[k] * total}
    IN [left   |-> left,
        j      |-> acc.j + Cardinality(ready),
        values |-> [j \in 1..NumPercentiles |->
                      IF j \in ready THEN s[i].timing ELSE acc.values[j]]]

Walk(s) ==
    LET none == [left |-> total, j |-> 1, values |-> [j \in 1..NumPercentiles |-> 0]]
        walked[i \in 0..Len(s)] == IF i = 0 THEN none ELSE WalkStep(s, walked[i - 1], i)
    IN walked[Len(s)].values

(* GetPercentile leaves the points sorted; its caller clears them next. *)
GetPercentile == \E s \in SortedOrders(points) : values' = Walk(s)
-----------------------------------------------------------------------------
(* The weight of the points at these places. *)
WeightOf(s, places) == MapThenSumSet(LAMBDA i : s[i].weight, places)

Below(s, timing) == {i \in 1..Len(s) : s[i].timing < timing}

(* The definition of a percentile: the largest timing with at most that    *)
(* part of the weight below it.                                            *)
Percentile(s, p) ==
    LET Enough(timing) == WeightOf(s, Below(s, timing)) * 100 <= p * WeightOf(s, 1..Len(s))
    IN Max({s[k].timing : k \in {i \in 1..Len(s) : Enough(s[i].timing)}})
=============================================================================
