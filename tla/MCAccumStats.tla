---------------------------- MODULE MCAccumStats ----------------------------
(***************************************************************************)
(* Two operations going on at once over three ticks, and up to three ends  *)
(* in a window: an operation can span three windows and end with another,  *)
(* latencies tie, and a percentile falls on a boundary between two.  Once   *)
(* an id is started again before its end.                                  *)
(***************************************************************************)
EXTENDS AccumStats

CONSTANTS id1, id2

MCIds         == {id1, id2}
MCMaxTime     == 3
MCPercentiles == <<100, 75, 50, 0>>
MCMaxPoints   == 3
Symmetry      == Permutations(MCIds)
=============================================================================
