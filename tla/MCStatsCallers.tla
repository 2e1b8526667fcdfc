--------------------------- MODULE MCStatsCallers ---------------------------
(***************************************************************************)
(* Two tasks at a time and an idle timeout of two ticks: a task can start  *)
(* while another ends, in the middle of an idle period, and as it expires. *)
(***************************************************************************)
EXTENDS StatsCallers

CONSTANTS t1, t2

MCCallers     == {Main, t1, t2}
MCIdleTimeout == 2
=============================================================================
