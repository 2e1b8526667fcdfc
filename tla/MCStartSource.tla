---------------------------- MODULE MCStartSource ----------------------------
(***************************************************************************)
(* Files of one line (read up to four times with --loop) and of four, two  *)
(* workers, one value in a tick after a ramp of four ticks from a delay of *)
(* two: the pool fills twice, results are traded for new work, yields fall *)
(* in the ramp and after it, and any step may lose several delays.         *)
(***************************************************************************)
EXTENDS StartSource

MCDelay        == 1
MCRampDuration == 4
MCRampSteps    == 2
MCMaxItems     == 4
MCMaxTime      == 5
MCWorkers      == 2
MCNumCPU       == 1
MCFileSizes    == {1, 4}
=============================================================================
