----------------------------- MODULE MCLoadTest -----------------------------
(***************************************************************************)
(* serve: four calls on two slots, so that two calls can be inside         *)
(* RunLoadTask with the two others blocked, two wake-ups can be under way  *)
(* together and a call that comes again can overtake both.  Their init ids *)
(* can change back and forth, and one of them is the -1 of a process that  *)
(* has initialised nothing.  writedata and readdata:                       *)
(* three files of two buffers and two workers, so that a result is traded  *)
(* for new work and a failure finds another worker between two buffers.    *)
(* gentasks and load: three tasks.                                         *)
(***************************************************************************)
EXTENDS LoadTest

CONSTANTS c1, c2, c3, c4, initA, initB

MCCalls        == {c1, c2, c3, c4}
MCMaxWorkers   == 2
MCInitIds      == {initA, NoId}
MCTwoIds       == {initA, initB}
MCFiles        == 3
MCWorkers      == 2
MCNumCPU       == 1
MCBuffers      == 2
MCCount        == 3
MCPayloadFails == TRUE
MCPayloadIsMade == FALSE
=============================================================================
