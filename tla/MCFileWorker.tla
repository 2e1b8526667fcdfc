---------------------------- MODULE MCFileWorker ----------------------------
(***************************************************************************)
(* The file command alone, for what the agent's README says of it: a       *)
(* single line is enough for an input with an error to end with code 0.    *)
(***************************************************************************)
EXTENDS FileWorker

MCCallers == {Worker}
MCTaskIds == {SrcId}
=============================================================================
