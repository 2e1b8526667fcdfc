-------------------------- MODULE MCAgentCommands --------------------------
(***************************************************************************)
(* The file command with up to three lines: one answer can be stored, one  *)
(* be in the buffers and one in hand, for each kind of output.  The HTTP   *)
(* endpoints with two requests in process at once, of up to two calls.     *)
(* The generator with two messages published by two workers, one place in  *)
(* the client's flow control, and two callbacks that can report the same   *)
(* message.                                                                *)
(***************************************************************************)
EXTENDS AgentCommands

CONSTANTS r1, r2

MCGoroutines == {r1, r2}
MCCallers    == {Main, r1, r2} \cup 1..MaxItems
MCTaskIds    == {Main, NoId} \cup 1..MaxItems
=============================================================================
