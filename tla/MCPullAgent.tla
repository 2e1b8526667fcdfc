----------------------------- MODULE MCPullAgent -----------------------------
(***************************************************************************)
(* Two requests and two deliveries in process: with MaxOutstanding = 1 (the*)
(* default of the flag) one callback runs while the other delivery waits   *)
(* for its publish; with 2 two callbacks share the id of their tasks.      *)
(***************************************************************************)
EXTENDS PullAgent

CONSTANTS d1, d2, m1, m2

MCCallers    == {Main, d1, d2}
MCMsgs       == {m1, m2}
MCOneMsg     == {m1}
MCTaskIds    == {SrcId}
MCNoneBare   == {}
MCOneBare    == {m2}
=============================================================================
