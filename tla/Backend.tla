------------------------------- MODULE Backend -------------------------------
(***************************************************************************)
(* The agent's connection to its worker (protoio/backend.go): connect      *)
(* makes a gRPC client, waits with a timeout for it to be ready, and       *)
(* GetTypes asks the server, by reflection, for the method and its types.  *)
(* The command that connects is the module that extends this one; it moves *)
(* from place to place as these actions tell it.                           *)
(*                                                                         *)
(* The client's connection is external.  It changes its state by itself,   *)
(* between any two looks at it: an attempt ends, a failed one is repeated, *)
(* a ready one is lost.  Once lost it is idle until a call is made, and    *)
(* connect makes none.                                                     *)
(***************************************************************************)
VARIABLES
    conn,      \* client.GetState()
    waits,     \* cfg.Timeout > 0
    currState, \* the state connect saw last, while it waits for another
    expired    \* connContext has reached its deadline

backendVars == <<conn, waits, currState, expired>>

Unseen == "unseen"

(* client.Connect() has been called: until the name of the server is       *)
(* resolved the state is IDLE, which counts as connecting.                 *)
BackendInit ==
    /\ conn = "connecting"
    /\ waits \in BOOLEAN
    /\ currState = Unseen
    /\ expired = FALSE

(* What connect leaves behind: connContext and currState are its own. *)
Forgets == currState' = Unseen /\ expired' = FALSE /\ UNCHANGED <<conn, waits>>

(* The changes the client makes by itself; calling: a call is waiting. *)
ConnectionChanges(calling) ==
    /\ \/ conn = "connecting" /\ conn' \in {"ready", "failure"}
       \/ conn = "failure" /\ conn' \in {"connecting", "ready"}
       \/ conn = "ready" /\ conn' = "idle"
       \/ conn = "idle" /\ calling /\ conn' = "connecting"
    /\ UNCHANGED <<waits, currState, expired>>

Deadline ==
    /\ waits /\ ~expired
    /\ expired' = TRUE
    /\ UNCHANGED <<conn, waits, currState>>

(* Without a timeout connect does not wait; or it finds the client ready. *)
IsConnected == (waits => conn = "ready") /\ Forgets

(* It does not, and remembers what it found. *)
LooksAt ==
    /\ waits /\ conn # "ready"
    /\ currState' = conn
    /\ UNCHANGED <<conn, waits, expired>>

(* WaitForStateChange returns true (after a change and back, another look  *)
(* would find what the last one did).                                      *)
SeesChange == conn # currState /\ UNCHANGED backendVars

(* Mutant: it waits with the command's context instead of connContext. *)
GivesUpOnlyCancelled(cancelled) == cancelled /\ Forgets

(* It returns false, for the deadline or for the context's end. *)
GivesUp(cancelled) == (expired \/ cancelled) /\ Forgets

(* The calls of reflection: they wait for a connection that is being made, *)
(* have no deadline of their own, and end with the context.                *)
Resolves(cancelled) == conn = "ready" /\ ~cancelled /\ UNCHANGED backendVars

ResolveFails(cancelled) ==
    /\ conn \in {"ready", "failure"} \/ cancelled
    /\ UNCHANGED backendVars
=============================================================================
