------------------------------ MODULE LoadTest ------------------------------
(***************************************************************************)
(* The loadtest program (examples/risk/loadtest/src/main.go): a process    *)
(* runs one command.  serve is LoadTestServer; writedata and readdata are  *)
(* DataTools; gentasks, and load of the file it left, are TaskFile.        *)
(***************************************************************************)
EXTENDS LoadTestServer, DataTools, TaskFile

VARIABLE command  \* "serve", "data" or "tasks"

programVars == <<vars, dataVars, taskFileVars, command>>

(* The other commands are given one of their initial states, and rest. *)
ProgramInit ==
    /\ command \in {"serve", "data", "tasks"}
    /\ Init
    /\ DataInit
    /\ command # "data" => tool = "writedata" /\ ~gcs
    /\ TasksInit
    /\ command # "tasks" => compression = "plain" /\ store = "local" /\ ~longLines

Serve == command = "serve" /\ Next /\ UNCHANGED <<dataVars, taskFileVars, command>>

Data == command = "data" /\ DataNext /\ UNCHANGED <<vars, taskFileVars, command>>

Tasks == command = "tasks" /\ TasksNext /\ UNCHANGED <<vars, dataVars, command>>

(* The command has ended. *)
Ended ==
    /\ \/ command = "data" /\ code # Running
       \/ command = "tasks" /\ load = "exited"
    /\ UNCHANGED programVars

ProgramNext == Serve \/ Data \/ Tasks \/ Ended

(* Handlers of the service run, work returns, and the mutex is granted to  *)
(* each call that keeps asking for it (sync.Mutex has a starvation mode):  *)
(* only there does a call that has a slot wait for another one.            *)
ProgramFairSpec ==
    /\ ProgramInit /\ [][ProgramNext]_programVars
    /\ \A c \in Calls : SF_programVars(Serve /\ RunLoadTask(c))
=============================================================================
