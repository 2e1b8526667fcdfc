----------------------------- MODULE AgentMain ------------------------------
(***************************************************************************)
(* The agent's process (main.go): a command runs in it, with the           *)
(* statistics goroutine (StatsLoop) beside it.  SIGINT or SIGTERM cancels  *)
(* the context and prepares the forced exit; when the context is done      *)
(* already, by a signal or by the idle timer, it ends the process at once. *)
(*                                                                         *)
(* The modules of the commands extend this one, and say what becomes of    *)
(* their own state and of the statistics when the process is gone.         *)
(***************************************************************************)
EXTENDS StatsLoop

CONSTANT MaxSignals   \* bound: signals sent

VARIABLES
    main,      \* where the main goroutine is in its command, or "exited"
    code,      \* the exit code, or -1
    watchdog,  \* the 15 seconds of the forced exit are running
    signals    \* bound counter

procVars == <<main, code, watchdog, signals>>

ProcInit(place) ==
    /\ main = place
    /\ code = -1
    /\ watchdog = FALSE
    /\ signals = 0

Running == main # "exited"

(* os.Exit, or a panic. *)
Exit(c) ==
    /\ main' = "exited"
    /\ code' = c
    /\ watchdog' = FALSE

SignalArrives ==
    /\ Running
    /\ signals < MaxSignals
    /\ signals' = signals + 1

(* "Shutting down", and 15 seconds to go. *)
FirstSignal ==
    /\ SignalArrives
    /\ ~Cancelled
    /\ CancelBy("signal")
    /\ watchdog' = TRUE
    /\ UNCHANGED <<loop, currentOps, timeout, idle, timer, statsChan, closed, main, code>>

SignalAgain ==
    /\ SignalArrives
    /\ Cancelled
    /\ Exit(1)

(* 15 seconds after the signal: os.Exit(1). *)
TimeIsUp ==
    /\ watchdog
    /\ Exit(1)
    /\ UNCHANGED signals

(* statsShutdown.Wait() returns: os.Exit(0), as the cause of the context   *)
(* is context.Canceled whoever cancelled it.                               *)
MainEnds ==
    /\ main = "stopping"
    /\ loop = "exited"
    /\ Exit(0)
    /\ UNCHANGED signals

(* A goroutine reports on the statistics channel. *)
SendOnly(e) ==
    /\ Send(e)
    /\ UNCHANGED <<loop, currentOps, timeout, idle, timer, ctx, closed>>
=============================================================================
