------------------------------ MODULE DataTools ------------------------------
(***************************************************************************)
(* The data commands of the load test (examples/risk/loadtest/src):        *)
(* writedata writes files of random bytes and readdata reads the files of  *)
(* a directory (generate.go), each with a pool of workers that counts      *)
(* operations and bytes (utils.go ApplyParallelWithStats, WriteBytes,      *)
(* ReadBytes).  Sizes are in buffers of bufferSize.                        *)
(*                                                                         *)
(* The pool is the load test's copy of ApplyParallel: the same dispatcher, *)
(* over a sequence that gives no errors, with a channel that buffers as    *)
(* many results as there are workers, so that err_ch is the buffer and     *)
(* nobody blocks in a send.                                                *)
(***************************************************************************)
EXTENDS Integers, Sequences, FiniteSetsExt

CONSTANTS
    MaxItems,   \* --count, or how many files the directory holds
    Workers,    \* --parallel
    NumCPU,     \* runtime.NumCPU()
    Buffers     \* --size, in buffers

ASSUME DataAssumption ==
    /\ MaxItems \in Nat
    /\ Workers \in Int
    /\ NumCPU \in Nat \ {0}
    /\ Buffers \in Nat

VARIABLES
    pc, yielded, working, err, task, err_ch, firstFail, overrun, \* the pool
    tool,       \* "writedata" or "readdata"
    gcs,        \* the directory begins with gs://
    ready,      \* the directory is made, or its files are listed
    fileOp,     \* per file, in WriteBytes or ReadBytes: "open", "moving", "ok" or "failed"
    moved,      \* per file: buffers this command has written or read
    stored,     \* per file: buffers found under its name, or Absent
    counted,    \* the files added to the counters ops and work
    work,       \* the counter work
    statistics, \* the log line: None, or the counters it shows
    code        \* the exit code, or Running

poolVars == <<pc, yielded, working, err, task, err_ch, firstFail, overrun>>
opVars   == <<fileOp, moved, stored, counted, work>>
dataVars == <<poolVars, opVars, tool, gcs, ready, statistics, code>>

Pool == INSTANCE ApplyParallel

Absent  == -1
Running == -1
NoLog   == [count |-> -1, total |-> -1]

(* The files readdata finds are whole, or what a failed writedata left. *)
DataInit ==
    /\ Pool!Init
    /\ tool \in {"writedata", "readdata"}
    /\ gcs \in BOOLEAN
    /\ ready = FALSE
    /\ fileOp = [i \in Pool!Items |-> "open"]
    /\ moved = [i \in Pool!Items |-> 0]
    /\ IF tool = "writedata"
       THEN stored = [i \in Pool!Items |-> Absent]
       ELSE stored \in [Pool!Items -> IF gcs THEN {Buffers} ELSE 0..Buffers]
    /\ counted = {}
    /\ work = 0
    /\ statistics = NoLog
    /\ code = Running

(* MkdirAll, or WalkDirFiles over the directory, succeeds or fails. *)
Prepare ==
    /\ ~ready /\ code = Running
    /\ \/ ready' = TRUE /\ UNCHANGED code
       \/ code' = 1 /\ UNCHANGED ready
    /\ UNCHANGED <<poolVars, opVars, tool, gcs, statistics>>

(* The dispatcher of the pool, over all the files. *)
Dispatcher ==
    /\ ready
    /\ \/ Pool!YieldValue
       \/ yielded = MaxItems /\ Pool!SeqEnds
       \/ Pool!Dispatch
       \/ Pool!ReceiveAtLimit
       \/ Pool!ReceiveInDrain
       \/ Pool!Return
    /\ UNCHANGED <<opVars, tool, gcs, ready, statistics, code>>

(* slog.Info("statistics", ...), and the error of the pool ends the process. *)
LogStatistics ==
    /\ pc = "returned" /\ code = Running
    /\ statistics' = [count |-> Cardinality(counted), total |-> work]
    /\ code' = IF err = Pool!NoErr THEN 0 ELSE 1
    /\ UNCHANGED <<poolVars, opVars, tool, gcs, ready>>
-----------------------------------------------------------------------------
InOp(i, at) == task[i] = "running" /\ fileOp[i] = at

OpGoes(i, at) == fileOp' = [fileOp EXCEPT ![i] = at]

OnlyOp == UNCHANGED <<poolVars, counted, work, tool, gcs, ready, statistics, code>>

Writes == tool = "writedata"

FileSize(i) == IF Writes THEN Buffers ELSE stored[i]

(* os.Create makes an empty file; an object does not exist until Close. *)
Open(i) ==
    /\ InOp(i, "open")
    /\ \/ OpGoes(i, "moving") /\ stored' = [stored EXCEPT ![i] = IF Writes /\ ~gcs THEN 0 ELSE @]
       \/ OpGoes(i, "failed") /\ UNCHANGED stored
    /\ UNCHANGED moved
    /\ OnlyOp

MoveBuffer(i) ==
    /\ InOp(i, "moving")
    /\ moved[i] < FileSize(i)
    /\ moved' = [moved EXCEPT ![i] = @ + 1]
    /\ stored' = [stored EXCEPT ![i] = IF Writes /\ ~gcs THEN @ + 1 ELSE @]
    /\ UNCHANGED fileOp
    /\ OnlyOp

(* Mutant: the writer is closed on the way out (defer f.Close()). *)
MoveFailsAndCloses(i) ==
    /\ InOp(i, "moving")
    /\ OpGoes(i, "failed")
    /\ stored' = [stored EXCEPT ![i] = IF Writes THEN moved[i] ELSE @]
    /\ UNCHANGED moved
    /\ OnlyOp

(* The random bytes, the write or the read fails: the file is not closed. *)
MoveFails(i) ==
    /\ InOp(i, "moving")
    /\ OpGoes(i, "failed")
    /\ UNCHANGED <<moved, stored>>
    /\ OnlyOp

(* Close: an object comes into being, or with an error it does not and a   *)
(* local file may lack what was written late.                              *)
Close(i) ==
    /\ InOp(i, "moving")
    /\ moved[i] = FileSize(i)
    /\ \/ OpGoes(i, "ok") /\ stored' = [stored EXCEPT ![i] = moved[i]]
       \/ /\ OpGoes(i, "failed")
          /\ \E kept \in 0..moved[i] :
                stored' = [stored EXCEPT ![i] = IF Writes /\ ~gcs THEN kept ELSE @]
    /\ UNCHANGED moved
    /\ OnlyOp

(* work.Add(thiswork); ops.Add(1), with an error as well. *)
Counted(i) ==
    /\ task[i] # "new" /\ fileOp[i] \in {"ok", "failed"} /\ i \notin counted
    /\ counted' = counted \cup {i}
    /\ work' = work + moved[i]
    /\ UNCHANGED <<poolVars, fileOp, moved, stored, tool, gcs, ready, statistics, code>>

(* Mutant: the result is sent before the counters are raised. *)
SendResultUncounted(i) ==
    /\ fileOp[i] \in {"ok", "failed"}
    /\ Pool!WorkReturns(i, fileOp[i])
    /\ UNCHANGED <<opVars, tool, gcs, ready, statistics, code>>

(* err_ch <- work(v): the counters have been raised by then. *)
SendResult(i) ==
    /\ i \in counted
    /\ Pool!WorkReturns(i, fileOp[i])
    /\ UNCHANGED <<opVars, tool, gcs, ready, statistics, code>>

FileStep(i) ==
    \/ Open(i)
    \/ MoveBuffer(i)
    \/ MoveFails(i)
    \/ Close(i)
    \/ Counted(i)
    \/ SendResult(i)

DataNext ==
    \/ Prepare
    \/ Dispatcher
    \/ \E i \in Pool!Items : FileStep(i)
    \/ LogStatistics

DataSpec == DataInit /\ [][DataNext]_dataVars
-----------------------------------------------------------------------------
(* An object of the data set is whole or not there, at every moment and    *)
(* whatever fails: what a later readdata, or a task of the load test, finds*)
(* in a bucket is never a part of a file.                                  *)
ObjectsAreAtomic ==
    gcs => \A i \in Pool!Items : stored[i] \in {Absent, Buffers}

(* The statistics and the exit code tell the same: the log counts every    *)
(* file that was started, with what was moved for the failed ones, and is  *)
(* not overtaken by a worker; and with exit code 0 each file was written   *)
(* and closed, or read to its end.                                         *)
TotalsAreFinal ==
    statistics # NoLog =>
        /\ statistics.count = Cardinality({i \in Pool!Items : task[i] # "new"})
        /\ statistics.total = MapThenSumSet(LAMBDA i : moved[i], Pool!Items)
        /\ code = 0 =>
              /\ statistics.count = MaxItems
              /\ \A i \in Pool!Items : moved[i] = FileSize(i) /\ stored[i] = moved[i]
=============================================================================
