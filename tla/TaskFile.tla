------------------------------ MODULE TaskFile ------------------------------
(***************************************************************************)
(* The task file of a load test (examples/risk/loadtest/src): gentasks     *)
(* (generate.go) writes one task per line with WriteLines (utils.go), and  *)
(* load (main.go) reads the lines back with ReadLines and runs each task.  *)
(* The file is new, has a local path or is an object (gs://), and may be   *)
(* compressed.  What reaches it is settled when its writer is closed: the  *)
(* loss of a late write, on a mounted bucket for example, is only reported *)
(* by Close, and an object does not exist before.                          *)
(***************************************************************************)
EXTENDS Integers

CONSTANTS
    Count,         \* --count, the number of tasks to make
    PayloadFails   \* whether making a task's payload or JSON may fail

ASSUME CountAssumption == Count \in Nat /\ PayloadFails \in BOOLEAN

Compressions == {"plain", "gzip"}
Stores       == {"local", "object"}
Tails        == {"none", "torn", "unterminated"}

VARIABLES
    compression, \* the name ends in .gz, or not
    store,       \* the name begins with gs://, or not
    longLines,   \* a line is longer than bufio.MaxScanTokenSize
    gen,         \* gentasks: "make", "text", "newline", "close" or "exited"
    made,        \* how many tasks the sequence data has yielded
    written,     \* how many lines were handed to the writer, line feed included
    tail,        \* what a failed write left behind the last line
    genCode,     \* the exit code of gentasks
    file,        \* what is found under the name: None, or its contents
    load,        \* load: "waiting", "scan", "run" or "exited"
    scanned,     \* lines the scanner has given
    tasksRun,    \* tasks that RunLoadTask has run without an error
    loadCode     \* the exit code of load

taskFileVars == <<compression, store, longLines, gen, made, written, tail, genCode,
                  file, load, scanned, tasksRun, loadCode>>

genVars  == <<gen, made, written, tail, genCode, file>>
loadVars == <<load, scanned, tasksRun, loadCode>>
kind     == <<compression, store, longLines>>

None == [lines |-> 0, tail |-> "absent", ended |-> FALSE]

TasksInit ==
    /\ compression \in Compressions
    /\ store \in Stores
    /\ longLines \in BOOLEAN
    /\ gen = "make"
    /\ made = 0
    /\ written = 0
    /\ tail = "none"
    /\ genCode = 0
    /\ file = None
    /\ load = "waiting"
    /\ scanned = 0
    /\ tasksRun = 0
    /\ loadCode = 0
-----------------------------------------------------------------------------
(* gentasks: MkdirAll or CreateWriter fails, before the first task. *)
CreateFails ==
    /\ gen = "make"
    /\ made = 0
    /\ gen' = "exited"
    /\ genCode' = 1
    /\ UNCHANGED <<made, written, tail, file, loadVars, kind>>

(* The sequence data yields the JSON of the next task. *)
MakeTask ==
    /\ gen = "make"
    /\ made < Count
    /\ made' = made + 1
    /\ gen' = "text"
    /\ UNCHANGED <<written, tail, genCode, file, loadVars, kind>>

(* All tasks are made; or one cannot be, which is logged and ends the data. *)
DataEnds ==
    /\ gen = "make"
    /\ made = Count \/ PayloadFails
    /\ gen' = "close"
    /\ UNCHANGED <<made, written, tail, genCode, file, loadVars, kind>>

(* w.Write([]byte(line)) and then w.Write([]byte("\n")). *)
WriteText ==
    /\ gen = "text"
    /\ gen' = "newline"
    /\ UNCHANGED <<made, written, tail, genCode, file, loadVars, kind>>

WriteNewline ==
    /\ gen = "newline"
    /\ written' = written + 1
    /\ gen' = "make"
    /\ UNCHANGED <<made, tail, genCode, file, loadVars, kind>>

(* A write fails: WriteLines returns the error, and its defers run. *)
WriteFails ==
    /\ gen \in {"text", "newline"}
    /\ tail' \in IF gen = "text" THEN {"none", "torn"} ELSE {"unterminated"}
    /\ genCode' = 1
    /\ gen' = "close"
    /\ UNCHANGED <<made, written, file, loadVars, kind>>

(* All that was written is found under the name. *)
Whole == [lines |-> written, tail |-> "none", ended |-> TRUE]

(* Any first part of what was written. *)
FirstPart ==
    {f \in [lines : 0..written, tail : Tails, ended : {compression = "plain"}] :
        f.lines = written =>
            /\ tail = "none" => f.tail = "none"
            /\ f.tail = "unterminated" => tail = "unterminated"}

(* What a failure leaves: of an object nothing, of compressed lines any    *)
(* first part, and of plain lines what was written, or less if the Close   *)
(* fails too.                                                              *)
Remains(closed) ==
    IF store = "object" THEN {None}
    ELSE IF closed /\ compression = "plain"
         THEN {[lines |-> written, tail |-> tail, ended |-> TRUE]}
         ELSE FirstPart

(* The deferred Close of the gzip writer and of the file: an error is only *)
(* printed, and the exit code is that of the writes.                       *)
CloseOutput ==
    /\ gen = "close"
    /\ file' \in (IF genCode = 0 THEN {Whole} ELSE Remains(TRUE)) \cup Remains(FALSE)
    /\ gen' = "exited"
    /\ UNCHANGED <<made, written, tail, genCode, loadVars, kind>>

GenTasks ==
    \/ CreateFails
    \/ MakeTask
    \/ DataEnds
    \/ WriteText
    \/ WriteNewline
    \/ WriteFails
    \/ CloseOutput
-----------------------------------------------------------------------------
LoadFails ==
    /\ load' = "exited"
    /\ loadCode' = 1
    /\ UNCHANGED <<scanned, tasksRun, genVars, kind>>

(* load, after gentasks: OpenReader succeeds, and the header of a .gz, if  *)
(* it is all there.                                                        *)
OpenInput ==
    /\ load = "waiting"
    /\ gen = "exited"
    /\ file # None
    /\ load' = "scan"
    /\ UNCHANGED <<scanned, tasksRun, loadCode, genVars, kind>>

(* There is no such file, or it cannot be opened, or has not even a header. *)
OpenFails ==
    /\ load = "waiting"
    /\ gen = "exited"
    /\ LoadFails

(* The scanner gives the next line, or what is left behind the last one. *)
Tokens == file.lines + (IF file.tail = "unterminated" THEN 1 ELSE 0)

ScanLine ==
    /\ load = "scan"
    /\ scanned < Tokens
    /\ ~longLines
    /\ scanned' = scanned + 1
    /\ load' = "run"
    /\ UNCHANGED <<tasksRun, loadCode, genVars, kind>>

(* A torn line is given as well and is not JSON; a line above 64 KiB is     *)
(* bufio.ErrTooLong; a read may fail at any time.                           *)
ScanFails ==
    /\ load = "scan"
    /\ LoadFails

(* Mutant: scanner.Err() is not looked at. *)
ScanEndsUnchecked ==
    /\ load = "scan"
    /\ scanned = Tokens
    /\ file.tail # "torn"
    /\ load' = "exited"
    /\ UNCHANGED <<scanned, tasksRun, loadCode, genVars, kind>>

(* Scan gives no more and scanner.Err() is nil: the end of the file, which *)
(* compressed lines only have if the gzip writer was closed.               *)
ScanEnds ==
    /\ load = "scan"
    /\ scanned = Tokens
    /\ file.tail # "torn"
    /\ file.ended
    /\ load' = "exited"
    /\ UNCHANGED <<scanned, tasksRun, loadCode, genVars, kind>>

(* RunLoadTask succeeds; its response is written to the standard output,   *)
(* with a warning if that fails.                                           *)
RunTask ==
    /\ load = "run"
    /\ tasksRun' = tasksRun + 1
    /\ load' = "scan"
    /\ UNCHANGED <<scanned, loadCode, genVars, kind>>

(* It returns an error, or the work was made to crash (os.Exit(100)). *)
RunTaskFails ==
    /\ load = "run"
    /\ load' = "exited"
    /\ loadCode' \in {1, 100}
    /\ UNCHANGED <<scanned, tasksRun, genVars, kind>>

Load ==
    \/ OpenInput
    \/ OpenFails
    \/ ScanLine
    \/ ScanFails
    \/ ScanEnds
    \/ RunTask
    \/ RunTaskFails

TasksNext == GenTasks \/ Load

TasksSpec == TasksInit /\ [][TasksNext]_taskFileVars
-----------------------------------------------------------------------------
(* A load that ends well has run every task that gentasks made, whatever   *)
(* failed there and whether its exit code says so: a compressed file and   *)
(* an object are whole or refused.  Only a plain local file can lose its   *)
(* last lines without a trace.                                             *)
LoadedIsWhole ==
    load = "exited" /\ loadCode = 0 =>
        \/ tasksRun = made
        \/ /\ compression = "plain" /\ store = "local"
           /\ tasksRun <= made

(* "Count of records created" (generate.go:219): what gentasks leaves when *)
(* it reports success.                                                     *)
CountIsCreated ==
    gen = "exited" /\ genCode = 0 => file.lines = Count
=============================================================================
