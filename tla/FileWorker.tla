----------------------------- MODULE FileWorker -----------------------------
(***************************************************************************)
(* The agent on files (serve/file.go): the lines of one file are decoded,  *)
(* sent to the worker one by one, and the answers written to another, as   *)
(* nested iterators of one goroutine (protoio/io.go) over readers and      *)
(* writers of local files and storage objects, compressed or not           *)
(* (gcp/storage.go).  Tasks are reported to the statistics goroutine       *)
(* (StatsLoop); a signal cancels the context of all of them.  Before, the  *)
(* command connects to the worker (Backend).                               *)
(*                                                                         *)
(* The iterators run innermost first: WriteLines asks for an answer, which *)
(* makes the command's loop ask for a message, which makes ReadLines read. *)
(* The file systems are external: an object appears as a whole, when its   *)
(* writer is closed, a local file as it is written; what gzip lets through *)
(* before it is closed counts as nothing.                                  *)
(***************************************************************************)
EXTENDS AgentMain, Backend

CONSTANTS
    Worker,        \* the goroutine of the command
    SrcId,         \* the id of every task
    MaxLines       \* bound: lines of the input

ASSUME FileAssumption ==
    /\ Worker \in Callers
    /\ SrcId \in TaskIds
    /\ MaxLines \in Nat

NoErr  == "none"
NoLine == 0       \* the nil message that comes with an error

(* What is found under the name of the output: answers, by line, and       *)
(* whether it ends where an answer ends.                                   *)
Content(answers, whole) == [lines |-> answers, whole |-> whole]
NothingNew == Content(<<>>, FALSE)   \* nothing of this run

VARIABLES
    lines,     \* the input's lines; what follows the last line feed is never read
    gz,        \* the output is compressed
    remote,    \* the output is an object
    linesRead, \* lines read
    hand,      \* the line being worked on, or NoLine
    out,       \* the answers written to the writer
    torn,      \* the last of them is incomplete
    broken,    \* a write has failed
    stored,    \* what is found under the name of the output
    retErr     \* the error of the command

inputVars == <<lines, gz, remote>>
fileVars == <<inputVars, backendVars>>
streamVars == <<linesRead, hand, out, torn, broken, stored, retErr>>
vars == <<statsVars, procVars, fileVars, streamVars>>

FileInit ==
    /\ BackendInit
    /\ lines \in 0..MaxLines
    /\ gz \in BOOLEAN
    /\ remote \in BOOLEAN
    /\ linesRead = 0
    /\ hand = NoLine
    /\ out = <<>>
    /\ torn = FALSE
    /\ broken = FALSE
    /\ stored = NothingNew
    /\ retErr = NoErr

(* main is where the worker is, and then "stopping". *)
Init == StatsInit /\ ProcInit("connect") /\ FileInit

Goto(place) == main' = place /\ UNCHANGED <<code, watchdog, signals>>

Report(op) == SendOnly(Event(Worker, op, SrcId))

(* WriteLines returns e, and its writer is closed. *)
Fail(e) == retErr' = e /\ Goto("close")

(* The command's loop takes a message and calls the invoker: StartTask.    *)
(* Its range clause drops the error: the invoker is called with nothing.   *)
Process(line) ==
    /\ hand' = line
    /\ Goto("starting")
    /\ Report("start")
-----------------------------------------------------------------------------
(* The client, and the deadline, as long as the command connects. *)
ClientChanges ==
    /\ main \in {"connect", "await", "reflect"}
    /\ ConnectionChanges(main = "reflect")
    /\ UNCHANGED <<statsVars, procVars, inputVars, streamVars>>

DeadlinePasses ==
    /\ main \in {"connect", "await"}
    /\ Deadline
    /\ UNCHANGED <<statsVars, procVars, inputVars, streamVars>>

Connects(next) ==
    /\ Goto(next)
    /\ UNCHANGED <<statsVars, inputVars, streamVars>>

ConnectFails ==
    /\ retErr' = "connect"
    /\ Goto("returned")
    /\ UNCHANGED <<statsVars, inputVars, linesRead, hand, out, torn, broken, stored>>

(* connect: the endpoint is not one of a service, or no client is made. *)
NoClient ==
    /\ main = "connect"
    /\ currState = Unseen
    /\ Forgets
    /\ ConnectFails

GetState ==
    /\ main = "connect"
    /\ \/ IsConnected /\ Connects("reflect")
       \/ LooksAt /\ Connects("await")

StateChanged == main = "await" /\ SeesChange /\ Connects("connect")

ConnectTimesOut == main = "await" /\ GivesUp(Cancelled) /\ ConnectFails

(* GetProtoInvoker and ReadProtoInput ask for the types of the method. *)
Reflect ==
    /\ main = "reflect"
    /\ \/ Resolves(Cancelled) /\ Connects("create")
       \/ ResolveFails(Cancelled) /\ ConnectFails

(* The writer is made, or not.  os.Create empties a file at once.          *)
CreateWriter ==
    /\ main = "create"
    /\ \/ /\ retErr' = "create"
          /\ Goto("returned")
          /\ UNCHANGED stored
       \/ /\ Goto("open")
          /\ stored' = IF remote THEN stored ELSE Content(<<>>, ~gz)
          /\ UNCHANGED retErr
    /\ UNCHANGED <<statsVars, fileVars, linesRead, hand, out, torn, broken>>

OpenReader ==
    /\ main = "open"
    /\ \/ Goto("read") /\ UNCHANGED <<statsVars, hand>>
       \/ Process(NoLine)
    /\ UNCHANGED <<fileVars, linesRead, out, torn, broken, stored, retErr>>

(* JSONToProto: a message, or an error. *)
Decode(line) == Process(line) \/ Process(NoLine)

(* ReadString gives a line or an error. *)
ReadLine ==
    /\ main = "read"
    /\ ~Cancelled
    /\ \/ /\ linesRead < lines
          /\ linesRead' = linesRead + 1
          /\ Decode(linesRead + 1)
       \/ Process(NoLine) /\ UNCHANGED linesRead
    /\ UNCHANGED <<fileVars, out, torn, broken, stored, retErr>>

(* io.EOF, or the context is done: ReadLines ends without an error. *)
ReadEnds ==
    /\ main = "read"
    /\ linesRead = lines \/ Cancelled
    /\ Goto("end")
    /\ UNCHANGED <<statsVars, fileVars, streamVars>>

StartTaskReturns ==
    /\ main = "starting"
    /\ ~InSend(Worker)
    /\ Goto("invoke")
    /\ UNCHANGED <<statsVars, fileVars, streamVars>>

(* client.Invoke and DoneTask.  gRPC sends a nil message as an empty one,  *)
(* without an error, which the backend may answer as any other.            *)
InvokeReturns(result) ==
    /\ main = "invoke"
    /\ Goto(result)
    /\ Report("done")
    /\ UNCHANGED <<fileVars, streamVars>>

(* Mutant: WriteLines goes on after an error. *)
AnswerArrivesOrIsSkipped ==
    /\ main \in {"answer", "error"}
    /\ ~InSend(Worker)
    /\ IF Cancelled THEN Fail("cancelled")
       ELSE Goto(IF main = "answer" THEN "write" ELSE "read") /\ UNCHANGED retErr
    /\ UNCHANGED <<statsVars, fileVars, linesRead, hand, out, torn, broken, stored>>

(* The invoker has returned; an answer is encoded, or cannot be.  The body *)
(* of WriteLines' loop looks at the context first, then at the error.      *)
AnswerArrives ==
    /\ main \in {"answer", "error"}
    /\ ~InSend(Worker)
    /\ IF Cancelled THEN Fail("cancelled")
       ELSE \/ main = "answer" /\ Goto("write") /\ UNCHANGED retErr
            \/ Fail("source")
    /\ UNCHANGED <<statsVars, fileVars, linesRead, hand, out, torn, broken, stored>>

(* w.Write: the answer and then its line feed.  A plain local file has     *)
(* them at once.  The input has ended with the error it gave.              *)
Written(answers, isTorn) ==
    /\ out' = answers
    /\ torn' = isTorn
    /\ stored' = IF gz \/ remote THEN stored ELSE Content(answers, ~isTorn)

WriteFails ==
    /\ main \in {"write", "newline"}
    /\ \E part \in BOOLEAN : Written(out, torn \/ part)
    /\ broken' = TRUE
    /\ Fail("write")
    /\ UNCHANGED <<statsVars, fileVars, linesRead, hand>>

Write ==
    /\ \/ main = "write" /\ Written(Append(out, hand), TRUE) /\ Goto("newline")
       \/ /\ main = "newline" /\ Written(out, FALSE)
          /\ Goto(IF hand = NoLine THEN "end" ELSE "read")
    /\ UNCHANGED <<statsVars, fileVars, linesRead, hand, broken, retErr>>

(* Mutant: the context is not looked at after the loop. *)
LoopEndsUnchecked ==
    /\ main = "end"
    /\ Fail(NoErr)
    /\ UNCHANGED <<statsVars, fileVars, linesRead, hand, out, torn, broken, stored>>

(* The end of WriteLines. *)
StreamEnds ==
    /\ main = "end"
    /\ Fail(IF Cancelled THEN "cancelled" ELSE NoErr)
    /\ UNCHANGED <<statsVars, fileVars, linesRead, hand, out, torn, broken, stored>>

(* What may be stored once the writer is closed: all that was written, if  *)
(* gzip could flush it, or else some of it.                                *)
Parts == {Content(SubSeq(out, 1, k), FALSE) : k \in 0..Len(out)}
Flushed(gzOk) == IF gzOk THEN {Content(out, ~torn)} ELSE Parts

(* Mutant: an error of Close replaces the one there was. *)
CloseWriterMasks ==
    /\ main = "close"
    /\ \E gzOk, writerOk \in BOOLEAN :
         /\ retErr' = IF gzOk /\ writerOk THEN retErr ELSE "close"
         /\ stored' \in IF writerOk THEN Flushed(gzOk)
                        ELSE IF remote THEN {stored} \cup Flushed(gzOk)
                        ELSE Parts \cup Flushed(gzOk)
    /\ Goto("returned")
    /\ UNCHANGED <<statsVars, fileVars, linesRead, hand, out, torn, broken>>

(* gzipWriteWrapper.Close closes both and returns the first error, which   *)
(* only counts if there was none before.  A failed write is remembered by  *)
(* gzip and by an object's writer, which also needs the context; a close   *)
(* that fails may have stored an object all the same.                      *)
CloseWriter ==
    /\ main = "close"
    /\ \E gzOk, writerOk \in BOOLEAN :
         /\ gzOk \/ gz
         /\ gz /\ broken => ~gzOk
         /\ remote /\ (broken \/ Cancelled) => ~writerOk
         /\ retErr' = IF retErr # NoErr \/ (gzOk /\ writerOk) THEN retErr ELSE "close"
         /\ stored' \in IF writerOk THEN Flushed(gzOk)
                        ELSE IF remote THEN {stored} \cup Flushed(gzOk)
                        ELSE Parts \cup Flushed(gzOk)
    /\ Goto("returned")
    /\ UNCHANGED <<statsVars, fileVars, linesRead, hand, out, torn, broken>>
-----------------------------------------------------------------------------
ExitOnError ==
    /\ main = "returned"
    /\ retErr # NoErr
    /\ Exit(1)
    /\ UNCHANGED <<statsVars, signals, fileVars, streamVars>>

(* statsCfg.Stop() *)
Stop ==
    /\ main = "returned"
    /\ retErr = NoErr
    /\ CloseChannel
    /\ Goto("stopping")
    /\ UNCHANGED <<fileVars, streamVars>>

ExitNormally == MainEnds /\ UNCHANGED <<statsVars, fileVars, streamVars>>

(* Mutant: the forced exit is not armed. *)
SignalNoWatchdog ==
    /\ SignalArrives
    /\ CancelBy("signal")
    /\ UNCHANGED <<loop, currentOps, timeout, idle, timer, statsChan, closed, main, code, watchdog>>
    /\ UNCHANGED <<fileVars, streamVars>>

Signal ==
    /\ FirstSignal \/ (SignalAgain /\ UNCHANGED statsVars)
    /\ UNCHANGED <<fileVars, streamVars>>

ForcedExit == TimeIsUp /\ UNCHANGED <<statsVars, fileVars, streamVars>>

StatsStep(A) ==
    /\ Running
    /\ A
    /\ UNCHANGED <<procVars, fileVars, streamVars>>

WorkerStep ==
    \/ NoClient
    \/ GetState
    \/ StateChanged
    \/ ConnectTimesOut
    \/ Reflect
    \/ CreateWriter
    \/ OpenReader
    \/ ReadLine
    \/ ReadEnds
    \/ StartTaskReturns
    \/ InvokeReturns("answer")
    \/ InvokeReturns("error")
    \/ AnswerArrives
    \/ WriteFails
    \/ Write
    \/ StreamEnds
    \/ CloseWriter
    \/ ExitOnError
    \/ Stop
    \/ ExitNormally

Next ==
    \/ StatsStep(Loop)
    \/ ClientChanges
    \/ DeadlinePasses
    \/ WorkerStep
    \/ Signal
    \/ ForcedExit

Spec == Init /\ [][Next]_vars
-----------------------------------------------------------------------------
(* The last answer is that to the empty message of an input's error. *)
Dropped(answers) == answers # <<>> /\ answers[Len(answers)] = NoLine

InOrder(answers) ==
    \A k \in 1..Len(answers) :
        answers[k] = k \/ (k = Len(answers) /\ Dropped(answers))

(* The answers of all lines, or, of an input with an error, those of the   *)
(* lines before it and one to the empty message.                           *)
Accounted(answers) ==
    /\ InOrder(answers)
    /\ IF Dropped(answers) THEN Len(answers) \in linesRead..linesRead + 1
       ELSE Len(answers) = lines

(* A command that returns nil has stored the answer of every line, in      *)
(* order and whole, whatever was cancelled or was only noticed in closing; *)
(* but for the error of an input that the loop drops (file.go:46): there   *)
(* it has those of every line before the error, and then the answer to an  *)
(* empty message.                                                          *)
SuccessIsAccountedFor ==
    main = "returned" /\ retErr = NoErr => stored.whole /\ Accounted(stored.lines)

(* Whatever the exit, what is found under the output's name are the        *)
(* answers of the first lines, none of them skipped, twice or out of       *)
(* order; only the last may be torn, or the answer to an empty message.    *)
AnswersInOrder == InOrder(stored.lines)

(* "The agent will read from a JSONL file, dispatch each line into gRPC,   *)
(* and write the results into a JSONL output file" (agent/README.md:58):   *)
(* when it exits with code 0 the output has the answers of the lines of    *)
(* the input, and of all of them.                                          *)
SuccessIsComplete ==
    code = 0 => /\ Len(stored.lines) = lines
                /\ \A k \in 1..lines : stored.lines[k] = k

(* "Additionally failed to close writer after a primary write error"       *)
(* (io.go:75): the first error is the one reported.                        *)
FirstErrorKept == [][retErr # NoErr => retErr' = retErr]_vars

(* "Start monitoring for a forceful shutdown in the background"            *)
(* (main.go:66): the process ends, also when a signal leaves the worker    *)
(* blocked in a report that nobody receives any more.                      *)
FileEnds == (main = "connect") ~> ~Running
=============================================================================
