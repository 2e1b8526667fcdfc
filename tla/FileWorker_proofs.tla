-------------------------- MODULE FileWorker_proofs --------------------------
(***************************************************************************)
(* Proofs about FileWorker: for every input, kind of output and number of  *)
(* signals, exit code 0 means an output with the answers of all lines, or  *)
(* of those before the error of the input; any exit leaves answers in      *)
(* order, and the first error is kept.  At the end, the process with its   *)
(* commands (AgentCommands).                                               *)
(***************************************************************************)
EXTENDS AgentCommands, TLAPS

Connecting == {"connect", "await", "reflect"}

Places == Connecting \cup {"create", "open", "read", "starting", "invoke", "answer", "error",
           "write", "newline", "end", "close", "returned", "stopping", "exited"}

Answers == Seq(Nat)

Types ==
    /\ lines \in Nat
    /\ main \in Places
    /\ linesRead \in Nat
    /\ hand \in Nat
    /\ out \in Answers
    /\ stored.lines \in Answers
    /\ retErr \in {NoErr, "connect", "create", "cancelled", "source", "write", "close"}
    /\ code \in {-1, 0, 1}

(* Before the first line nothing is written. *)
Untouched ==
    main \in Connecting \cup {"create", "open"} => out = <<>> /\ linesRead = 0 /\ hand = NoLine

(* Where no error has been returned yet. *)
NoErrorYet == main \notin {"close", "returned", "stopping", "exited"} => retErr = NoErr

(* While the input goes on, the answers are those of lines. *)
Plain(answers) == \A k \in 1..Len(answers) : answers[k] = k
GoesOn == main \in Connecting \cup {"create", "open", "read", "starting", "invoke", "answer",
                                   "error", "write"} => Plain(out)

(* The input has given an error, and the empty message was answered: after *)
(* the answers of the lines before it, the last of which may be the error. *)
AfterError(answers) ==
    InOrder(answers) /\ Dropped(answers) /\ Len(answers) \in linesRead..linesRead + 1

(* Between two lines every line read has its answer, and the answer its    *)
(* line feed.                                                              *)
Between ==
    /\ main = "read" => Len(out) = linesRead
    /\ main = "newline" =>
          IF hand = NoLine THEN AfterError(out) ELSE Plain(out) /\ Len(out) = linesRead
Whole == main \in Connecting \cup {"create", "open", "read", "starting", "invoke", "answer",
                                  "error", "write", "end"} => ~torn

(* From the report of a task to the write, a message that was decoded is   *)
(* the line read last, and every line before it has its answer; so has     *)
(* every line before an error, which may be that of the line read last.    *)
InHand ==
    main \in {"starting", "invoke", "answer", "error", "write"} =>
        IF hand # NoLine THEN hand = linesRead /\ linesRead = Len(out) + 1
        ELSE Len(out) + 1 \in linesRead..linesRead + 1

(* The input ends with all lines read, with the context or with an error.  *)
(* Without an error of the command all it owes is written before the       *)
(* writer is closed, and stored afterwards.                                *)
InputEnds ==
    main = "end" =>
        \/ AfterError(out)
        \/ Plain(out) /\ Len(out) = linesRead /\ (linesRead = lines \/ Cancelled)
Written_  == main = "close" /\ retErr = NoErr => Accounted(out) /\ ~torn
Complete  == Accounted(stored.lines) /\ stored.whole
Stored_   == main \in {"returned", "stopping"} /\ retErr = NoErr => Complete

StreamInv == Untouched /\ NoErrorYet /\ GoesOn /\ Between /\ Whole /\ InHand
EndInv    == InputEnds /\ Written_ /\ Stored_

(* The exit code, and what the command returned, agree. *)
ExitInv ==
    /\ main # "exited" => code = -1
    /\ main = "stopping" => retErr = NoErr
    /\ code = 0 => Complete

IndInv == Types /\ InOrder(out) /\ AnswersInOrder /\ StreamInv /\ EndInv /\ ExitInv
-----------------------------------------------------------------------------
(* Nothing makes a cancelled context live again. *)
LEMMA CancelledStays ==
    ASSUME Cancelled, Next
    PROVE  Cancelled'
<1>1. CASE StatsStep(Loop)
  BY <1>1 DEF StatsStep, Loop, LoopEnds, SetTimer, ReceiveEvent, ReceiveClosed, ContextDone,
     LogTick, IdleTimerFires, CancelBy, Cancelled
<1>2. CASE WorkerStep
  BY <1>2 DEF WorkerStep, NoClient, GetState, StateChanged, ConnectTimesOut, Reflect,
     Connects, ConnectFails, CreateWriter, OpenReader, ReadLine, Decode, ReadEnds,
     StartTaskReturns, InvokeReturns, AnswerArrives, WriteFails, Write, StreamEnds,
     CloseWriter, ExitOnError, Stop, ExitNormally, MainEnds, CloseChannel, Process, Report,
     SendOnly,
     statsVars, Cancelled
<1>3. CASE Signal
  BY <1>3 DEF Signal, FirstSignal, SignalAgain, SignalArrives, statsVars, CancelBy, Cancelled
<1>4. CASE ForcedExit
  BY <1>4 DEF ForcedExit, TimeIsUp, statsVars, Cancelled
<1>5. CASE ClientChanges \/ DeadlinePasses
  BY <1>5 DEF ClientChanges, DeadlinePasses, statsVars, Cancelled
<1> QED BY <1>1, <1>2, <1>3, <1>4, <1>5 DEF Next

(* Answers of lines are in order, and none of them is that to an error. *)
LEMMA PlainInOrder ==
    ASSUME NEW answers \in Answers, Plain(answers)
    PROVE  InOrder(answers) /\ ~Dropped(answers)
<1>1. Len(answers) \in Nat /\ (answers # <<>> => Len(answers) \in 1..Len(answers))
  BY DEF Answers
<1> QED BY <1>1 DEF Plain, InOrder, Dropped, NoLine

(* What a writer that failed has stored is in order too. *)
LEMMA PartsInOrder ==
    ASSUME out \in Answers, InOrder(out)
    PROVE  \A c \in Parts : c.lines \in Answers /\ InOrder(c.lines)
<1> SUFFICES ASSUME NEW c \in Parts PROVE c.lines \in Answers /\ InOrder(c.lines)
  OBVIOUS
<1>0. PICK k \in 0..Len(out) : c = Content(SubSeq(out, 1, k), FALSE)
  BY DEF Parts
<1> DEFINE part == SubSeq(out, 1, k)
<1>1. c.lines = part /\ part \in Answers /\ Len(part) = k /\ Len(out) \in Nat
  BY <1>0 DEF Content, Answers
<1>2. \A j \in 1..k : part[j] = out[j]
  BY DEF Answers
<1> HIDE DEF part
<1>3. CASE k < Len(out)
  <2>1. \A j \in 1..k : part[j] = j
    BY <1>1, <1>2, <1>3 DEF InOrder
  <2> QED BY <1>1, <2>1, PlainInOrder DEF Plain
<1>4. CASE k = Len(out)
  <2>1. Dropped(out) => Dropped(part)
    <3>1. out # <<>> => k \in 1..k /\ part # <<>>
      BY <1>1, <1>4 DEF Answers
    <3> QED BY <3>1, <1>1, <1>2, <1>4 DEF Dropped
  <2>2. \A j \in 1..k : out[j] = j \/ (j = k /\ Dropped(out))
    BY <1>4 DEF InOrder
  <2>3. \A j \in 1..k : part[j] = j \/ (j = k /\ Dropped(part))
    BY <1>2, <2>1, <2>2
  <2> QED BY <1>1, <2>3 DEF InOrder
<1> QED BY <1>1, <1>3, <1>4

(* And what a writer that did not fail has stored. *)
LEMMA FlushedInOrder ==
    ASSUME out \in Answers, InOrder(out), NEW ok \in BOOLEAN
    PROVE  \A c \in Flushed(ok) : c.lines \in Answers /\ InOrder(c.lines)
  BY PartsInOrder DEF Flushed, Content

(* No answers are a sequence of answers. *)
LEMMA EmptyOut == <<>> \in Seq(Nat) /\ Len(<<>>) = 0
  OBVIOUS

(* The command starts with nothing read, written or stored. *)
LEMMA InitInv == Init => IndInv
<1> SUFFICES ASSUME Init PROVE IndInv
  OBVIOUS
<1>1. Types
  BY FileAssumption DEF Init, FileInit, ProcInit, Types, Places, Connecting, Answers,
     NothingNew, Content, NoLine
<1>2. InOrder(out) /\ AnswersInOrder
  BY DEF Init, FileInit, ProcInit, InOrder, AnswersInOrder, NothingNew, Content
<1>3. StreamInv /\ EndInv /\ ExitInv
  BY DEF Init, FileInit, ProcInit, StreamInv, Untouched, Connecting, NoErrorYet, GoesOn,
     Plain, Between, AfterError, Whole, InHand, EndInv, InputEnds, Written_, Stored_,
     ExitInv, Complete, Accounted, InOrder, Dropped
<1> QED BY <1>1, <1>2, <1>3 DEF IndInv

(* What the worker does while it connects. *)
ConnectStep == NoClient \/ GetState \/ StateChanged \/ ConnectTimesOut \/ Reflect

(* Nothing is stored before the writer is made. *)
LEMMA ConnectInv ==
    ASSUME IndInv, ClientChanges \/ DeadlinePasses \/ ConnectStep
    PROVE  IndInv'
<1>1. Types'
  BY DEF IndInv, Types, Places, Connecting, ClientChanges, DeadlinePasses, ConnectStep,
     NoClient, GetState, StateChanged, ConnectTimesOut, Reflect, Connects, ConnectFails,
     Goto, inputVars, streamVars, procVars
<1>2. InOrder(out)' /\ AnswersInOrder'
  BY DEF IndInv, AnswersInOrder, ClientChanges, DeadlinePasses, ConnectStep, NoClient,
     GetState, StateChanged, ConnectTimesOut, Reflect, Connects, ConnectFails, Goto,
     inputVars, streamVars, procVars
<1>3. StreamInv'
  BY DEF IndInv, Types, NoErr, StreamInv, Untouched, Connecting, NoErrorYet, GoesOn, Plain,
     Between, AfterError, Whole, InHand, ClientChanges, DeadlinePasses, ConnectStep,
     NoClient, GetState, StateChanged, ConnectTimesOut, Reflect, Connects, ConnectFails,
     Goto, inputVars, streamVars, procVars
<1>4. EndInv'
  BY DEF IndInv, Types, Complete, Accounted, InOrder, Dropped, NoErr, StreamInv, Untouched,
     Connecting, NoErrorYet, GoesOn, Plain, Between, AfterError, Whole, InHand, EndInv,
     InputEnds, Written_, Stored_, ClientChanges, DeadlinePasses, ConnectStep, NoClient,
     GetState, StateChanged, ConnectTimesOut, Reflect, Connects, ConnectFails, Goto,
     inputVars, streamVars, procVars
<1>5. ExitInv'
  BY DEF IndInv, Types, EndInv, InputEnds, Written_, Stored_, NoErr, ExitInv, Complete,
     Accounted, InOrder, Dropped, ClientChanges, DeadlinePasses, ConnectStep, NoClient,
     GetState, StateChanged, ConnectTimesOut, Reflect, Connects, ConnectFails, Goto,
     inputVars, streamVars, procVars
<1> QED BY <1>1, <1>2, <1>3, <1>4, <1>5 DEF IndInv

(* The output is empty. *)
LEMMA CreateWriterInv ==
    ASSUME IndInv, CreateWriter
    PROVE  IndInv'
<1>1. Types'
  <2>1. stored' = stored \/ stored' = Content(<<>>, ~gz)
    BY DEF CreateWriter
  <2>2. Content(<<>>, ~gz).lines = <<>>
    BY DEF Content
  <2>3. stored'.lines = stored.lines \/ stored'.lines = <<>>
    BY <2>1, <2>2
  <2>4. stored.lines \in Answers
    BY DEF IndInv, Types
  <2>5. stored'.lines \in Answers
    BY <2>3, <2>4, EmptyOut DEF Answers
  <2> QED BY <2>5 DEF IndInv, Types, Places, Connecting, CreateWriter, Goto, fileVars,
     inputVars, procVars
<1>2. InOrder(out)' /\ AnswersInOrder'
  BY DEF IndInv, AnswersInOrder, InOrder, CreateWriter, Content
<1>3. StreamInv'
  BY DEF IndInv, Types, NoErr, StreamInv, Untouched, Connecting, NoErrorYet, GoesOn, Plain,
     Between, AfterError, Whole, InHand, CreateWriter, Content, Answers, Goto, fileVars,
     inputVars, streamVars, procVars
<1>4. EndInv'
  BY DEF IndInv, Types, Complete, Accounted, InOrder, Dropped, NoErr, StreamInv, Untouched,
     Connecting, NoErrorYet, GoesOn, Plain, Between, AfterError, Whole, InHand, EndInv,
     InputEnds, Written_, Stored_, CreateWriter, Content, Answers, Goto, fileVars,
     inputVars, streamVars, procVars
<1>5. ExitInv'
  BY DEF IndInv, Types, EndInv, InputEnds, Written_, Stored_, NoErr, ExitInv, Complete,
     Accounted, InOrder, Dropped, CreateWriter, Content, Answers, Goto, fileVars, inputVars,
     streamVars, procVars
<1> QED BY <1>1, <1>2, <1>3, <1>4, <1>5 DEF IndInv

(* A line is read when every line before it has its answer. *)
LEMMA ReadInv ==
    ASSUME IndInv, OpenReader \/ ReadLine \/ ReadEnds
    PROVE  IndInv'
<1>1. Types'
  BY DEF IndInv, Types, Places, Connecting, OpenReader, ReadLine, ReadEnds, Decode, Process,
     NoLine, statsVars, Cancelled, Goto, fileVars, inputVars, streamVars, procVars
<1>2. InOrder(out)' /\ AnswersInOrder'
  BY DEF IndInv, AnswersInOrder, OpenReader, ReadLine, ReadEnds, Decode, Process, NoLine,
     statsVars, Cancelled, Goto, fileVars, inputVars, streamVars, procVars
<1>3. StreamInv'
  BY DEF IndInv, Types, NoErr, StreamInv, Untouched, Connecting, NoErrorYet, GoesOn, Plain,
     Between, AfterError, Whole, InHand, OpenReader, ReadLine, ReadEnds, Decode, Process,
     NoLine, statsVars, Cancelled, Goto, fileVars, inputVars, streamVars, procVars
<1>4. EndInv'
  BY DEF IndInv, Types, Complete, Accounted, InOrder, Dropped, NoErr, StreamInv, Untouched,
     Connecting, NoErrorYet, GoesOn, Plain, Between, AfterError, Whole, InHand, EndInv,
     InputEnds, Written_, Stored_, OpenReader, ReadLine, ReadEnds, Decode, Process, NoLine,
     statsVars, Cancelled, Goto, fileVars, inputVars, streamVars, procVars
<1>5. ExitInv'
  BY DEF IndInv, Types, EndInv, InputEnds, Written_, Stored_, NoErr, ExitInv, Complete,
     Accounted, InOrder, Dropped, OpenReader, ReadLine, ReadEnds, Decode, Process, NoLine,
     statsVars, Cancelled, Goto, fileVars, inputVars, streamVars, procVars
<1> QED BY <1>1, <1>2, <1>3, <1>4, <1>5 DEF IndInv

(* The call to the worker. *)
LEMMA InvokeInv ==
    ASSUME IndInv, StartTaskReturns \/ InvokeReturns("answer") \/ InvokeReturns("error")
    PROVE  IndInv'
<1>1. Types'
  BY DEF IndInv, Types, Places, Connecting, StartTaskReturns, InvokeReturns, Goto, fileVars,
     inputVars, streamVars, procVars
<1>2. InOrder(out)' /\ AnswersInOrder'
  BY DEF IndInv, AnswersInOrder, StartTaskReturns, InvokeReturns, Goto, fileVars, inputVars,
     streamVars, procVars
<1>3. StreamInv'
  BY DEF IndInv, Types, NoErr, StreamInv, Untouched, Connecting, NoErrorYet, GoesOn, Plain,
     Between, AfterError, Whole, InHand, StartTaskReturns, InvokeReturns, Goto, fileVars,
     inputVars, streamVars, procVars
<1>4. EndInv'
  BY DEF IndInv, Types, Complete, Accounted, InOrder, Dropped, NoErr, StreamInv, Untouched,
     Connecting, NoErrorYet, GoesOn, Plain, Between, AfterError, Whole, InHand, EndInv,
     InputEnds, Written_, Stored_, StartTaskReturns, InvokeReturns, Goto, fileVars,
     inputVars, streamVars, procVars
<1>5. ExitInv'
  BY DEF IndInv, Types, EndInv, InputEnds, Written_, Stored_, NoErr, ExitInv,
     Complete, Accounted, InOrder, Dropped, StartTaskReturns, InvokeReturns, Goto, fileVars,
     inputVars, streamVars, procVars
<1> QED BY <1>1, <1>2, <1>3, <1>4, <1>5 DEF IndInv

(* Only an answer goes on to be written. *)
LEMMA AnswerInv ==
    ASSUME IndInv, AnswerArrives
    PROVE  IndInv'
<1>1. Types'
  BY DEF IndInv, Types, Places, Connecting, AnswerArrives, Fail, Goto, fileVars, inputVars,
     streamVars, procVars
<1>2. InOrder(out)' /\ AnswersInOrder'
  BY DEF IndInv, AnswersInOrder, AnswerArrives, Fail, Goto, fileVars, inputVars, streamVars,
     procVars
<1>3. StreamInv'
  BY DEF IndInv, Types, NoErr, StreamInv, Untouched, Connecting, NoErrorYet, GoesOn, Plain,
     Between, AfterError, Whole, InHand, AnswerArrives, Fail, Goto, fileVars, inputVars,
     streamVars, procVars
<1>4. EndInv'
  BY DEF IndInv, Types, Complete, Accounted, InOrder, Dropped, NoErr, StreamInv, Untouched,
     Connecting, NoErrorYet, GoesOn, Plain, Between, AfterError, Whole, InHand, EndInv,
     InputEnds, Written_, Stored_, AnswerArrives, Fail, Goto, fileVars, inputVars,
     streamVars, procVars
<1>5. ExitInv'
  BY DEF IndInv, Types, EndInv, InputEnds, Written_, Stored_, NoErr, ExitInv,
     Complete, Accounted, InOrder, Dropped, AnswerArrives, Fail, Goto, fileVars, inputVars,
     streamVars, procVars
<1> QED BY <1>1, <1>2, <1>3, <1>4, <1>5 DEF IndInv

(* An answer is added: of the next line, or to an error. *)
LEMMA AppendAnswer ==
    ASSUME out \in Answers, Plain(out), NEW n \in Nat, n = NoLine \/ n = Len(out) + 1
    PROVE  /\ Append(out, n) \in Answers
           /\ Len(Append(out, n)) = Len(out) + 1
           /\ InOrder(Append(out, n))
           /\ IF n = NoLine THEN Dropped(Append(out, n)) ELSE Plain(Append(out, n))
<1>1. /\ Append(out, n) \in Answers
      /\ Len(Append(out, n)) = Len(out) + 1
      /\ Append(out, n) # <<>>
      /\ Append(out, n)[Len(out) + 1] = n
      /\ Len(out) \in Nat
  BY DEF Answers
<1>2. \A k \in 1..Len(out) : Append(out, n)[k] = k
  BY DEF Answers, Plain
<1> DEFINE longer == Append(out, n)
<1> HIDE DEF longer
<1>3. n = NoLine => Dropped(longer)
  BY <1>1 DEF Dropped, longer
<1>4. \A k \in 1..Len(longer) : k = Len(longer) \/ longer[k] = k
  BY <1>1, <1>2 DEF longer
<1>5. n # NoLine => Plain(longer)
  BY <1>1, <1>4 DEF Plain, longer
<1>6. InOrder(longer)
  BY <1>1, <1>3, <1>4 DEF InOrder, longer
<1> QED BY <1>1, <1>3, <1>5, <1>6 DEF longer

(* An answer follows those of the lines before it; its line feed follows it. *)
LEMMA WriteInv ==
    ASSUME IndInv, Write
    PROVE  IndInv'
<1> USE DEF IndInv, Types, StreamInv, EndInv
<1>0. UNCHANGED <<lines, linesRead, hand, retErr, code>> /\ (Cancelled => Cancelled')
  BY DEF Write, Written, Goto, fileVars, inputVars, statsVars, Cancelled
<1>1. CASE main = "write"
  <2>1. /\ hand \in Nat /\ (hand = NoLine \/ hand = Len(out) + 1)
        /\ out \in Answers /\ Plain(out)
    BY <1>1 DEF GoesOn, InHand
  <2>2. /\ out' = Append(out, hand)
        /\ stored' = stored \/ stored'.lines = out'
        /\ main' = "newline"
    BY <1>1 DEF Write, Written, Goto, Content
  <2>3. /\ out' \in Answers /\ InOrder(out') /\ Len(out') = Len(out) + 1
        /\ IF hand = NoLine THEN Dropped(out') ELSE Plain(out')
    BY <2>1, <2>2, AppendAnswer
  <2>4. Between'
    BY <1>0, <1>1, <2>1, <2>2, <2>3 DEF Between, AfterError, InHand, Answers
  <2>5. Types' /\ InOrder(out)' /\ AnswersInOrder'
    BY <1>0, <2>2, <2>3 DEF Places, Connecting, AnswersInOrder
  <2>6. StreamInv'
    BY <1>0, <1>1, <2>2, <2>4 DEF Untouched, Connecting, NoErrorYet, GoesOn, Whole, InHand
  <2>7. EndInv' /\ ExitInv'
    BY <1>0, <1>1, <2>2 DEF InputEnds, Written_, Stored_, ExitInv
  <2> QED BY <2>5, <2>6, <2>7
<1>2. CASE main = "newline"
  <2>1. /\ out' = out /\ torn' = FALSE
        /\ stored' = stored \/ stored'.lines = out
        /\ main' = IF hand = NoLine THEN "end" ELSE "read"
    BY <1>2 DEF Write, Written, Goto, Content
  <2>2. IF hand = NoLine THEN AfterError(out) ELSE Plain(out) /\ Len(out) = linesRead
    BY <1>2 DEF Between
  <2>3. Types' /\ InOrder(out)' /\ AnswersInOrder'
    BY <1>0, <2>1 DEF Places, Connecting, AnswersInOrder
  <2>4. StreamInv'
    BY <1>0, <1>2, <2>1, <2>2 DEF Untouched, Connecting, NoErrorYet, GoesOn, Whole, InHand,
       Between
  <2>5. EndInv' /\ ExitInv'
    BY <1>0, <1>2, <2>1, <2>2 DEF InputEnds, AfterError, Written_, Stored_, ExitInv
  <2> QED BY <2>3, <2>4, <2>5
<1> QED BY <1>1, <1>2 DEF Write

(* The error of a write is returned. *)
LEMMA WriteFailsInv ==
    ASSUME IndInv, WriteFails
    PROVE  IndInv'
<1>1. Types'
  BY DEF IndInv, Types, Places, Connecting, WriteFails, Written, Content, Fail, Goto,
     fileVars, inputVars, streamVars, procVars
<1>2. InOrder(out)' /\ AnswersInOrder'
  BY DEF IndInv, AnswersInOrder, WriteFails, Written, Content, Fail, Goto, fileVars,
     inputVars, streamVars, procVars
<1>3. StreamInv'
  BY DEF IndInv, Types, NoErr, StreamInv, Untouched, Connecting, NoErrorYet, GoesOn, Plain,
     Between, AfterError, Whole, InHand, WriteFails, Written, Content, Fail, Goto, fileVars,
     inputVars, streamVars, procVars
<1>4. EndInv'
  BY DEF IndInv, Types, Complete, Accounted, InOrder, Dropped, NoErr, StreamInv, Untouched,
     Connecting, NoErrorYet, GoesOn, Plain, Between, AfterError, Whole, InHand, EndInv,
     InputEnds, Written_, Stored_, WriteFails, Written, Content, Fail, Goto, fileVars,
     inputVars, streamVars, procVars
<1>5. ExitInv'
  BY DEF IndInv, Types, EndInv, InputEnds, Written_, Stored_, NoErr, ExitInv,
     Complete, Accounted, InOrder, Dropped, WriteFails, Written, Content, Fail, Goto, fileVars,
     inputVars, streamVars, procVars
<1> QED BY <1>1, <1>2, <1>3, <1>4, <1>5 DEF IndInv

(* Without an error, every line was read and answered. *)
LEMMA StreamEndsInv ==
    ASSUME IndInv, StreamEnds
    PROVE  IndInv'
<1>1. Types'
  BY DEF IndInv, Types, Places, Connecting, StreamEnds, Fail, Goto, fileVars, inputVars,
     streamVars, procVars
<1>2. InOrder(out)' /\ AnswersInOrder'
  BY DEF IndInv, AnswersInOrder, StreamEnds, Fail, Goto, fileVars, inputVars, streamVars,
     procVars
<1>3. StreamInv'
  BY DEF IndInv, Types, NoErr, StreamInv, Untouched, Connecting, NoErrorYet, GoesOn, Plain,
     Between, AfterError, Whole, InHand, StreamEnds, Fail, Goto, fileVars, inputVars,
     streamVars, procVars
<1>4. EndInv'
  BY DEF IndInv, Types, Complete, Accounted, InOrder, Dropped, NoErr, StreamInv, Untouched,
     Connecting, NoErrorYet, GoesOn, Plain, Between, AfterError, Whole, InHand, EndInv,
     InputEnds, Written_, Stored_, StreamEnds, Fail, Goto, fileVars, inputVars, streamVars,
     procVars
<1>5. ExitInv'
  BY DEF IndInv, Types, EndInv, InputEnds, Written_, Stored_, NoErr, ExitInv, Complete,
     Accounted, InOrder, Dropped, StreamEnds, Fail, Goto, fileVars, inputVars, streamVars,
     procVars
<1> QED BY <1>1, <1>2, <1>3, <1>4, <1>5 DEF IndInv

(* What is stored is some of what was written, and all of it if no error is found. *)
LEMMA CloseInv ==
    ASSUME IndInv, CloseWriter
    PROVE  IndInv'
<1>0. stored'.lines \in Answers /\ InOrder(stored'.lines)
  <2>1. out \in Answers /\ InOrder(out) /\ stored.lines \in Answers /\ InOrder(stored.lines)
    BY DEF IndInv, Types, AnswersInOrder
  <2>2. PICK gzOk \in BOOLEAN : stored' \in {stored} \cup Parts \cup Flushed(gzOk)
    BY DEF CloseWriter
  <2> QED BY <2>1, <2>2, PartsInOrder, FlushedInOrder
<1>1. Types'
  BY <1>0 DEF IndInv, Types, Places, Connecting, CloseWriter, Goto, fileVars, inputVars,
     procVars
<1>2. InOrder(out)' /\ AnswersInOrder'
  BY <1>0 DEF IndInv, AnswersInOrder, CloseWriter
<1>3. StreamInv'
  BY DEF IndInv, Types, NoErr, StreamInv, Untouched, Connecting, NoErrorYet, GoesOn, Plain,
     Between, AfterError, Whole, InHand, CloseWriter, Flushed, Content, Goto, fileVars,
     inputVars, streamVars, procVars
<1>4. EndInv'
  BY DEF IndInv, Types, Complete, Accounted, InOrder, Dropped, NoErr, StreamInv, Untouched,
     Connecting, NoErrorYet, GoesOn, Plain, Between, AfterError, Whole, InHand, EndInv,
     InputEnds, Written_, Stored_, CloseWriter, Flushed, Content, Goto, fileVars, inputVars,
     streamVars, procVars
<1>5. ExitInv'
  BY DEF IndInv, Types, EndInv, InputEnds, Written_, Stored_, NoErr, ExitInv, Complete,
     Accounted, InOrder, Dropped, CloseWriter, Flushed, Content, Goto, fileVars, inputVars,
     streamVars, procVars
<1> QED BY <1>1, <1>2, <1>3, <1>4, <1>5 DEF IndInv

(* The process exits with code 0 only after a command without an error. *)
LEMMA ExitsInv ==
    ASSUME IndInv, ExitOnError \/ Stop \/ ExitNormally \/ ForcedExit \/ Signal
    PROVE  IndInv'
<1>1. Types'
  BY DEF IndInv, Types, Places, Connecting, ExitOnError, Stop, ExitNormally, MainEnds,
     ForcedExit, TimeIsUp,
     Signal, FirstSignal, SignalAgain, SignalArrives, Exit, Goto, fileVars, inputVars,
     streamVars, procVars
<1>2. InOrder(out)' /\ AnswersInOrder'
  BY DEF IndInv, AnswersInOrder, ExitOnError, Stop, ExitNormally, MainEnds, ForcedExit,
     TimeIsUp, Signal, FirstSignal, SignalAgain, SignalArrives, Exit,
     Goto, fileVars, inputVars, streamVars, procVars
<1>3. StreamInv'
  BY DEF IndInv, Types, NoErr, StreamInv, Untouched, Connecting, NoErrorYet, GoesOn, Plain,
     Between, AfterError, Whole, InHand, ExitOnError, Stop, ExitNormally, MainEnds,
     ForcedExit, TimeIsUp, Signal, FirstSignal, SignalAgain, SignalArrives, Exit, Goto,
     fileVars, inputVars, streamVars, procVars
<1>4. EndInv'
  BY DEF IndInv, Types, Complete, Accounted, InOrder, Dropped, NoErr, StreamInv, Untouched,
     Connecting, NoErrorYet, GoesOn, Plain, Between, AfterError, Whole, InHand, EndInv,
     InputEnds, Written_, Stored_, ExitOnError, Stop, ExitNormally, MainEnds, ForcedExit,
     TimeIsUp, Signal, FirstSignal, SignalAgain, SignalArrives, Exit, Goto, fileVars,
     inputVars, streamVars, procVars
<1>5. ExitInv'
  BY DEF IndInv, Types, EndInv, InputEnds, Written_, Stored_, NoErr, ExitInv, Complete,
     Accounted, InOrder, Dropped, ExitOnError, Stop, ExitNormally, MainEnds, ForcedExit,
     TimeIsUp, Signal, FirstSignal, SignalAgain, SignalArrives, Exit, Goto, fileVars,
     inputVars, streamVars, procVars
<1> QED BY <1>1, <1>2, <1>3, <1>4, <1>5 DEF IndInv

(* The statistics goroutine touches neither the files nor the worker. *)
LEMMA StatsStepInv ==
    ASSUME IndInv, StatsStep(Loop)
    PROVE  IndInv'
<1>1. UNCHANGED <<procVars, fileVars, streamVars>>
  BY DEF StatsStep
<1>2. Cancelled => Cancelled'
  BY CancelledStays DEF Next
<1>3. Types' /\ InOrder(out)' /\ AnswersInOrder'
  BY <1>1 DEF IndInv, Types, InOrder, AnswersInOrder, fileVars, inputVars, streamVars,
     procVars
<1>4. StreamInv' /\ Written_' /\ Stored_' /\ ExitInv'
  BY <1>1 DEF IndInv, StreamInv, Untouched, Connecting, NoErrorYet, GoesOn, Plain, Between,
     AfterError, Whole, InHand, EndInv, Written_, Stored_, ExitInv, Complete, Accounted,
     InOrder, fileVars, inputVars, streamVars, procVars
<1>5. InputEnds'
  BY <1>1, <1>2 DEF IndInv, EndInv, InputEnds, Plain, AfterError, InOrder, Dropped,
     fileVars, inputVars, streamVars, procVars
<1> QED BY <1>3, <1>4, <1>5 DEF IndInv, EndInv

(* Every step keeps the invariant. *)
LEMMA NextInv == IndInv /\ [Next]_vars => IndInv'
<1> SUFFICES ASSUME IndInv, [Next]_vars PROVE IndInv'
  OBVIOUS
<1>1. CASE StatsStep(Loop)
  BY <1>1, StatsStepInv
<1>2. CASE WorkerStep
  <2>1. \/ ConnectStep
        \/ CreateWriter
        \/ OpenReader \/ ReadLine \/ ReadEnds
        \/ StartTaskReturns \/ InvokeReturns("answer") \/ InvokeReturns("error")
        \/ AnswerArrives
        \/ WriteFails
        \/ Write
        \/ StreamEnds
        \/ CloseWriter
        \/ ExitOnError \/ Stop \/ ExitNormally
    BY <1>2 DEF WorkerStep, ConnectStep
  <2> QED
    BY <2>1, ConnectInv, CreateWriterInv, ReadInv, InvokeInv, AnswerInv, WriteFailsInv,
       WriteInv, StreamEndsInv, CloseInv, ExitsInv
<1>3. CASE Signal \/ ForcedExit
  BY <1>3, ExitsInv
<1>5. CASE ClientChanges \/ DeadlinePasses
  BY <1>5, ConnectInv
<1>4. CASE UNCHANGED vars
  <2>1. UNCHANGED <<procVars, fileVars, streamVars>> /\ (Cancelled => Cancelled')
    BY <1>4 DEF vars, statsVars, Cancelled
  <2>2. Types' /\ InOrder(out)' /\ AnswersInOrder'
    BY <2>1 DEF IndInv, Types, InOrder, AnswersInOrder, fileVars, inputVars, streamVars,
       procVars
  <2>3. StreamInv' /\ Written_' /\ Stored_' /\ ExitInv'
    BY <2>1 DEF IndInv, StreamInv, Untouched, Connecting, NoErrorYet, GoesOn, Plain,
       Between, AfterError, Whole, InHand, EndInv, Written_, Stored_, ExitInv, Complete,
       Accounted, InOrder, Dropped, InOrder, fileVars, inputVars, streamVars, procVars
  <2>4. InputEnds'
    BY <2>1 DEF IndInv, EndInv, InputEnds, Plain, AfterError, InOrder, Dropped, fileVars,
       inputVars, streamVars, procVars
  <2> QED BY <2>2, <2>3, <2>4 DEF IndInv, EndInv
<1> QED BY <1>1, <1>2, <1>3, <1>4, <1>5 DEF Next

(* The invariant of the stream: what was read, written and stored, and     *)
(* where the worker is, agree in every state of the command.               *)
THEOREM StreamInvariance == Spec => []IndInv
  BY InitInv, NextInv, PTL DEF Spec

(* When the file command of the agent (serve/file.go) returns nil, and so  *)
(* when it exits with code 0, the output has the answer of every line, for *)
(* inputs of any length; but for an input with an error, where it ends     *)
(* with the answer to the empty message.                                   *)
THEOREM SuccessHasAnswers == Spec => [](SuccessIsAccountedFor /\ (code = 0 => Complete))
<1>1. IndInv => SuccessIsAccountedFor /\ (code = 0 => Complete)
  BY DEF IndInv, EndInv, Stored_, ExitInv, SuccessIsAccountedFor, Complete
<1> QED BY <1>1, StreamInvariance, PTL

(* WriteLines and the writers of gcp/storage.go leave the answers of the   *)
(* first lines, in order, whatever fails and whenever a signal comes; only *)
(* the last may be that to an empty message.                               *)
THEOREM AnswersKeepOrder == Spec => []AnswersInOrder
<1>1. IndInv => AnswersInOrder
  BY DEF IndInv
<1> QED BY <1>1, StreamInvariance, PTL

(* A step after an error does not replace it. *)
LEMMA ErrorStep ==
    ASSUME IndInv, [Next]_vars, retErr # NoErr
    PROVE  retErr' = retErr
<1>1. main \in {"close", "returned", "exited"}
  BY DEF IndInv, Types, Places, Connecting, StreamInv, NoErrorYet, ExitInv
<1>2. CASE StatsStep(Loop) \/ ClientChanges \/ DeadlinePasses \/ Signal \/ ForcedExit
           \/ UNCHANGED vars
  BY <1>2 DEF StatsStep, ClientChanges, DeadlinePasses, Signal, FirstSignal, SignalAgain,
     SignalArrives, ForcedExit, TimeIsUp, vars, streamVars
<1>3. CASE WorkerStep
  BY <1>1, <1>3 DEF WorkerStep, NoClient, GetState, StateChanged, ConnectTimesOut, Reflect,
     Connects, CreateWriter, OpenReader, ReadLine, ReadEnds, StartTaskReturns,
     InvokeReturns, AnswerArrives, WriteFails, Write, StreamEnds, CloseWriter, ExitOnError,
     Stop, ExitNormally, MainEnds, streamVars
<1> QED BY <1>2, <1>3 DEF Next

(* The deferred close of WriteLines (io.go:70-81) never replaces the error *)
(* that the stream had.                                                    *)
THEOREM ErrorKept == Spec => FirstErrorKept
<1>1. IndInv /\ [Next]_vars => [retErr # NoErr => retErr' = retErr]_vars
  BY ErrorStep
<1> QED BY <1>1, StreamInvariance, PTL DEF Spec, FirstErrorKept

(* Which command the process runs is decided when it starts. *)
LEMMA CommandStays ==
    AgentSpec => /\ command = "file" => [](command = "file")
                 /\ command = "http" => [](command = "http")
                 /\ command = "generator" => [](command = "generator")
<1>1. command = "file" /\ [AgentNext]_agentVars => (command = "file")'
  BY DEF AgentNext, File, Http, Generate, agentVars
<1>2. command = "http" /\ [AgentNext]_agentVars => (command = "http")'
  BY DEF AgentNext, File, Http, Generate, agentVars
<1>3. command = "generator" /\ [AgentNext]_agentVars => (command = "generator")'
  BY DEF AgentNext, File, Http, Generate, agentVars
<1> QED BY <1>1, <1>2, <1>3, PTL DEF AgentSpec

(* The process that main.go starts (AgentCommands) is the command it was   *)
(* started with, and nothing else: what is shown of each of them alone     *)
(* (SuccessHasAnswers, and the theorems about the generator) holds of it.  *)
THEOREM AgentRunsCommands ==
    AgentSpec => /\ command = "file" => Spec
                 /\ command = "http" => HttpSpec
                 /\ command = "generator" => GeneratorSpec
<1>1. /\ AgentInit /\ command = "file" => Init
      /\ AgentInit /\ command = "http" => HttpInit
      /\ AgentInit /\ command = "generator" => GeneratorInit
  BY DEF AgentInit, Init, HttpInit, GeneratorInit
<1>2. [AgentNext]_agentVars /\ command = "file" => [Next]_vars
  BY DEF AgentNext, File, Http, Generate, agentVars, vars
<1>3. [AgentNext]_agentVars /\ command = "http" => [HttpNext]_httpVars
  BY DEF AgentNext, File, Http, Generate, agentVars, httpVars
<1>4. [AgentNext]_agentVars /\ command = "generator" => [GeneratorNext]_generatorVars
  BY DEF AgentNext, File, Http, Generate, agentVars, generatorVars
<1> QED BY CommandStays, <1>1, <1>2, <1>3, <1>4, PTL
        DEF AgentSpec, Spec, HttpSpec, GeneratorSpec
=============================================================================
