# Verification of the risk and research blueprints

TLA+ models of the programs of this repository that carry its own logic, the
TLC configurations that check them on small instances, and TLAPS proofs of
their main properties for every value of the constants.  Paths are relative to
the repository; `agent/` stands for `examples/risk/agent/src/` and `loadtest/`
for `examples/risk/loadtest/src/`.

To check a run: `tlc -config <cfg> <module>`; to check the proofs of a module:
`tlapm <module>_proofs.tla`.  `PROJECT.json` lists the runs, the properties,
the source lines behind each definition, and for each property a mutant of the
model that must violate it, and the hazards of the code at their lines.

## 1. The system

The repository deploys a high-throughput computing pattern on Google Cloud:
requests are published on a Pub/Sub topic, pods made of an *agent* and a
*worker* (a gRPC server) pull them, the agent calls the worker and publishes
the response on a second topic.  The same agent serves BigQuery remote
functions, files and push subscriptions, and generates load.

| Component | Code | State it keeps | Operations |
|---|---|---|---|
| Worker pool | `agent/stats/throttle.go` `ApplyParallel` | counter `working`, result channel, first error | dispatch, receive at the limit, drain, return |
| Rate limiter | `agent/stats/throttle.go` `Throttle` | next dispatch time, ramp | delay, stop on cancellation |
| Statistics loop | `agent/stats/stats.go` | task table, idle period, idle timer, context | start / cancel / end of a task, set timeout, log, stop |
| Statistics windows | `agent/stats/stats_accum.go`, `timings.go` | operations, bytes, busy time, latencies of a window | account for a task, report and reset, percentiles |
| Pull worker | `agent/serve/pubsub.go`, `protoio/backend.go`, `main.go` | callbacks in process, publish results awaited, exit path | receive, invoke, publish, ack / nack, signals, idle shutdown |
| Push and RDF servers | `agent/serve/pubsub_push.go`, `bigquery_rdf.go` | HTTP requests in process | decode, invoke, publish, answer, shutdown |
| File worker and line streams | `agent/serve/file.go`, `protoio/io.go`, `gcp/storage.go` | position in the input, writer, first error | read, convert, write, close |
| Sources of the generators | `agent/test/source.go`, `grpc.go` | position in the file, loop | read, limit, call in parallel |
| Pub/Sub generator | `agent/test/pubsub.go` | outstanding messages in the task table | publish, receive, cancel, end when idle |
| Backend connection | `agent/protoio/backend.go` | client, connection state | connect with a timeout, reflect, invoke |
| Load test service | `loadtest/main.go`, `simulator.go`, `utils.go` | counting semaphore, `initialMu`, `initialId` | acquire, initialise once, run, release, crash |
| Load test data tools | `loadtest/utils.go`, `generate.go` | worker pool, totals, files | write and read data in parallel, generate tasks, load them |
| Reporting | `examples/risk/loadtest/sql/` | none (views) | join requests with responses |
| Pricing services | `examples/risk/american-option/`, `examples/research/monte-carlo/` | none across requests | numerical computation |
| Dashboards, infrastructure | `loadtest/ui`, Terraform, Kubernetes, storage tests | declarative | none of their own |

How they interact: `main.go` makes one context for the process and passes its
`cancel` to the statistics loop and to the signal handler.  The serving and
generating commands run under that context; all of them report tasks to the
statistics loop on **one unbuffered channel**, and the loop may cancel the
context when no task has been active for the idle timeout.  The commands end
when the context does; then `main` closes the channel and waits for the loop.
The worker behind the agent limits its concurrency with its own semaphore.
Pub/Sub is at-least-once: leases, nacks and crashes redeliver.

What is hard in it: a loop that may stop receiving while others still send;
ids shared between tasks; publishing, acknowledging and crashing in any order;
an idle timer racing with new work; worker pools that must neither lose nor
leak a goroutine on an error; a condition variable with newcomers; locks held
across failing work.  `PROJECT.json` lists these hazards at their lines.

What makes each component correct:

* sources of the generators: calls keep to the rate although the pool makes them
  wait, an end without an error has called for all that was read, and without a
  cancellation all is read, a pass ends;
* worker pool: no goroutine outlives the call, at most `workers` run, the first
  error is returned, little is started after it, the call returns;
* rate limiter: values are never yielded faster than the rate, nor held back
  longer than it asks, and only a cancellation drops one;
* statistics loop: the table is the set of tasks in progress, the process is
  cancelled after the idle timeout of a quiet process and never before;
* statistics windows: no time is reported twice, nor any left out of operations with
  ids of their own, the percentiles are percentiles;
* pull worker: a request is acknowledged only after its response is stored,
  nothing leased is forgotten, no send hits a closed channel, the process ends
  when told to;
* push and remote function servers: status 200 means every call was answered
  and, for a push, the response published; requests end; a signal ends the server;
* file worker: a command without an error has stored the answers of all lines, any
  other exit leaves those of a prefix of the input, the first error is the one reported;
* generator: the process ends by itself when every message was answered or
  refused, and not before;
* backend connection: connecting ends, with a timeout, whatever the connection
  does in the meantime;
* load test service: never more calls than slots, no lost wake-up, slots and
  mutex always given back, no task before its init part, no init part run for the
  id that is initialised;
* load test data tools: objects are whole or absent, the logged totals agree with
  the exit code, and a load that ends well has run every task generated.

## 2. Modules

| Module | Models |
|---|---|
| `WorkPool` | abstract: what the pool promises its caller |
| `ApplyParallel` | the pool of the agent: dispatcher, goroutines, unbuffered result channel |
| `Throttle` | the rate limiter: due time, ramp, sleep |
| `StartSource` | `Throttle` composed with `ApplyParallel` and the file the generators read, once or in a loop |
| `StatsLoop` | the statistics goroutine: its select loop, table, idle timer and channel (no specification of its own) |
| `StatsCallers` | `StatsLoop` composed with callers that report tasks under distinct ids, and with `main` |
| `TimeDistribution` | the latencies of a window and the walk that reads percentiles off them (no specification of its own) |
| `AccumStats` | `TimeDistribution` composed with the totals of a window and the table of start times |
| `AgentMain` | `StatsLoop` composed with the agent's process: signals, forced exit, exit (no specification of its own) |
| `PullAgent` | `AgentMain` composed with the pull worker, Pub/Sub (external) and the restarts of its job |
| `HttpServer` | `AgentMain` composed with the handlers of the push endpoint and of the remote function server |
| `Backend` | connecting to the worker: the connection, the timeout, the reflection of the service (no specification of its own) |
| `FileWorker` | `AgentMain` and `Backend` composed with the file command, its line streams and its files |
| `PubSubGenerator` | `AgentMain` composed with the generator and an instance of `WorkPool`, its pool |
| `AgentCommands` | the agent's process with one of these three commands: `FileWorker`, `HttpServer` or `PubSubGenerator` |
| `WorkCounter` | the counting semaphore of the load test service |
| `LoadTestServer` | `WorkCounter` composed with `RunLoadTask`: init once, task, crash |
| `DataTools` | `writedata` and `readdata`: the load test's pool (an instance of `ApplyParallel`) with its totals and files |
| `TaskFile` | a task file from `gentasks`, which writes it, to `load`, which runs it |
| `LoadTest` | the load test program: `LoadTestServer`, `DataTools` or `TaskFile`, by its command |
| `*_proofs` | the theorems about the module of that name; `StartSource_proofs` holds those of `Throttle` too, `PullAgent_proofs` those of `HttpServer`, `FileWorker_proofs` that of `AgentCommands`, and `LoadTest_proofs` those of its parts |
| `Reports_proofs` | the theorems about what is reported: the windows and percentiles of `AccumStats`, the totals of `DataTools` |
| `MC*` | constant values for TLC |

### Correspondence

*ApplyParallel.*  `pc` is the place of the calling goroutine: the head of the
range loop (`range`), the test at line 154 (`limit`), the drain loop (`drain`),
returned.  `task[i] = "running"` is a goroutine inside `work`; `err_ch` is the
queue of goroutines blocked in `err_ch <- err` (Go serves the blocked senders
of a channel first come, first served).  One action per arm of the loop.  The
model has no bound but `MaxItems`, the longest sequence.  `firstFail` and
`overrun` are history variables for two properties.

*Throttle.*  Time is a number of ticks since the call; any number may pass
between two statements.  `place` is the range loop, the sleep, the point before
`yield`, the consumer, or the end.  `DelayAt` is the ramp in whole ticks:
`ramp_steps` only sets its initial delay, as in the code.  A rate of zero passes
the sequence through: that is `limited` of `StartSource`.

*StartSource.*  The iterators call one another, so the composition is not one of
free interleaving: a value goes from the limiter's `Yield` into the pool's
`YieldValue` in one step, the limiter stays in `yield` until the body of the
pool's loop ends, and a pool that breaks off ends the limiter.  Without a rate
the pool reads the file itself.  `ReadLines` looks at the context before each line
(`io.go:47`) and ends without an error when it is done, so a pass ends at any line
then, also before the first.  The pool's goroutines interleave freely.
`starts` is the history of when the pool took each value.

*StatsLoop.*  `loop` is before the `for` condition (`top`), in the `select`, or
out.  A caller blocked in its send is an entry of `statsChan`; `Stop` is
`CloseChannel`.  An entry in the queue of a closed channel would be a Go panic.
Time is `ClocksAdvance`; clocks stop at the timeout, past which nothing differs.
Any number of ticks may pass between two statements of the loop.

*AccumStats.*  `StartOp` overwrites the start time of an id that is in the table, as
the code does; the agent's callers do that, since they share the id `""`.
`restarts` counts it and `unseen` how many operations have lost their entry.
Start times, totals and latencies as in the code, in ticks;
percentages are hundredths, where the code divides in floating point.  `LogStats` is
one step, since one goroutine owns the structure.  `sort.Slice` is not stable, so
any descending order may result.  `owedTime`, `owedOps` and `worst` are what a
stopwatch beside the code would have counted since the last report, the operations
the table has lost included.

*AgentMain.*  `main` is where the main goroutine is in its command, which the
command's module says, or `exited`.  The first signal cancels the context and
arms the forced exit of 15 seconds (`watchdog`); one after the context is done
exits with code 1.  `Exit` is `os.Exit` or a panic, and each command's module adds
what the exit does to the command's own state.

*PullAgent.*  A delivery is `starting` (in the send of `StartTask`), `invoke`
(in the backend), `endingOk` / `endingErr` (in the send of `DoneTask`), `await`
(the goroutine that waits for the publish result; the callback has returned),
`published` (before the ack).  `holder` is the lease.  Pub/Sub and `Receive` are
external and modelled from what `pubsub.go` asks of them: at-least-once
delivery, one callback per message within `MaxOutstanding`, and `Receive`
returns after its callbacks and leases.  `Gone` is what an
exit does to callbacks and leases; `Restart` is the job controller, for exit
code 1 only.

*HttpServer.*  `push` says which of the two commands runs.  A request is at
`next` (the head of the loop over its calls), `starting`, `invoke`, `endingOk` /
`endingErr`, `publish`, or has ended as `ok`, `error` or `dropped` (a panic that
`net/http` recovers, so the client has no answer).  `net/http` is external:
`ListenAndServe` returns as soon as `Shutdown` is called, so the remote function
server exits with requests in process.  The names of its actions are its own
(`HttpNext`, `ServerExits`), as its theorem is proved beside those of `PullAgent`.  The push command does not look at its
context and ends only by its forced exit.

*FileWorker.*  The command is one goroutine and a nest of iterators; `main` is
where it is in them.  A line is its number; its answer is the same number in
`out` (handed to the writer) or `stored` (found under the output's name).  Four
kinds of output: local or object, plain or compressed.  An object appears when
its writer is closed, and not if the context is done; what gzip has let through
before is counted as nothing.  The error of an input is dropped by the range clause
(`file.go:46`) and the invoker is called with a nil message, which gRPC sends as an
empty one: the call may fail or be answered like any other, and its answer is
`NoLine` in `out`, after which the input has ended.

*Backend.*  `conn` is the state of the client's connection, which is external
and changes between any two looks of `connect`; `currState` is what it saw last
and `expired` its deadline.  A connection that is lost stays idle until a call is
made, and `connect` makes none: only the deadline ends its wait then.  The other
commands' modules have connecting as a step that succeeds or fails.

*PubSubGenerator.*  Its pool is `WorkPool`, the abstract specification that
`ApplyParallel` implements.  `pub[m]` follows `publishOp` and the goroutine
that waits for the publish; `rcv[r]` is a callback of the subscription.
`heard` is the set of messages whose answer or refusal has come back.  A message may
be answered as soon as it is handed to the client (`MayBeAnswered`), any number of
times, and a callback that has it reports it after a cancellation too.

*AgentCommands.*  `command` is chosen at the start.  A step of the process is one of
its command's module; the statistics and `main`'s variables are common to them, and
what belongs to the other commands rests.

*WorkCounter.*  Each stretch with the mutex held is one step, since only `Wait`
blocks inside one and it releases the mutex.  A signalled waiter is `calling`
again and competes with newcomers, as with `sync.Cond`.

*LoadTestServer.*  `phase` is the place of a call inside `RunLoadTask`;
`initialMu` is held from `LockInit` to `InitFails` or `InitSucceeds` when the id
differs, and given back in the same step when it does not.  Requests bring any
init id, or none; `-1` is the value of `initialId` in a new process and may be the
id of a request as well, whose init part then never runs.  `initRuns` counts what a
process has completed, up to `MaxInitRuns`.

*DataTools.*  `fileOp[i]` is where `WriteBytes` or `ReadBytes` of file `i` is,
`moved[i]` how many buffers it has moved and `stored[i]` how many are found under
the name; an object is absent until its writer is closed, a local file grows.
`Counted` raises the two counters before the result is sent.  The pool is the
load test's copy of `ApplyParallel`: the same dispatcher, with a channel that
buffers a result per worker, so that `err_ch` is the buffer.

*TaskFile.*  `gen` and `load` are the places of the two commands, one after the
other.  What reaches the file is settled by `Close`, whose error `WriteLines` only
prints: `Remains` is what a failure leaves of each kind of file.  A line is its
number, an incomplete one is `tail`.

*LoadTest.*  A process runs one command, so a step of the program is a step of
that command's module and the others rest.

## 3. Runs

| Run | Question | Bounds and why they are enough |
|---|---|---|
| `start_source` | the rate, of the yields and of the calls; what is dropped; the pool's properties and its refinement of `WorkPool`; what an end without an error means; a pass ends | 2 workers, files of 1 and of 4 lines, 4 values, a delay of 1 tick after a ramp of 4 ticks from 2, 5 ticks: the pool fills and trades results for new work, a file is read four times, values are let go in the ramp and after it, several delays are lost in one step |
| `stats_callers` | table, idle timer, reports, Stop | 2 tasks, timeout 2: a task can start in the middle of an idle period, as it ends, and while another ends |
| `accum_stats` | time and counts over windows, percentiles | 2 ids, 1 start of an id that is in the table (so 3 operations at once), 3 ends in a window, 3 ticks, percentiles 100, 75, 50, 0: an operation spans three windows and can lose its entry in any of them, latencies tie, a percentile falls between two |
| `pull_agent` | acks, leases, closed channel, signals | 2 requests (one without attributes), 2 deliveries, 1 outstanding (the default of the flag), 2 signals, 1 failure, 1 restart |
| `pull_service` | every request is answered | the same with no idle timeout and no signal: nothing cancels the process |
| `pull_idle_shutdown` | *finding*: the idle shutdown may hang | 1 request |
| `pull_shared_id` | *finding*: the idle timer cancels a busy process | 2 outstanding callbacks |
| `agent_commands` | the commands `serve file`, `bigquery-rdf`, `pubsub-push` and `test pubsub`: what an end without an error and status 200 mean, the order and prefix of the output, the first error; requests, commands and the generator end | file: up to 3 lines, 4 kinds of output, 2 signals, with and without a timeout for connecting: one answer stored, one in the buffers, one in hand; http: 2 requests of up to 2 calls, so that one can be in each place while the other ends; generator: 2 messages by 2 workers, 1 outstanding publish, 2 callbacks: a report can overtake another of the same message |
| `file_nil_message` | *finding*: code 0 for an input that failed | at most 1 line |
| `load_test` | slots, wake-ups, locks, init parts; objects and totals; what a good load has run | 4 calls, 2 slots, 2 init ids of which one is the -1 of a new process: 2 calls inside, 2 blocked, a call that comes again to overtake a wake-up, and the id changing back and forth between tasks; 3 files of 2 buffers by 2 workers: a failure finds another file half moved and a third not started; 3 tasks: one whole, one in hand, one missing |
| `load_two_inits` | *finding*: an init part run twice | 2 init ids, up to 2 runs of each counted |
| `gentasks_lost_tasks` | *finding*: tasks lost with exit code 0 | 3 tasks, none of which fails to be made |

Deadlock is checked where the system cannot stop; a command that has exited,
or a sequence that has ended, may.

### Findings

1. **The idle shutdown can hang** (`pull_idle_shutdown`).  When the idle timer
   cancels the context the statistics goroutine leaves its loop; a callback that
   reports a task after that is blocked in `cfg.statsChannel <- ...` for ever,
   `sub.Receive` waits for it, and no forced exit is armed (only a signal arms
   one).  `jobs.tf:151` says "Timeout when there's no more work from Pub/Sub --
   stop everything."
2. **Concurrent tasks share an id** (`pull_shared_id`).  `backend.go:179` looks
   `"srcId"` up in the command's context, `pubsub.go:149` stores it in the
   request's, under a typed key.  All tasks are `""`: with two callbacks the end
   of one empties the table and the idle timer can cancel the other.

3. **`gentasks` can lose tasks and report success** (`gentasks_lost_tasks`).  The
   deferred `Close` of the load test's `WriteLines` (`utils.go:155`) only prints an
   error, so the exit code is 0 when an object could not be stored or the last
   lines not flushed.  `generate.go:219` says "Count of records created".
   `LoadedIsWhole` says how far that reaches: compressed files and objects are
   whole or refused by `load`; a plain local file can lose its last lines unnoticed.

4. **An init part runs more than once for the same id** (`load_two_inits`).
   `initialize` (`simulator.go:107`) remembers the last id only: tasks with the ids A,
   B and A run A's init part twice, and two load tests that share a process make it
   run at every change.  `request.proto:55` says "do it only once for the same id!".
   What does hold, whatever the ids, is `InitOnlyWhenNew` and `TaskIsInitialised`.
5. **The file command can succeed on an input that failed** (`file_nil_message`).  The
   range clause of `file.go:46` drops the error of the input and calls the backend
   with a nil message, which gRPC encodes as an empty body without an error.  When the
   backend answers, the answer is written and the input has ended, so an input that
   cannot be opened gives one spurious line and exit code 0, and one that fails in
   the middle loses its other lines.  `agent/README.md:58` says that the agent
   will "dispatch each line into gRPC, and write the results".
   `SuccessIsAccountedFor` says what such an output holds.

### Known limits of the code

Met while modelling; the properties are stated so as to leave them out, and none
has a run of its own:

* the init part of another id may run, and change what the process is initialised
  for, while a task is running: `initialMu` covers `initialize` only;
* operations that share an id, as all of the agent's do, overwrite each other's
  start: the statistics then have less time and fewer operations than there were
  (`WindowsAddUp` says that they never have more);
* a cancelled `Throttle` drops the value it holds and ends without an error, so
  its caller cannot tell a cancelled sequence from a finished one;
* the generator says "All sent messages received" after a signal as well, and a
  callback that reports after `Stop` panics on the closed channel (exit 2);
* the remote function server exits with code 0 and requests in process;
* the file worker ignores a last line without a line feed;
* after a signal a worker blocked in a report is only ended by the forced exit;
* `connect` does not call `Connect` again: a connection that became ready and was
  lost between two looks is idle until the timeout; the reflection that follows
  has no deadline; an endpoint without a port never gets its default one, as
  `FindStringSubmatch` returns all six groups whether they matched or not
  (`backend.go:77`);
* a cancelled `StartSource` ends without an error with lines not read (`NilMeansAllDone`
  says which), and the first call is given the count 2 although "Counter starts at one"
  (`source.go:91`); an empty file with `--loop` is read again without a pause;
* `WriteBytes` and `ReadBytes` leave their file open when a write or read fails
  (which is what keeps half an object from being made), and
  `NewLoadTestServer` drops its `hostname`.

### Fairness

Goroutines run and time passes: weak fairness on each actor's steps (in
`StartSource` the generator's goroutine, the clock, and each call while nothing is
cancelled: after that its report may block).  A ready
case of a Go `select` is chosen at random, so strong fairness on the cases of
the statistics loop.  Work, remote calls and publishes return: weak fairness on
the steps that end them; their
outcome is not constrained, except in `pull_service`, which assumes that the
backend and the topic do not refuse one request for ever and that the
subscription delivers what it holds (strong fairness per request).
`SignalEndsProcess` of the pull worker assumes only that `main`'s own timer runs.  In
`AgentCommands` (`StatsFairness`, `MainFairness`, `ConnectFairness`, `CallsFairness`)
the forced exit comes, in the push endpoint as its only end; that of the remote
function server is left out, as it must not need it.  The generator promises nothing if answers never
come: `EndsWhenAllHeard` starts from the state where they have.  In the load
test service `LockInit` is strongly fair: `sync.Mutex` hands itself to a waiter that
has starved.  Connecting assumes that the deadline
comes, that attempts of the client end, and, strongly, that the end of the
deadline and of the reflection's calls are noticed although the connection's
state keeps changing.  No fairness is assumed for arrivals, signals, failures, answers or
ticks of the log.

## 4. Proofs

For every value of the constants, under the named assumptions of the modules:

* `ApplyParallel_proofs`: type correctness, `NoGoroutineLost`,
  `FirstErrorReturned`, `BoundedOverrun`, and that the pool implements
  `WorkPool`.  The inductive invariant adds to the properties: which tasks are
  queued (each finished item whose result is outstanding, once), that an item
  past `yielded` is new, that the sum of running and blocked goroutines is
  `working`, and where `firstFail` is while it has not been received.
* `StartSource_proofs`, of the limiter: type correctness, `RateIsLimited`,
  `OnlyCancellationDrops` and that a sleep is at most a delay (`SleepHolds`), for
  any delay, ramp and timing.  `RateIsLimited` is
  not inductive: what spaces the values is the schedule.  The invariant adds that
  the schedule is at least `n - 1` delays past the `n`th last value
  (`ScheduleAhead`), that no value is yielded before its time (`ReadyIsDue`) or
  in the future (`PastYields`), and how many values are in hand at each place.
* `StartSource_proofs`, of the composition: each step of it is a step, or none, of the
  limiter and of the pool (`LimiterInComposition`, `PoolInComposition`), so all
  that is proved of each alone holds in it; `CallsAreLimited`, from the
  limiter's invariant and from when the pool may take what was yielded; and
  `NilMeansAllDone`, from the pool's invariant (nothing new, running or failed is
  left when nil is returned, `NilMeansAllOk`) and from what was read of the file,
  is in the limiter's hand and was handed on (`EndInv`): what was read is either
  handed on or in the hand of a limiter that a cancellation ended, and without a
  cancellation a pass ends with the file.
* `PubSubGenerator_proofs`: `IdleOnlyWhenAllHeard`, for any number of messages,
  callbacks, workers and signals.  The invariant says where a message that was not
  heard of is (`TableInv`: its start is in the channel, or it is in the table), that
  the pool returns nil only after all starts were received (`PoolInv`), what the
  channel may hold (`ChanInv`), and that the timer runs only over an empty table
  (`IdleInv`).  And that a run of the generator is a run of `WorkPool`
  (`GeneratorUsesPool`), which `ApplyParallel` implements.
* `StatsCallers_proofs`: `TableIsOutstandingTasks`, `TimerFollowsIdlePeriod` and
  `IdleCancelOnlyWhenQuiet`, for any number of callers and any timeout.  The
  invariant adds that a caller has at most one event in the channel (`OneEach`),
  that each event is what its caller says where it is (`Fits`), and that an idle
  period is without tasks and no longer than the quiet (`IdleInv`).
* `Reports_proofs`, of sums: `Total(f, S)` is the sum of `f` over a finite set,
  whatever element is taken first (`TotalAny`), and how it changes when one value
  does (`TotalStep`) or all do (`TotalShift`).  That such a sum exists and is the only
  one would be an induction over the parts of `S`; it is proved from a smallest part
  for which it fails, as strict inclusion of finite sets is well-founded.  The sums
  of the models (`MapThenSumSet`) are `Total`s by their definitions.
* `Reports_proofs`, of the windows: `WindowsAddUp`, for any number of
  operations, ticks, reports and starts of ids that are in the table.  The invariant
  (`AccumInv`) adds that the table is finite, that no operation starts in the future,
  and that the time owed is at least what was completed and the total of what is
  going on, and just that until an id was shared.  A tick adds one to the time of
  each operation in the table (`TotalShift`) and of each that was lost from it, an end
  moves one term to `optime`, a start over another drops one (`ForgetTakesItsTime`),
  and a report leaves every operation with nothing in the new window.
* `Reports_proofs`, of the percentiles: `ReportsPercentiles`, for any percentiles from
  1.0 down, any latencies and any order the sort leaves equal ones in.  The walk is a
  recursion over the points, but its state has a closed form (`WalkedTo`): after `i`
  of `n` points, what is left is `n - i`, and each percentile that this has reached
  was read off at the first point where it did (`WalkGoesOn`, `WalkIsWalkedTo`).  At
  that point at most its part of the operations is below the latency, and at any
  larger one more than that (`FirstIsThePercentile`); sorting permutes the points, so
  it changes no number of operations below a latency (`SameNumberBelow`).  The
  invariant (`PointsInv`) says what the points are and that the largest is `worst`.
* `Reports_proofs`, of the data commands: `TotalsAreFinal`, for any number of files,
  workers and buffers.  It takes the pool's invariant (`PoolInv`, as each step of a
  data command is a step of its pool or none): a file is opened by a worker, counted
  when it is over and its result sent after that (`CountedFileInv`), the counter is
  the total of what the counted files moved, and when the pool has returned no
  worker is between the two.
* `PullAgent_proofs`, of the HTTP servers: `OkIsComplete`, for any number of requests
  and calls of either server.  It is not inductive: `HttpInv` adds how many replies
  there are at each place of a handler, that a call in process has none yet, and
  that a push makes one call and goes to `publish` with its reply.
* `PullAgent_proofs`: type correctness, `AckedOnlyAfterResponse`,
  `LeasedIsHandled` and `NoSendOnClosedChannel`, for any number of requests,
  deliveries, signals, failures and restarts.  The invariant adds that a delivery
  in process has its message and a published one its response, that who is in the
  channel's queue is where the code sends (`Senders`), and that the channel is
  closed only by `main`, with no callback left (`ClosedLast`).
* `LoadTest_proofs`: of the work counter, `SlotsCounted` and `NoLostWakeup`; the
  inductive invariant needs that the queue holds exactly the blocked calls, each
  once.  The program's runs are runs of its commands
  (`ProgramRunsCommands`).  Of the service, for any init ids in any order,
  `LocksFollowPhase`, `InitOnlyWhenNew` and `TaskIsInitialised`: the invariant
  (`InitInv`) adds that the last id's init part has succeeded, but for the -1 of the
  start, and that a call with the mutex has another id.  Its steps are steps of the
  semaphore (`ServiceUsesCounter`), so the semaphore's invariants are inherited.
  Of the data commands, `ObjectsAreAtomic` (a file in a bucket is changed by
  `Close` alone) and `LoadedIsWhole`, from what was made, written and found at
  each place of `gentasks` (`GenInv`, `FileInv`) and scanned and run at each of
  `load` (`LoadInv`).
* `FileWorker_proofs`: `SuccessIsAccountedFor` (and the same of exit code 0),
  `AnswersInOrder` and `FirstErrorKept`, for inputs of any length and any number of
  signals.  The invariant ties what was read, written and stored to where the worker
  is: between lines all that was taken is written, whole; from `starting` to
  `write` one message more is in hand, a line or the empty one of an error; the input
  ends with all lines taken, with the answer to that message (`AfterError`) or with
  the context done, which nothing revives (`CancelledStays`); without an error all
  of it is written before the close and stored after it.
* `FileWorker_proofs`, of the process: `AgentRunsCommands`, that each behaviour of
  `AgentSpec` is one of the command it was started with, so that these theorems,
  `OkIsComplete` and `IdleOnlyWhenAllHeard` hold of what `agent_commands` checks.

Model-checked only: liveness (`ReportsAreReceived`, `IdleProcessIsCancelled`,
`StopReturns`, `SignalEndsProcess`, `EveryRequestAnswered`, `OnePassEnds`,
`SlotIsReturned`, `EndsWhenAllHeard`, `RequestsEnd`, `SignalStopsServer`, `FileEnds`), as
fairness and ENABLED are out of the prover's reach.  Every invariant and every
action property of the passing runs is a theorem.

## 5. Plan

The modules of section 2 are written in the order of what depends on them: the
pool and its abstract specification, the statistics loop, the pull worker, the
load test service; the rate limiter, the windows, the generator, the servers and
the file worker; then the compositions in which they run (`StartSource`,
`LoadTest`, `AgentCommands`), the backend connection and the data tools.  What is left, in order:

1. The abstract specification of a command (every task started is ended, the
   process ends when its work has), which the commands' modules implement, so
   that their common part is stated once.
2. `Backend` in the other commands' modules, where it is one step now.

### Not modelled and why

* The set-up of the commands from flags, and the goroutine of `connect` that logs
  the states of the connection.
* Metadata and telemetry (`gcp/google.go`): one-shot I/O.
* The log tick's contents, message formats: no property here is
  about them.
* The pricing services: floating-point computation with no state between
  requests.
* SQL views, dashboards, Terraform, Kubernetes manifests and storage tests:
  declarations; the job's restart policy is part of `PullAgent`.
* The Parallelstore tool and the batch submission: sequential clients of cloud
  APIs.
