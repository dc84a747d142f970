# A verification development for the serverless load test

This directory holds TLA+ models of the serverless load-testing system in this
repository, the TLC configurations that check them on small instances, and
proofs checked by TLAPS. The system is a fleet of Lambda workers that drive an
ElastiCache Serverless cache, a Step Functions state machine that runs the
fleet, an aggregator that turns the workers' results into a report, a live
reader, an API, two browser pages and a command line runner.

Contents: [the system](#the-system), [modules](#modules),
[how the models correspond to the code](#how-the-models-correspond-to-the-code),
[runs and bounds](#runs-and-bounds), [fairness](#fairness), [proofs](#proofs),
[disagreements](#disagreements-between-the-code-and-what-is-said-of-it),
[what is not modelled](#what-is-not-modelled), [plan](#plan). Paths are relative
to the repository's source tree.

Use: `tlc -config MCDashboard.cfg MCDashboard.tla`, `tlapm DashboardProofs.tla`.
`PROJECT.json` maps every definition that models code to its lines and lists
runs, hazards, mutants (operators that model a plausible bug, under a comment
that starts with "Mutant") and theorems.

## The system

| Component | Source | State it keeps | Operations | Model |
|---|---|---|---|---|
| Load loop of a worker | `lambda/load-generator/traffic_generator.py` (`run_traffic`) | task list, operation counter, semaphore, start time | one pass per 10 ms tick, `execute_op` tasks, `gather`, `on_snapshot` | `TrafficGenerator` |
| Metrics collector | `lambda/load-generator/metrics_collector.py` | open window, window start, elapsed time, time series | `record_*`, `maybe_flush`, `flush_final`, `build_summary` | `MetricsCollector` |
| Pre-population | `traffic_generator.py` (`pre_populate`) | batch of tasks | batched writes, swallowed failures | `Seeding` |
| Key generators | `lambda/load-generator/key_generator.py` | CDF, next sequence number | `next_key` | `KeyGenerator` |
| Worker Lambda | `lambda/load-generator/handler.py`, `glide_client.py` | clients, cache keys `exec:`, `trace:`, `live:` | connect, write metadata, trace, snapshots, return | `WorkerLambda`, `LiveCache` |
| Live reader | `lambda/live/handler.py` | a cached connection | read metadata, scan the live keys, trace, aggregate | `LiveReader`, `LiveAggregate` |
| redis-py, as vendored | `lambda/live/redis/` | connection pool, socket | send, read, retry, disconnect | `RedisClient` (the path of one command) |
| Test execution | `infra/lib/step-functions-stack.ts`, `lambda-stack.ts` | execution status, Map items, running Lambdas | pre-populate, fan out, aggregate, time out | `StateMachine` |
| Aggregator | `lambda/aggregator/handler.py`, `histogram_merge.py` | none (report in S3) | align, merge, percentiles, events, summary, put | `Aggregator`, `HistogramMerge` |
| API | `lambda/api/handler.py` | S3 `current_execution.json`, results | start, status, latest result, current, live | `Api` |
| Dashboard page | `website/app.js` | `running`, interval handles, selected scenario, `localStorage` | cards, Run, Stop, live poll, status poll | `Dashboard` |
| Live console page | `website/console.html` | tracked execution, interval handles, trace cursor | load, storage event, live poll, status poll | `Console` |
| Command line runner | `run_test.sh` | the saved result | start, poll until terminal, save | `RunTest` |

**How they interact.** The dashboard posts a scenario to the API, which starts a
Step Functions execution and writes `current_execution.json`; the command line
runner starts one directly. The execution
optionally invokes one load-generator Lambda to seed keys, then a Map state
invokes one per worker; each worker runs the load loop for the test's duration,
writing live snapshots and trace entries into the cache as it goes, and returns
its time series and summary. The aggregator receives all of them and stores the
report in S3. Meanwhile the dashboard polls the status and the live
data every 5 s (the live data through the live reader, which reads the workers'
keys one by one); the console learns of a run from `localStorage` (written by the
dashboard) or `/api/current` and polls them every 6 s and 4 s. Nothing is shared in memory
between components; what is shared is S3, the cache, `localStorage`, and the
reserved concurrency of the load generator.

**What is hard, and what makes each part correct.**

* *Load loop and collector.* Thousands of tasks record into a window that the
  loop closes and swaps; the task list is pruned while tasks are waiting for a
  permit; the collector's clock is nominal while the real one is late; the last
  window may be dropped. Correct means: every operation counted exactly once,
  nothing outstanding when the run returns, a time axis that is ordered and never
  ahead, and load that never runs ahead of its plan or into GLIDE's limit.
* *Seeding.* Its semaphore knows nothing of the clients' limit, and nobody looks
  at the exceptions that `gather` returns. Correct means: what the load reads was
  written or failed in the cache, and under a limit that is too low the keys that
  are read most are not those that are refused.
* *Live progress.* Every write is two commands that can fail in between, workers
  begin, replace their snapshots and end while they are read, and the reader's
  connection, on which replies carry no identity, is kept from one invocation to
  the next. Correct means: what is counted is current, belongs to its worker and
  misses none that reported, the trace explains it, and keys expire.
* *Test execution.* Workers raise, are killed, are refused for concurrency, or
  are retried while the first attempt still runs; Lambdas outlive their
  execution. Correct means: a report is made from all workers or not at all,
  keys are seeded before load is counted, the ends are final, and everything
  ends. The runner beside it gives up an earlier result only for a complete test,
  and never passes off half an output as saved.
* *Aggregator.* Workers' windows are missing, late or double at a timestamp.
  Correct means: sums agree with the summary, percentiles of the merged
  histogram are ranks of all samples, events come in order, and the console has
  shown what the report says later.
* *API.* Requests interleave between calls to Step Functions and S3, and a
  handler can be cut off between two. Correct means: the current object and the
  answers are about tests that exist and do not go back in time, and a name is
  one test.
* *Pages.* Answers arrive late, overlapping or never, and interval handles are
  globals shared by the callbacks of all runs. Correct means: outcomes are those
  of the execution they name, one test is polled and shown at a time, and the
  page always leaves the running state.

## Modules

| Module | Role |
|---|---|
| `MetricsCollector` | the collector's state and operators; extended by `TrafficGenerator` |
| `TrafficGenerator` | one worker: loop, operations, semaphore, GLIDE client limits, clock |
| `OperationLedger` | abstract: what a test promises about its numbers |
| `KeyGenerator`, `Seeding` | the keys a worker draws; seeding them, extending the former |
| `LiveCache` | the keys of one execution in the cache; extended by the next two |
| `WorkerLambda` | what the workers' Lambdas write into the cache |
| `RedisClient`, `LiveReader` | the client and, extending it, the handler of the live reader |
| `LiveProgress` | composes workers, cache, connection and reader |
| `StateMachine` | executions, their Map states, Lambdas, concurrency and timeouts |
| `TestRun` | abstract: what a test promises about its phases |
| `RunTest` | composes `StateMachine` with the command line runner |
| `HistogramMerge`, `Aggregator`, `LiveAggregate` | the aggregator as operators on the workers' series, and the live reader's aggregate in the same terms |
| `ReportedSeries` | the series that the aggregator is given, as they grow window by window, and what it must make of them |
| `Api` | handlers of concurrent requests, call by call |
| `Dashboard`, `Console` | the two pages |
| `*Proofs` | theorems about the module of that name; `StateMachineProofs` also about `RunTest`, `LiveProgressProofs` also about `Console`, `SeedingProofs` about `KeyGenerator`, `AggregatorProofs` about all that `ReportedSeries` extends |
| `SumTheorems` | lemmas: induction by a least element, sums over finite sets |
| `MC*` | instances for TLC |

`TrafficGenerator` composes the loop with the collector, and implements
`OperationLedger`; `StateMachine` composes the state machine with the Lambdas it
invokes, and implements `TestRun`. The models meet at their interfaces: a worker
of `StateMachine` is a `WorkerLambda` whose load is a `TrafficGenerator` that
runs for `TestDuration` and may fail, its pre-populate Lambda a `Seeding`, an
aggregator input is a series that `MetricsCollector` can produce
(including a last window with the timestamp of the one before it), what
`LiveReader` reads is what `LiveAggregate` makes an answer of, and the
executions of the pages and the API are those of `StateMachine` reduced to their
status.

## How the models correspond to the code

**`TrafficGenerator`.** asyncio runs one task at a time, so an action is the code
between two awaits. `Pass` is one iteration of `run_traffic` up to its first await:
the operations of the tick are created (`opCounter`, `tasks`), and the window is
flushed when due; if progress is reported the pass suspends in the `SET` of the
live key (`LiveSetReturned`, `SnapshotPublished`), otherwise it prunes the task
list and sleeps. `StartOp` is `execute_op` up to its command: `asyncio.Semaphore`
serves waiters in order, so the operations that have acquired it are
`0..acquired-1`. A client with `InflightLimit` commands in flight refuses
(`rejected`). `FinishOp` records one outcome: success in a bucket, throttle, or error.
`StopIssuing` is the `break`, and `Finish` the end of `gather` with
`flush_final`. The clock unit is one tick of the loop. Byte counters, key choice and
payloads are left out.

**`Seeding`, `KeyGenerator`.** `CreateBatch` is the loop of `pre_populate` up to
the await of its `gather`, `StartWrite` and `FinishWrite` are `write_key` before and
after its await, `Gathered` the end of a batch. A `SET` succeeds, fails, or is refused by a full
client; one that fails, as after GLIDE's `request_timeout`, may be executed at any later time
(`ExecutedLate`), also when `pre_populate` has returned. `inflightLimit` is the configured limit of the clients,
chosen in `Init`, so that one run has it both below the semaphore and as large. `KeyGenerator` gives the keys that each name of a
distribution can yield; the binary search of the Zipfian one is a recursive function on
its range, over weights that are rounded down, so that the cumulative distribution can
end below 1, as floating point can.

**`LiveCache`, `WorkerLambda`.** A key's value is a set, empty when the key is
absent, and `expiring` the keys with a time to live: `SET` takes it away, as in Redis,
`RPUSH` keeps it. A write of `async_handler` is two actions, `Stored` (its `SET` or
`RPUSH` returns) and `Refreshed` (its `EXPIRE`); `WriteFails` covers the exception that
is swallowed and a kill, before or after the cache executed the command. `at` is the
write, or what else the handler is doing. Expiry has no clock: a key may vanish when
the times in the code allow it, as `LiveProgress` says where it defines that.

**`RedisClient`, `LiveReader`.** One connection (the reader sends one command at a
time). `Send` is `get_connection` with its check for unread data and
`send_command`; `CommandFails` is a timeout or a closed connection, which
`call_with_retry` answers by `disconnect` and `Resend` on the same connection object,
up to its retries; `ServerAnswers` queues a reply, which only its place in the stream relates to
a command. `LiveReader` reads the metadata, the live keys by index until `Breaks`, and
the trace; `Raise` is an exception that leaves the handler, `Killed` the
Lambda's timeout, after which the environment and its socket are gone. The server may act between any two
steps; what only computes the answer is one step. `LiveAggregate` is the answer.

**`StateMachine`.** `step` is the state of the machine, `task` and `attempt` what
Step Functions knows of each Lambda task, and `lambdas` the invocations that are
running, whether or not an execution waits for them. `ShouldPrePopulate` is the
choice in `StartExecution`. The source declares no retry; `LambdaInvoke` of the CDK
adds one for faults of the Lambda service (`retryOnServiceExceptions`), which is an
external assumption modelled by `Fault`. A refused invocation (`InvokeThrottled`),
a raise (`Raise`) and a kill (`Kill`) are not in that list and fail the execution. The
aggregator may store its report and then be killed (`Break`).

**`RunTest`.** `Launch` starts an execution, whose answer may be lost; others start
executions too. `SeesSuccess`, `SeesFailure`, `FetchOutput`, `Truncate`, `SaveOutput` and `ShowCopy` are the steps of the
script in its order, and `CallFails` is `set -e`, or a kill: any of them can end the script while the
execution goes on. The result file holds what was there before (`Earlier`) until the shell's redirection empties it
(`Truncate`), and `Partial`, an empty file or one that breaks off, until `json.tool` has written all of the output (`SaveOutput`).

**`Dashboard`, `Console`.** JavaScript runs one callback at a time, so an action is
the code from one await to the next; a request is a counter (`asked`) or a slot
(`live`, `status`) and its answer an action that may come at any time, or never.
A request that fails is `NoNews` (logged and ignored) or `StartFailed`. With `throws`, chosen in `Init`, saving or showing an
outcome may throw (`CompletionThrows`), between the clearing of the intervals and `stopDemo`.
The dashboard's status poll has the execution name in a closure, the console reads
the global; the models keep that difference. `patient` and `oneByOne` are chosen in
`Init` and never change: they restrict what the *user* does (waiting for what is
outstanding before the next click; executions that come up one after another), so
one run checks the properties of every user and those that only hold for such a
one. `execution` is external, reduced to none, RUNNING, SUCCEEDED, FAILED. The specification of
`Console` is `ConsoleSpec`, since one module proves theorems about it and about `LiveProgress`.

**`Api`.** A handler is a slot with what it has yet to do; `CutOff` ends it between
two calls (a timeout of the Lambda). `s3Fails`, chosen in `Init`, lets `put_object`
fail, which the handlers swallow. Step Functions takes a start with a name and input
that are running for the same start, and refuses another input under that name. The
routes that only read have no action.

**`Aggregator`.** `Point` is one entry of `aggregate_time_series`, `DetectEvents` and
`BuildSummary` the functions of those names. Percentages are integers in tenths, as
the code rounds them; which ties go up is a constant (`TiesUp`), since `round` of a double decides a decimal tie by the
double nearest to it. No property depends on it, only on a tie being decided the same way each time. `ReportedSeries` lets each
worker's series grow window by window, so every reachable state is one input and
the properties are invariants over it. `Ascending` is `sorted`, defined by what it returns.

## Runs and bounds

Every run checks deadlock except `console`, `api`, `api_latest`, `aggregator` and `seeding`, where
the system may really stop: bounded requests and tests are used up, the inputs are complete, or seeding has returned.
The dashboard does not stop, since cards stay active, nor does `live`, whose reader is invoked again.

| Run | Question | Bounds and why they are enough |
|---|---|---|
| `worker` | Is every operation counted once, gathered and reported in order, under all interleavings, and does the run end? Does it implement `OperationLedger`? | two clients with a limit of 1 (round robin over clients, refusals), a second of three ticks with a load of three per second (one operation per tick), a duration of four ticks (one full window, one partial), up to one tick of setup and lateness up to tick 6, two latency buckets, pruning above one task (so that it bites), a semaphore cap above the two places that the clients have, live reporting on (it uses client 0 outside the semaphore) |
| `seeding` | Does the load find its seeds, which seeds can a low limit cost, and does the Zipfian search find every key? | seven keys in batches of five (a short last batch, three keys of a batch for one client), two clients, a semaphore of 2, limits of 2 (as large, so that one permit too many is refused) and of 1 (below it, so that seeds are refused); a precision of 12, with which rounding leaves the distribution below 1 |
| `live` | Is an answer of the live reader fresh, complete and explained by its trace, and do keys expire? | two workers, one with two snapshots (a replaced one); three keys to scan without metadata (one more than workers); one failed write of either kind that a reader can miss; one retry (a command sent twice) |
| `executions` | Is a report never partial, and is each test a `TestRun`, with two tests sharing the concurrency? | two tests of two workers, concurrency 2 (so either test starves the other), Lambda timeout 2, execution timeout 4, failures on; without retries |
| `retries` | What can a lost attempt break, and what can it not? Does everything end, and what does the script save? | one test, three workers on two Map places, one retry, the script starting it or another user |
| `long_test` | violation: a duration in 1..1800 s does not fail | five-minute units: 30 minutes, Lambda timeout 15, execution timeout 120 |
| `dashboard` | Are outcomes true, is the button released, is one test polled and shown? | two runs (the second meets what is late of the first), two scenarios, one outstanding request per interval, two for the patient user |
| `dashboard_stale` | violation: the dashboard "polls for completion" for every user | as above |
| `console` | Is the trace shown once and in order, is the status true, does tracking end? | two executions, traces of two entries, two slots (overtaking), two trackings |
| `api` | Is `current_execution.json` true, does it go back, is a name one test? | two seconds (equal and different names), two configurations, two concurrent requests |
| `api_latest` | violation: "Get latest results from S3 for a scenario" | a listing of one key in place of ten, two results |
| `aggregator` | Do sums, summary, percentiles, events and the live aggregate agree? | one worker with up to three windows and one with one, five window contents chosen around the thresholds (throttling of 0, 3, 40, 50 and 100 per cent; samples in the infinite bucket; errors only), three buckets; no share of these contents is a tie, so `TiesUp` is empty |

Bounds on counters are constants of the modules (`MaxNow`, `MaxSetup`, `MaxStart`, `MaxRuns`,
`MaxInFlight`, `MaxTrace`, `MaxTracked`, `Slots`, `MaxSecond`, `MaxWindows`, `MaxFailures`, `Failing`,
`Precision`, `InflightLimits`). In `TrafficGenerator` the clock may pass
`MaxNow` to let a sleep end, so the bound never blocks the loop.

What the properties say, beyond the table:

* `EveryOpCountedOnce`, `PruneKeepsPending`, `TimestampsOrdered` (only the last two snapshots may share a timestamp),
  `ReportAddsUp`, `NeverAheadOfPlan` (a late loop does not catch up), `RefusedOnlyWhileUnbalanced` (a command is refused only
  when another client has room or a snapshot is being published: never because the semaphore is too large),
  `LedgerKept`, `RunEnds`.
* `ReadsFindSeeds` (under a limit not below the semaphore of seeding, which is what makes it true). `HotKeysAreSeeded`: under any limit, the first
  keys, as many as all clients take at once, are never refused, in whatever order the writes before them end. They are
  the keys that a Zipfian test reads most. Both concede a key whose `SET` failed or timed out. `ZipfIsInverse`.
* `NoKeyForever`: only a write that failed between its two commands leaves a key without a time to live.
  `WholeFleetIsCounted`: the scan does not break before a worker whose key was there all through the call.
  `AnswersAreFresh`: a value counted for a worker was in that worker's key at some moment of the call; no late reply of an
  earlier command is taken for it. `CountedWorkersAreTraced`: a worker that is counted has told that it is connected.
* `StoredIsComplete`, `RunsKept`; `SucceededIsOver`, `SeedsBeforeLoad`, `OnlyOthersThrottle`: with the service's
  retry, a *lost* attempt (one Step Functions has given up on, though it may run on) is the only thing that can
  outlive a success, seed during load, or use up the concurrency. `SavedIsComplete`: the earlier result is emptied only for a
  test that is complete and whose report is in S3, and a file that breaks off is left only by a script that fails. It does not say that the
  earlier result survives until the new one is whole; the code does not keep that. `ScriptEnds`, `LoadEnds`.
* `OutcomesAreTrue` for every user, `ButtonNotStuck` and `RunningEnds` too, except for an outcome whose handling throws; `OnePoller`, `OneTestShown`,
  `PatientPolls` for a patient one. A user who is not patient violates each of the
  latter; `PollsForCompletion` is the one that contradicts a document and has a run.
* `TraceInOrder`, `OneTimer`, `StatusIsTrue` when executions come up one by one; `TrackingEnds` always.
* `CurrentIsTrue`, `OneTestPerName` always; `SuccessIsNotActive` when S3 accepts writes.
* `SummaryAgreesWithSeries`, `PercentilesAreRanks`, `ResolutionsFollowStarts`, `LiveAgreesWithReport` (except for the
  bound of the infinite bucket, and for a share of throttling that is lower because errors count as attempts).

## Fairness

* `TrafficGenerator`: weak fairness of the clock, of the loop's next step, of a waiting operation when a permit is
  free, and of the end of some operation in flight. The event loop runs every ready task, and GLIDE's request
  timeout bounds each command. No fairness is assumed of a particular outcome.
* `RunTest` (run `retries`): only the clock and the two kinds of timeout are fair, and the script's own polling and calls: it
  sleeps ten seconds and asks again, and a call returns or fails. Nothing is assumed about Lambdas: they need not return, so
  what ends an execution in `ScriptEnds` and the load in `LoadEnds` is a timeout.
* `Dashboard`: the start request is handled and answered (or fails), executions end, and the status interval fires; strong
  fairness says that an end that is asked for again and again is seen: any single answer may be lost, not all of them. `Stop`,
  cards and Run are never forced.
* `Console`: requests are answered or fail, executions end, and the status interval fires again and again and finds the end
  in the end; no answer to a particular request is assumed.
* The other runs state no fairness and check no liveness.

## Proofs

Each theorem is proved for every value of the constants, from the assumptions named in the modules:
`CollectorAssumption` and `TrafficAssumption` (finite non-empty buckets, positive sizes and durations, an interval that
is whole seconds), `KeyAssumption` and `SeedingAssumption` (positive sizes), `FleetAssumption`, `WorkerAssumption`,
`RetryAssumption` and `ReaderAssumption` (at least one worker, natural bounds, no more workers than keys scanned),
`StateMachineAssumption` (finitely many workers, at least one; reserved concurrency at
least the Map's; positive timeouts), `RunTestAssumption`, `DashboardAssumption`, `ConsoleAssumption` and `ApiAssumption` (natural
bounds, no value standing for "none" among the real ones); `HistogramAssumption` (a histogram has a bucket besides the
infinite one), `AggregatorAssumption` (finitely many workers, at least one; a request costs at least one ECPU, as every scenario's
and page's payload does) and `SeriesAssumption` (windows with natural counts). Every invariant and every action property of the passing runs has a
theorem.

**`SumTheorems`.** The provers cannot instantiate an induction theorem whose parameter is an operator. `InductionOverNat` and `InductionOverSubsets` are
induction for a *set* (of numbers, of subsets): one that holds the start and is closed under the step is everything. The first follows
from a least element (`LeastNatural`): that of the numbers which the set leaves out. From them: a fold over a finite set unfolds, has a type, and takes its elements in any order
(`FoldTakesAny`); hence sums add over a union and a pointwise sum (`SumOfUnion`, `SumOfPlus`), two sums swap (`SumsSwap`), and a sum is that of
its groups (`SumByParts`).

**`TrafficGeneratorProofs`**

* `TypeCorrect`: `TypeOK` is inductive on its own: it orders `inflight` below `acquired` below `opCounter`, which the others need.
* `PendingIsKept` (`PruneKeepsPending`): with `GatherInv` = `TypeOK`, `PruneKeepsPending` and `DoneIsQuiet` (nothing is
  pending when the run is done). The last one is needed for `Finish`, which leaves `gather` by
  `tasks \cap Pending = {}`, and that says something about `Pending` only while `tasks` covers it.
* `CountedOnce` (`EveryOpCountedOnce`, and at the end all that were issued): with `CountInv`, which adds `EveryOpCountedOnce` to `GatherInv`. `Counted` is the
  report and the open window, except after `flush_final` has copied the window without resetting it; the lemmas
  `FlushWindowKeepsCounts` and `FlushFinalKeepsCounts` say that neither flush changes it.
* `WorkerKeepsLedger` (`LedgerKept`): the refinement of `OperationLedger`. Every step is a step of the ledger or a
  stutter: `FinishOp` counts, `Pass` issues and perhaps publishes, `Finish` closes.
* `ClockNeverAhead` (`TimelineNeverAhead`): inductive with `TypeOK`.
* `SnapshotsInOrder` (`TimestampsOrdered`): with `AxisInv`, which adds to the timeline that the i-th snapshot has
  the timestamp `i * IntervalSeconds`, except that the one `flush_final` appends is not below that of its predecessor. It rests on
  how Python rounds a quotient (`RoundExact`, `RoundAtLeast`).
* `LoadNeverAhead` (`NeverAheadOfPlan`): with `PlanInv`, which says how many operations may have been issued at the moment a pass begins, and
  when the current sleep ends. Without the bound on `wakeAt` a step of `Wake` would not preserve it. It needs
  monotonicity of integer division (`DivisionMonotone`), proved from its defining inequalities.
* `OneClientNeverRefused` (`NeverRefused`): with `RefusalInv`; all operations in flight are then those of client 0, and the
  semaphore is no larger than its limit.
* `RefusalsAreLocal` (`RefusedOnlyWhileUnbalanced`), an action property, from `TypeOK`: if every client were full, the operations in flight would be as many as
  the clients have places (`FullClientsCarry`, by induction over the clients), which is no less than the semaphore has, and then none could start.
* `ReportAdds` (`ReportAddsUp`): with `SumInv` = `TypeOK`, `ReportAddsUp` and `Balanced(current)`: the latencies of the open window add up to its
  successes. A flush appends a column to each sum (`ColumnGrows`), and without `Balanced` nothing would be known of what it appends.

**`SeedingProofs`**, all from `SeedInv`: `TypeOK`, `BatchesComplete` (nothing is in flight outside `gather`), `Outcome` (a write that began is in flight, refused,
or in the cache or among the failed keys), `NoneRefused` (a limit not below the semaphore is never reached, since the commands of a client are among those that
hold it) and `FirstAccepted` (no limit is reached by the first keys).

* `SeedsStay` (`SeedsAreThere`).
* `HotKeysStay` (`HotKeysAreSeeded`): the commands of the client of task `i` are of tasks before `i` with the same remainder by the number of clients, which
  division maps into the numbers below `i \div NumClients` without a collision (`FirstHaveRoom`), and these are fewer than the limit.
* `SearchInverts` (`ZipfIsInverse`), for every size of the key space and every precision: the cumulative distribution grows
  (`CumulativeGrows`), the search is well defined because each step narrows its range (`SearchExists`, by induction over its length), and the
  key it ends at is the first whose share reaches the random number, or the last key (`SearchFinds`).
* `ReadsFind` (`ReadsFindSeeds`): a key drawn by any name but "sequential" is one of those that are seeded (`NamesFindSeeds`; for the
  Zipfian from `SearchFinds`).

**`LiveProgressProofs`**, of `LiveProgress`

* `TypeCorrect`. `KeysExpire` (`NoKeyForever`): inductive with `TypeOK`.
* `RepliesAreFresh` (`AnswersAreFresh`) and `FleetIsCounted` (`WholeFleetIsCounted`), with `CallInv`: `ReplyExpected` says
  that the connection carries at most one command or reply, and only that of the command that is awaited; `InSection` that this is the command of the
  handler's place in its scan; `Observed` what was in the cache during the call; `CountedSoFar` extends `WholeFleetIsCounted`
  to a scan in progress. `ReplyExpected` is why `disconnect` before a retry matters: without it a late reply would be next in the stream.
* `CountedAreTraced` (`CountedWorkersAreTraced`), with `TraceInv`, which adds `AllToldFirst` (a worker whose snapshot is or was seen has its entry in the
  trace, or is excused by a failed write) and `TraceTells` (the same of the reply and of what was read).
  It needs `NoKeyForever`, because the trace may lapse only when no live key is left that never expires.

**`LiveProgressProofs`**, of `Console`: `ConsoleTypeCorrect`, with `PollsForOne` (as many intervals as executions tracked); `TraceIsShownInOrder` (`TraceInOrder`),
`TimersAreCleared` (`OneTimer`) and `StatusIsShown` (`StatusIsTrue`), with `PageInv`: what is outstanding is about the execution that the page tracks or
tracked last (`AsksForCurrent`), and while the page loads nothing is (`Untouched`).

**`StateMachineProofs`**, of `StateMachine`

* `TypeCorrect`: with the fact that an execution is in a state of the machine exactly while it runs.
* `ReportsAreComplete` (`StoredIsComplete`): with `BookInv` = `TypeOK`, `InvokedOnce` (an attempt is one Lambda), `InStep` (a Lambda that is awaited
  belongs to the current state) and `AggregatedLast` (the aggregator's turn comes after all workers have delivered). It is
  not inductive alone: an aggregator that outlives its execution stores its report later, and only `AggregatedLast`, which
  mentions the task rather than the state, then says that it was complete.
* `ExecutionsKeepRuns` (`RunsKept`): the refinement of `TestRun`, from `BookInv`.
* `SeedingPrecedesLoad` (`SeedsBeforeLoad`) and `SuccessIsTheEnd` (`SucceededIsOver`), with `OverInv`, which adds to `BookInv` that the Lambda of a
  task that succeeded, and a seeding Lambda once the Map state has been reached, is a lost attempt.
* `ThrottledByOthers` (`OnlyOthersThrottle`), from `BookInv`: the awaited Lambdas of one test inject into its tasks in the Map's
  places (`FewAwaited`), of which there are fewer than `MaxConcurrency`.

**`StateMachineProofs`**, of `RunTest`: `ScriptTypeCorrect` and `SavesAreComplete` (`SavedIsComplete`), with `ScriptInv` = `OverInv` and `Told`, which ties the script's place and its file to what it
has started and seen. Its steps are steps or stutters of the executions (`RunStepIsNext`), and a success lasts (`SuccessLasts`).

**`DashboardProofs`**

* `TypeCorrect`: including that the globals refer only to intervals that fire.
* `OutcomesReported` (`OutcomesAreTrue`): with `InOrder` (a run not yet started has no request; one whose request
  the API has not handled has no execution), since `PostHandled` must not restart an execution whose outcome is shown.
* `ButtonComesBack` (`ButtonNotStuck`): with `InOrder`; the interval that would release the button is cleared only by `stopDemo`, which releases it, or by a handler that then throws.
* `PatientPollsOnce` (`OnePoller`), `PatientSeesOneTest` (`OneTestShown`), `PatientIsServed` (`PatientPolls`), with `PatientInv`: `Patience`
  says that whatever is outstanding is about the last run, whose scenario is the selected one, and that nothing is while results are loaded.

**`ApiProofs`**: `TypeCorrect`, `CurrentTellsTruth` (`CurrentIsTrue`), `SuccessStays` (`SuccessIsNotActive`) and `NamesAreTests` (`OneTestPerName`), all
from `ApiInv`, whose core is `CallsOK`: what a request that is being handled knows (that a test was started with its
configuration, or has succeeded) remains true until it writes it. That is why interleaving does no harm to these three.

**`AggregatorProofs`**, of `ReportedSeries`. What the run checks says of any series of the right type what the aggregator makes of them, so each property follows from
`TypeCorrect`, and the work is in the lemmas about the operators.

* `TypeCorrect` (`TypeOK`: counts are natural, and successes are the samples of the histogram). `AscendingSorts` says that a finite set of
  numbers has a sequence of all its members in order, which is what the code's `sorted` relies on.
* `SummaryAgrees` (`SummaryAgreesWithSeries`): every snapshot is in the group of exactly one timestamp (`CountedInOneGroup`), so that the
  sum over the groups is the sum over all (`SumByParts`).
* `RanksAreMerged` (`PercentilesAreRanks`): the cumulative count of a merged histogram is the sum of those of its
  parts (`MergedCumulative`, an exchange of sums), and a percentile is the first bucket that reaches its share (`PercentileIsRank`).
* `ConsoleAgrees` (`LiveAgreesWithReport`): field by field; the live reader's share of throttling is no greater because it has more attempts, and rounding keeps that, whichever way ties go (`TenthsFacts`).
* `ResolutionsFollow` (`ResolutionsFollowStarts`): of the points before a resolution, the last that was not throttled comes before a start.

**Only model-checked.** Liveness (`RunEnds`, `ScriptEnds`, `LoadEnds`, `RunningEnds`, `TrackingEnds`), since proofs
under fairness need `ENABLED`.

## Disagreements between the code and what is said of it

With a run that shows it (`PROJECT.json`, "findings"):

* `long_test`: a test of 1800 s, the documented maximum, is killed at the 15 minutes of its Lambda.
* `dashboard_stale`: a late status answer of one run stops the polling of the next.
* `api_latest`: `list_objects_v2` lists the alphabetically first keys, so after ten results the latest is no longer served.

Met while reading or modelling, without a run:

* A last window that is shorter than 0.1 s or holds neither success nor throttle is dropped by
  `flush_final` (`metrics_collector.py:86-95`), although its docstring says that it flushes any remaining data; `OperationLedger`
  says what may be missing from a report.
* `traffic_generator.py:117` fires at least one operation per tick, so a spike that should "Hold at 10% for first half"
  (`:28`) holds at no less than 100 per second.
* `traffic_generator.py:161` seeds with up to 500 writes at a time, whatever the clients' limit; below 500 seeds are refused,
  and nobody reads the exceptions (`:175`).
* The scenario `hot_key` asks for the distribution "zipfian" (`scenarios/hot_key.json:11`), but the generator knows "zipf" (`key_generator.py:67`) and
  silently takes the uniform one. Sequential keys of all workers start at 1 (`:59`), so they overwrite each other in a scenario meant to grow memory.
* `lambda/live/handler.py`: four attempts of up to 5 s each, which the client's default retries make of a command, exceed the 15 s of its Lambda, so that
  a cache that does not answer kills the handler before it can raise; metadata is read before the live keys, so an answer
  can count workers with `lambda_count` 0; a percentile in the last bucket is infinite (`:45`), which is not JSON; a snapshot counts
  for up to five minutes after its worker has ended (`load-generator/handler.py:94`).
* `load-generator/handler.py:65` and `:93` set a key and its time to live in two commands, and every `SET` of a live key takes
  the time to live away in between.
* `run_test.sh:94` truncates the saved result before it knows that the new one can be formatted: a failure there leaves an empty file
  (`Partial` in `RunTest`).
* A `SET` of seeding that raises after `glide_client.py:15`'s 500 ms may be executed during the load: `gather` waits for the tasks, not for the cache.
* `histogram_merge.py:37` calls the bound that stands in for the infinite bucket a conservative upper bound; the samples lie above it.
* `app.js:690`: an exception of `setItem` or `loadRealResults` (`:661-672`) reaches the `catch` after the intervals have been cleared and before `stopDemo`, so the
  page shows a running test until Stop is pressed.
* `api/handler.py:161`: a test that was started runs on when the write of `current_execution.json` fails or the handler is cut off before it, and nothing
  tells the console of it.
* `console.html:488` shows a late answer about the previous execution in the trace of the new one (`:486` says that it shows new trace entries).
* `api/handler.py:193` writes `current_execution.json` for the execution it was asked about, even while another test
  runs, and never records that a test failed (`:201-203`).
* `aggregator/handler.py:79` counts a worker twice in `clients` at a timestamp that its last two windows share; `:181` misses
  the end of throttling when it falls slowly; `:160-161` multiplies served demand by the served fraction once more.
* `ARCHITECTURE.md:308` still says that there is no live streaming during a test.

## What is not modelled

* *redis-py*, vendored under `lambda/live/redis/`, is about 50 000 of the 51 000 lines of implementation in this repository. The system
  reaches it only through `redis.Redis` with `get` and `lrange` from `lambda/live/handler.py`, so `RedisClient` models what such a
  command does on its way. Clusters, sentinels, asyncio, pipelines, publish and subscribe, client-side caching, RESP3, search and the other commands are never run
  here, and a model of them would say nothing about this system; the share of lines that the map covers stays low for that reason.
* *Deployment stacks*: declarative; their limits and timeouts are constants of `StateMachine`.
* *Scenario files, architecture page, sample data*: static.
* Within modelled components: bytes and costs, chart rendering and simulated data, the elapsed-time
  displays, log texts; in `LiveProgress` a second attempt of a worker that writes the same live key (`StateMachine` says when one runs), and the
  15 s of the reader as a clock (`Killed` may come at any time); in `Api` the routes that only read, and the call of the live reader.

## Plan

Done, in this order: worker (`MetricsCollector`, `TrafficGenerator`, `OperationLedger`), executions (`StateMachine`, `TestRun`),
dashboard, console, API, aggregator; then `LiveProgress` with its parts, `Seeding` with `KeyGenerator`, `RunTest`, `LiveAggregate`, and a
proof of every safety property.

What could follow:

1. The dashboard's storage entry composed with the console, so that the dashboard's own writes replace the external storage events, and a
   configuration of the console with overlapping executions.
2. `LiveProgress` with two attempts of one worker, after a fault of the Lambda service: the snapshots of a lost attempt against those of its successor.
3. That the percentiles of a merged histogram lie between those of its parts: a corollary of `MergedCumulative` and `PercentileIsRank`.
