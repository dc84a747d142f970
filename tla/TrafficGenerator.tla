------------------------- MODULE TrafficGenerator -------------------------
(***************************************************************************)
(* The load loop of one worker: run_traffic of                             *)
(* lambda/load-generator/traffic_generator.py with its collector.          *)
(*                                                                         *)
(* asyncio runs one task at a time, so every action below is the code      *)
(* between two awaits.  The load loop creates operations as tasks, flushes *)
(* the metrics window, publishes a snapshot, prunes its task list and      *)
(* sleeps one tick; each operation waits for the semaphore, sends one      *)
(* command through its GLIDE client, and records the outcome.  Operation n *)
(* is the n-th task created, counted from 0; clients are used in turn.     *)
(*                                                                         *)
(* External: GLIDE refuses a command with a RequestError when its client   *)
(* has inflight_requests_limit commands in flight, and answers every other *)
(* command, with a TimeoutError after request_timeout at the latest.       *)
(* asyncio.Semaphore serves its waiters in order.                          *)
(***************************************************************************)
EXTENDS MetricsCollector

CONSTANTS
  NumClients,     \* len(clients)
  InflightLimit,  \* inflight_requests_limit, per client
  SemaphoreCap,   \* 5000 in the code: the ceiling of the semaphore
  Duration,       \* duration_seconds, in clock units
  MaxRps,         \* target_rps
  Pattern,        \* ramp_pattern
  PruneThreshold, \* 10_000 in the code: the task list is pruned above this
  Reporting,      \* on_snapshot is given (the test has an execution_name)
  MaxSetup,       \* bound: units between creating the collector and the loop
  MaxNow          \* bound: the clock stops here

ASSUME TrafficAssumption ==
  /\ NumClients \in Nat \ {0}
  /\ InflightLimit \in Nat \ {0}
  /\ SemaphoreCap \in Nat \ {0}
  /\ Duration \in Nat \ {0}
  /\ MaxRps \in Nat \ {0}
  /\ Pattern \in {"linear", "step", "spike"}
  /\ PruneThreshold \in Nat
  /\ Reporting \in BOOLEAN
  /\ MaxSetup \in Nat
  /\ MaxNow \in Nat /\ MaxNow > MaxSetup + Duration

VARIABLES
  pc,        \* where the load loop is: "loop", "set", "expire", "sleep", "gather", "done"
  startTime, \* start_time
  wakeAt,    \* when the current asyncio.sleep ends
  opCounter, \* op_counter: operations created
  acquired,  \* operations that have acquired the semaphore
  inflight,  \* operations that hold the semaphore
  rejected,  \* those of them that GLIDE refused
  tasks,     \* the list `tasks`
  liveSent   \* on_snapshot awaits a command that GLIDE accepted

opVars == <<opCounter, acquired, inflight, rejected>>
loopVars == <<pc, startTime, wakeAt, tasks, liveSent>>
vars == <<now, collectorVars, opVars, loopVars>>

Operations == 0 .. (opCounter - 1)
Pending    == (acquired .. (opCounter - 1)) \cup inflight
ClientOf(op) == op % NumClients

LesserOf(a, b)  == IF a <= b THEN a ELSE b
GreaterOf(a, b) == IF a >= b THEN a ELSE b

(* Mutant: the cap alone sizes the semaphore.                              *)
SemaphoreSizeCap == SemaphoreCap

SemaphoreSize == LesserOf(NumClients * InflightLimit, SemaphoreCap)

(* compute_target_rps: the target t units into the run.  A linear ramp     *)
(* takes the first fifth of the run; a spike runs at a tenth for a half.   *)
ComputeTargetRps(t) ==
  IF Pattern = "linear"
    THEN GreaterOf(1, LesserOf(MaxRps, (MaxRps * 5 * t) \div Duration))
    ELSE IF Pattern = "spike" /\ 2 * t < Duration
      THEN GreaterOf(1, MaxRps \div 10)
      ELSE MaxRps

(* A tick is one clock unit, so a second's target is spread over           *)
(* SecondUnits ticks, and every tick fires at least one operation.         *)
OpsThisTick(t) == GreaterOf(1, ComputeTargetRps(t) \div SecondUnits)

(* Commands in flight at a client: those of operations, and the one that   *)
(* on_snapshot sends through clients[0] outside the semaphore.             *)
OpsAt(c) == Cardinality({op \in inflight \ rejected : ClientOf(op) = c})
CommandsAt(c) == OpsAt(c) + (IF liveSent /\ c = 0 THEN 1 ELSE 0)

-----------------------------------------------------------------------------
Init ==
  /\ InitCollector
  /\ startTime \in 0 .. MaxSetup
  /\ now = startTime
  /\ pc = "loop"
  /\ wakeAt = 0
  /\ opCounter = 0
  /\ acquired = 0
  /\ inflight = {}
  /\ rejected = {}
  /\ tasks = {}
  /\ liveSent = FALSE

Tick ==
  /\ pc # "done"
  /\ now < MaxNow \/ (pc = "sleep" /\ now < wakeAt)
  /\ now' = now + 1
  /\ UNCHANGED <<collectorVars, opVars, loopVars>>

(* Mutant: pruning keeps only the operations that have started.            *)
PrunedToInflight(list, pending) ==
  IF Cardinality(list) > PruneThreshold THEN list \cap inflight ELSE list

(* A list that has grown long is pruned of its finished tasks.             *)
Pruned(list, pending) ==
  IF Cardinality(list) > PruneThreshold THEN list \cap pending ELSE list

(* Mutant: the sleep is forgotten.                                         *)
NoTickInterval == 0

TickInterval == 1

(* The tail of a pass.                                                     *)
PruneAndSleep(list, pending) ==
  /\ tasks' = Pruned(list, pending)
  /\ wakeAt' = now + TickInterval
  /\ pc' = "sleep"
  /\ liveSent' = FALSE

(* One pass of the load loop up to its first await: fire this tick's       *)
(* operations and flush the window when it is due.  A flush that has an    *)
(* on_snapshot suspends the pass in its SET; otherwise it runs to the      *)
(* sleep.                                                                  *)
Pass ==
  /\ pc = "loop"
  /\ now - startTime < Duration
  /\ opCounter' = opCounter + OpsThisTick(now - startTime)
  /\ IF FlushDue THEN FlushWindow ELSE UNCHANGED collectorVars
  /\ LET fired == opCounter .. (opCounter' - 1)
     IN  IF FlushDue /\ Reporting
           THEN /\ tasks' = tasks \cup fired
                /\ pc' = "set"
                /\ liveSent' = (OpsAt(0) < InflightLimit)
                /\ UNCHANGED wakeAt
           ELSE PruneAndSleep(tasks \cup fired, Pending \cup fired)
  /\ UNCHANGED <<now, startTime, acquired, inflight, rejected>>

(* on_snapshot: the SET of the live key returned, its EXPIRE is sent.      *)
LiveSetReturned ==
  /\ pc = "set"
  /\ liveSent
  /\ pc' = "expire"
  /\ liveSent' = (OpsAt(0) < InflightLimit)
  /\ UNCHANGED <<now, collectorVars, opVars, startTime, wakeAt, tasks>>

(* on_snapshot is over: it returned, or one of its commands failed.        *)
SnapshotPublished ==
  /\ pc \in {"set", "expire"}
  /\ PruneAndSleep(tasks, Pending)
  /\ UNCHANGED <<now, collectorVars, opVars, startTime>>

Wake ==
  /\ pc = "sleep"
  /\ now >= wakeAt
  /\ pc' = "loop"
  /\ UNCHANGED <<now, collectorVars, opVars, startTime, wakeAt, tasks, liveSent>>

(* Mutant: the loop continues instead of breaking.                         *)
ContinueIssuing ==
  /\ pc = "loop"
  /\ now - startTime >= Duration
  /\ pc' = "sleep"
  /\ wakeAt' = now
  /\ UNCHANGED <<now, collectorVars, opVars, startTime, tasks, liveSent>>

(* The duration is over: stop issuing and wait for the tasks in the list.  *)
StopIssuing ==
  /\ pc = "loop"
  /\ now - startTime >= Duration
  /\ pc' = "gather"
  /\ UNCHANGED <<now, collectorVars, opVars, startTime, wakeAt, tasks, liveSent>>

Gathered == tasks \cap Pending = {}

Finish ==
  /\ pc = "gather"
  /\ Gathered
  /\ FlushFinal
  /\ pc' = "done"
  /\ UNCHANGED <<now, opVars, startTime, wakeAt, tasks, liveSent>>

(* execute_op, up to its await: the next task in line takes the semaphore  *)
(* and sends its command, which a full client refuses.                     *)
StartOp ==
  /\ acquired < opCounter
  /\ Cardinality(inflight) < SemaphoreSize
  /\ acquired' = acquired + 1
  /\ inflight' = inflight \cup {acquired}
  /\ rejected' = IF CommandsAt(ClientOf(acquired)) >= InflightLimit
                   THEN rejected \cup {acquired}
                   ELSE rejected
  /\ UNCHANGED <<now, collectorVars, opCounter, loopVars>>

(* Mutant: an outcome that no handler catches is not recorded.             *)
RecordOutcomeOrNone(op) ==
  \/ RecordError
  \/ UNCHANGED collectorVars

(* The outcome execute_op records: a command that was sent returned, timed *)
(* out or was throttled (TimeoutError, ClosingError, a RequestError of OOM *)
(* or BUSY), or failed in another way, as a refused one always does.       *)
RecordOutcome(op) ==
  \/ /\ op \notin rejected
     /\ \/ \E b \in Buckets : RecordSuccess(b)
        \/ RecordThrottle
  \/ RecordError

FinishOp(op) ==
  /\ op \in inflight
  /\ RecordOutcome(op)
  /\ inflight' = inflight \ {op}
  /\ rejected' = rejected \ {op}
  /\ UNCHANGED <<now, opCounter, acquired, loopVars>>

Terminated == pc = "done" /\ UNCHANGED vars

(* The load loop of the worker, and one of its operations.                 *)
LoopStep ==
  \/ Pass
  \/ LiveSetReturned
  \/ SnapshotPublished
  \/ Wake
  \/ StopIssuing
  \/ Finish

Next ==
  \/ Tick
  \/ LoopStep
  \/ StartOp
  \/ \E op \in inflight : FinishOp(op)
  \/ Terminated

(* The event loop runs every ready task, the clock moves, and GLIDE's      *)
(* request timeout bounds every command.                                   *)
Fairness ==
  /\ WF_vars(Tick)
  /\ WF_vars(LoopStep)
  /\ WF_vars(StartOp)
  /\ WF_vars(\E op \in inflight : FinishOp(op))

Spec == Init /\ [][Next]_vars
FairSpec == Spec /\ Fairness

-----------------------------------------------------------------------------
TypeOK ==
  /\ CollectorTypeOK
  /\ pc \in {"loop", "set", "expire", "sleep", "gather", "done"}
  /\ startTime \in Nat /\ startTime <= now
  /\ wakeAt \in Nat
  /\ opCounter \in Nat
  /\ acquired \in 0 .. opCounter
  /\ inflight \in SUBSET (0 .. (acquired - 1))
  /\ rejected \in SUBSET inflight
  /\ tasks \in SUBSET Operations
  /\ liveSent \in BOOLEAN

(* What the collector has counted: the report and the open window, which   *)
(* flush_final copies into the report without resetting it.                *)
Counted ==
  IF pc = "done" /\ FinalWindowKept
    THEN reported
    ELSE PlusCounts(reported, CountsOf(current))

TotalOf(counts) == counts.success + counts.throttle + counts.error

(* Every operation that has finished is counted once and only once, in the *)
(* report or in the open window, whatever the interleaving of the load     *)
(* loop's flushes with the operations that record.                         *)
EveryOpCountedOnce == TotalOf(Counted) + Cardinality(inflight) = acquired

(* gather waits for every unfinished operation: pruning the task list      *)
(* never loses one, so when run_traffic returns all issued operations have *)
(* been counted.                                                           *)
PruneKeepsPending == Pending \subseteq tasks

(* What makes that so, and what the other proofs rest on.                  *)
DoneIsQuiet == pc = "done" => Pending = {}

(* The collector's clock counts whole intervals and so falls behind the    *)
(* real one, but it is never ahead of it, and until flush_final it is the  *)
(* number of snapshots times the interval.                                 *)
TimelineNeverAhead ==
  /\ elapsed <= now
  /\ pc # "done" => /\ elapsed <= windowStart
                    /\ elapsed = Len(timeSeries) * ReportInterval

(* The snapshots of a worker are in time order, and only the last two may  *)
(* share a timestamp (a final window shorter than half a second).          *)
TimestampsOrdered ==
  \A i, j \in DOMAIN timeSeries :
    i < j => \/ timeSeries[i].timestamp < timeSeries[j].timestamp
             \/ /\ timeSeries[i].timestamp = timeSeries[j].timestamp
                /\ pc = "done" /\ j = Len(timeSeries) /\ i = j - 1

(* The totals of the report are those of its snapshots, each operation in  *)
(* one of them, and a snapshot's histogram holds its successes.            *)
ReportAddsUp ==
  /\ BuildSummary = reported
  /\ \A i \in DOMAIN timeSeries :
       SumFunction(timeSeries[i].histogram) = timeSeries[i].success

(* The load never gets ahead of its plan: whatever delays the loop, it     *)
(* does not catch up, and issues at most one tick's share per tick.        *)
TickShare == GreaterOf(1, MaxRps \div SecondUnits)
NeverAheadOfPlan == opCounter <= (now - startTime + 1) * TickShare

(* With one client, and no progress reporting that would use it too, the   *)
(* semaphore is no larger than GLIDE's limit: no command is ever refused.  *)
NeverRefused == NumClients = 1 /\ ~Reporting => rejected = {}

(* With more clients one may be full, but only while another has room or   *)
(* live progress is being reported: a command is never refused because the *)
(* semaphore lets in more operations than all clients can carry.           *)
RefusedOnlyWhileUnbalanced ==
  [][rejected' \ rejected # {} =>
       liveSent \/ \E c \in 0 .. (NumClients - 1) : OpsAt(c) < InflightLimit]_vars

(* A worker's run comes to an end.                                         *)
RunEnds == <>(pc = "done")

(* The worker keeps the promise of the operation ledger.                   *)
Ledger == INSTANCE OperationLedger WITH
            issued <- opCounter, counted <- Counted,
            published <- reported, closed <- (pc = "done")
LedgerKept == Ledger!LedgerSpec
=============================================================================
