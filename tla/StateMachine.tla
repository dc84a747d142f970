--------------------------- MODULE StateMachine ---------------------------
(***************************************************************************)
(* The Step Functions state machine (infra/lib/step-functions-stack.ts)    *)
(* and the Lambdas it invokes (infra/lib/lambda-stack.ts), for several     *)
(* executions that share the load generator's reserved concurrency.        *)
(*                                                                         *)
(* An execution seeds keys if asked to, fans out one Lambda per worker     *)
(* through a Map state, and has the aggregator store the report in S3.     *)
(* The definition declares neither Retry nor Catch, so a Lambda that       *)
(* raises, is killed at its timeout or is refused for concurrency fails    *)
(* the execution.  What is retried is a fault of the Lambda service:       *)
(* LambdaInvoke of the CDK adds that by default.  Step Functions stops     *)
(* neither the Lambdas of an execution that ends nor an attempt it has     *)
(* lost: they run on, and hold concurrency, until they return or are       *)
(* killed.                                                                 *)
(*                                                                         *)
(* The clock is coarse (five minutes a unit in the instances).  External:  *)
(* the Lambda and Step Functions services.                                 *)
(***************************************************************************)
EXTENDS Integers, FiniteSets

CONSTANTS
  Executions,          \* the executions that may be started
  Workers,             \* the items of the Map state, worker-0 .. worker-(N-1)
  MaxConcurrency,      \* maxConcurrency of the Map state
  ReservedConcurrency, \* reservedConcurrentExecutions of the load generator
  TestDuration,        \* duration_seconds
  LoadTimeout,         \* timeout of the load generator Lambda
  AggregatorTimeout,   \* timeout of the aggregator Lambda
  ExecutionTimeout,    \* timeout of the state machine
  Retries,             \* attempts after a fault of the Lambda service
  Failures,            \* whether Lambdas may raise and the service may fault
  MaxStart             \* bound: executions are started up to here

ASSUME StateMachineAssumption ==
  /\ IsFiniteSet(Workers) /\ Workers # {}
  /\ {"pre-populate", "aggregator"} \cap Workers = {}
  /\ MaxConcurrency \in Nat \ {0}
  /\ ReservedConcurrency \in Nat /\ ReservedConcurrency >= MaxConcurrency
  /\ TestDuration \in Nat /\ Retries \in Nat
  /\ {LoadTimeout, AggregatorTimeout, ExecutionTimeout} \subseteq Nat \ {0}
  /\ Failures \in BOOLEAN
  /\ MaxStart \in Nat

VARIABLES
  now,       \* the clock
  status,    \* status of each execution; "none" before it is started
  step,      \* the state each execution is in
  startedAt, \* when each execution was started
  task,      \* of each execution, each Lambda task: "pending", "invoked",
             \* "retrying" or "succeeded"
  attempt,   \* the number of its current attempt
  lambdas,   \* the Lambda invocations that are running
  stored     \* the executions whose report is in S3

vars == <<now, status, step, startedAt, task, attempt, lambdas, stored>>

Roles == Workers \cup {"pre-populate", "aggregator"}
Invocations == [execution : Executions, role : Roles, attempt : 0..Retries, invokedAt : Nat]
Tasks == {"pending", "invoked", "retrying", "succeeded"}
Steps == {"PrePopulate", "GenerateLoad", "AggregateResults", "End"}
Statuses == {"none", "RUNNING", "SUCCEEDED", "FAILED", "TIMED_OUT"}

LoadLambdas == {l \in lambdas : l.role # "aggregator"}
TimeoutOf(role) == IF role = "aggregator" THEN AggregatorTimeout ELSE LoadTimeout

Init ==
  /\ now = 0
  /\ status = [e \in Executions |-> "none"]
  /\ step = [e \in Executions |-> "End"]
  /\ startedAt = [e \in Executions |-> 0]
  /\ task = [e \in Executions |-> [r \in Roles |-> "pending"]]
  /\ attempt = [e \in Executions |-> [r \in Roles |-> 0]]
  /\ lambdas = {}
  /\ stored = {}

(* ShouldPrePopulate and BuildWorkerConfigs take no time.                  *)
StartExecution(e) ==
  /\ status[e] = "none"
  /\ now <= MaxStart
  /\ status' = [status EXCEPT ![e] = "RUNNING"]
  /\ \E first \in {"PrePopulate", "GenerateLoad"} : step' = [step EXCEPT ![e] = first]
  /\ startedAt' = [startedAt EXCEPT ![e] = now]
  /\ UNCHANGED <<now, task, attempt, lambdas, stored>>

(* Mutant: the Map state has no maxConcurrency.                            *)
MapHasRoomAlways(e, role) == TRUE

(* A task that waits for its retry keeps its place in the Map state.       *)
MapHasRoom(e, role) ==
  Cardinality({w \in Workers \ {role} : task[e][w] \in {"invoked", "retrying"}})
    < MaxConcurrency

(* Mutant: the Map state is entered beside the PrePopulate state.          *)
StepOfEager(role) ==
  IF role = "aggregator" THEN {"AggregateResults"}
  ELSE IF role = "pre-populate" THEN {"PrePopulate"}
  ELSE {"PrePopulate", "GenerateLoad"}

(* The states in which a Lambda is invoked in its role.                    *)
StepOf(role) ==
  IF role = "aggregator" THEN {"AggregateResults"}
  ELSE IF role = "pre-populate" THEN {"PrePopulate"}
  ELSE {"GenerateLoad"}

Invocable(e, role) ==
  /\ status[e] = "RUNNING"
  /\ step[e] \in StepOf(role)
  /\ task[e][role] \in {"pending", "retrying"}
  /\ role \in Workers => MapHasRoom(e, role)

Invoke(e, role) ==
  /\ Invocable(e, role)
  /\ role # "aggregator" => Cardinality(LoadLambdas) < ReservedConcurrency
  /\ task' = [task EXCEPT ![e][role] = "invoked"]
  /\ lambdas' = lambdas \cup {[execution |-> e, role |-> role,
                                attempt |-> attempt[e][role], invokedAt |-> now]}
  /\ UNCHANGED <<now, status, step, startedAt, attempt, stored>>

(* An execution that ends leaves its Lambdas running.                      *)
End(e, outcome) ==
  /\ status' = [status EXCEPT ![e] = outcome]
  /\ step' = [step EXCEPT ![e] = "End"]
  /\ UNCHANGED <<now, startedAt>>

(* The reserved concurrency is used up: the invocation is refused.         *)
InvokeThrottled(e, role) ==
  /\ Invocable(e, role)
  /\ role # "aggregator"
  /\ Cardinality(LoadLambdas) >= ReservedConcurrency
  /\ End(e, "FAILED")
  /\ UNCHANGED <<task, attempt, lambdas, stored>>

(* The execution waits for this Lambda: it is running, and has not lost    *)
(* the attempt to a fault of the service.                                  *)
Awaited(l) ==
  /\ status[l.execution] = "RUNNING"
  /\ l.attempt = attempt[l.execution][l.role]

(* Mutant: the Map state is left when any worker has succeeded.            *)
MapDoneEarly(e) == \E w \in Workers : task'[e][w] = "succeeded"

MapDone(e) == \A w \in Workers : task'[e][w] = "succeeded"

(* The state that follows the success of a Lambda in its role.             *)
NextStep(e, role) ==
  IF role = "pre-populate" THEN "GenerateLoad"
  ELSE IF role = "aggregator" THEN "End"
  ELSE IF MapDone(e) THEN "AggregateResults"
  ELSE "GenerateLoad"

(* A Lambda returns: a worker after its load, the aggregator after storing *)
(* the report.  An execution that does not wait for it takes no notice.    *)
Return(l) ==
  /\ l \in lambdas
  /\ l.role \in Workers => now - l.invokedAt >= TestDuration
  /\ lambdas' = lambdas \ {l}
  /\ stored' = IF l.role = "aggregator" THEN stored \cup {l.execution} ELSE stored
  /\ IF Awaited(l)
       THEN /\ task' = [task EXCEPT ![l.execution][l.role] = "succeeded"]
            /\ step' = [step EXCEPT ![l.execution] = NextStep(l.execution, l.role)]
            /\ status' = [status EXCEPT ![l.execution] =
                            IF l.role = "aggregator" THEN "SUCCEEDED" ELSE @]
       ELSE UNCHANGED <<task, step, status>>
  /\ UNCHANGED <<now, startedAt, attempt>>

(* A Lambda ends without a result.  The aggregator may have stored the     *)
(* report before it does.                                                  *)
Break(l) ==
  /\ l \in lambdas
  /\ lambdas' = lambdas \ {l}
  /\ IF l.role = "aggregator"
       THEN stored' \in {stored, stored \cup {l.execution}}
       ELSE UNCHANGED stored
  /\ IF Awaited(l)
       THEN End(l.execution, "FAILED")
       ELSE UNCHANGED <<now, status, step, startedAt>>
  /\ UNCHANGED <<task, attempt>>

(* It raises: create_clients cannot connect, put_object is refused, or the *)
(* result exceeds what Step Functions carries between states.              *)
Raise(l) == Failures /\ Break(l)

(* The service faults on an invocation: it is retried, whether or not the  *)
(* Lambda runs on, until the attempts are used up.                         *)
Fault(l) ==
  /\ Failures
  /\ l \in lambdas
  /\ Awaited(l)
  /\ lambdas' \in {lambdas, lambdas \ {l}}
  /\ IF l.attempt < Retries
       THEN /\ task' = [task EXCEPT ![l.execution][l.role] = "retrying"]
            /\ attempt' = [attempt EXCEPT ![l.execution][l.role] = l.attempt + 1]
            /\ UNCHANGED <<now, status, step, startedAt>>
       ELSE End(l.execution, "FAILED") /\ UNCHANGED <<task, attempt>>
  /\ UNCHANGED stored

(* Mutant: a Lambda has no timeout.                                        *)
NeverOverdue(l) == FALSE

LambdaOverdue(l) == now - l.invokedAt >= TimeoutOf(l.role)

Kill(l) == LambdaOverdue(l) /\ Break(l)

(* Mutant: the state machine has no timeout.                               *)
ExecutionNeverOverdue(e) == FALSE

ExecutionOverdue(e) == status[e] = "RUNNING" /\ now - startedAt[e] >= ExecutionTimeout

TimeOut(e) ==
  /\ ExecutionOverdue(e)
  /\ End(e, "TIMED_OUT")
  /\ UNCHANGED <<task, attempt, lambdas, stored>>

(* The services act on a timeout when it is reached.                       *)
Tick ==
  /\ now < MaxStart + ExecutionTimeout + LoadTimeout
  /\ \A l \in lambdas : ~LambdaOverdue(l)
  /\ \A e \in Executions : ~ExecutionOverdue(e)
  /\ now' = now + 1
  /\ UNCHANGED <<status, step, startedAt, task, attempt, lambdas, stored>>

Terminated ==
  /\ \A e \in Executions : status[e] # "RUNNING"
  /\ lambdas = {}
  /\ UNCHANGED vars

LambdaStep(l) == Return(l) \/ Raise(l) \/ Fault(l) \/ Kill(l)

ExecutionStep(e) ==
  \/ StartExecution(e)
  \/ \E role \in Roles : Invoke(e, role) \/ InvokeThrottled(e, role)
  \/ TimeOut(e)

Next ==
  \/ Tick
  \/ \E e \in Executions : ExecutionStep(e)
  \/ \E l \in lambdas : LambdaStep(l)
  \/ Terminated

(* Only the clock and the services' timeouts are relied upon.              *)
Fairness ==
  /\ WF_vars(Tick)
  /\ WF_vars(\E l \in lambdas : Kill(l))
  /\ \A e \in Executions : WF_vars(TimeOut(e))

Spec == Init /\ [][Next]_vars
FairSpec == Spec /\ Fairness

-----------------------------------------------------------------------------
(* The variables have their types, and an execution is in a state of the   *)
(* machine exactly while it is running.                                    *)
TypeOK ==
  /\ now \in Nat
  /\ status \in [Executions -> Statuses]
  /\ step \in [Executions -> Steps]
  /\ startedAt \in [Executions -> Nat]
  /\ task \in [Executions -> [Roles -> Tasks]]
  /\ attempt \in [Executions -> [Roles -> 0..Retries]]
  /\ lambdas \subseteq Invocations
  /\ stored \subseteq Executions
  /\ \A e \in Executions : status[e] = "RUNNING" <=> step[e] # "End"

WorkersDone(e) == {w \in Workers : task[e][w] = "succeeded"}

(* A report is stored only when every worker has delivered its result,     *)
(* also when the execution has ended before the aggregator stores it.      *)
StoredIsComplete == \A e \in stored : WorkersDone(e) = Workers

(* An attempt that Step Functions has given up on although it may run on.  *)
Lost(l) == l.attempt # attempt[l.execution][l.role]

(* A test that succeeded has its report in S3, and nothing but a lost      *)
(* attempt can still be producing load for it.                             *)
SucceededIsOver ==
  \A e \in Executions : status[e] = "SUCCEEDED" =>
    /\ e \in stored
    /\ \A l \in lambdas : l.execution = e => Lost(l)

(* Keys are not seeded while a worker of the same test produces load, even *)
(* when Lambdas outlive their execution; only a lost attempt at seeding    *)
(* can write into the measurement.                                         *)
SeedsBeforeLoad ==
  \A l, k \in lambdas :
    /\ l.execution = k.execution
    /\ l.role = "pre-populate" /\ k.role \in Workers
    => Lost(l)

(* "Allow up to 200 concurrent invocations for large fan-outs": a test can *)
(* be refused an invocation only because of Lambdas of another test or of  *)
(* attempts of its own that were lost.                                     *)
OnlyOthersThrottle ==
  \A e \in Executions, role \in Roles :
    /\ Invocable(e, role)
    /\ role # "aggregator"
    /\ Cardinality(LoadLambdas) >= ReservedConcurrency
    => \E l \in LoadLambdas : l.execution # e \/ Lost(l)

(* ARCHITECTURE.md gives 1-1800 as the range of duration_seconds: when no  *)
(* Lambda raises and the keys have been seeded, a test of a duration in    *)
(* that range does not fail.                                               *)
LegalTestsComplete ==
  \A e \in Executions : status[e] = "FAILED" => task[e]["pre-populate"] = "invoked"

(* However an execution ends, the load it started comes to an end.         *)
LoadEnds == <>[](lambdas = {})

(* What the proofs rest on: an execution that is running awaits only       *)
(* Lambdas of its current state, each attempt is invoked once, and the     *)
(* aggregator's turn comes when every worker has succeeded.                *)
InvokedOnce ==
  /\ \A l, k \in lambdas :
       l.execution = k.execution /\ l.role = k.role /\ l.attempt = k.attempt => l = k
  /\ \A l \in lambdas :
       /\ task[l.execution][l.role] # "pending"
       /\ l.attempt <= attempt[l.execution][l.role]
       /\ task[l.execution][l.role] = "retrying" => Lost(l)
InStep ==
  /\ \A l \in lambdas : Awaited(l) =>
       /\ task[l.execution][l.role] = "invoked"
       /\ step[l.execution] \in StepOf(l.role)
  /\ \A e \in Executions : status[e] = "none" =>
       \A r \in Roles : task[e][r] = "pending"
AggregatedLast ==
  \A e \in Executions :
    \/ step[e] = "AggregateResults"
    \/ task[e]["aggregator"] # "pending"
    => WorkersDone(e) = Workers

(* Each execution keeps the promise of a test run.                         *)
PhaseOf(e) ==
  IF status[e] = "none" THEN "idle"
  ELSE IF status[e] = "SUCCEEDED" THEN "succeeded"
  ELSE IF status[e] # "RUNNING" THEN "failed"
  ELSE IF step[e] = "PrePopulate" THEN "seeding"
  ELSE IF step[e] = "GenerateLoad" THEN "loading"
  ELSE "reporting"

Runs == INSTANCE TestRun WITH
          Tests <- Executions,
          phase <- [e \in Executions |-> PhaseOf(e)],
          delivered <- [e \in Executions |-> WorkersDone(e)]
RunsKept == Runs!TestRunSpec
=============================================================================
