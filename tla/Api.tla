-------------------------------- MODULE Api --------------------------------
(***************************************************************************)
(* The API Lambda (lambda/api/handler.py): starting a test, asking for its *)
(* status, the object current_execution.json in S3 that says which test is *)
(* running, and the latest result of a scenario.                           *)
(*                                                                         *)
(* Handlers of different requests interleave between their calls to Step   *)
(* Functions and S3; a handler may be cut off between two calls.  The      *)
(* routes that only read (scenarios, current, results, live) have no       *)
(* action: current_execution.json and Latest are what they answer.         *)
(* External: Step Functions, which takes a second start of a name with the *)
(* same input for the first one and refuses one with another input, S3,    *)
(* and the tests with their aggregator.                                    *)
(***************************************************************************)
EXTENDS Integers, Sequences, FiniteSets, SequencesExt

CONSTANTS
  Scenarios, Configs,
  NoConfig,
  MaxKeys,   \* how many results are listed
  Slots,     \* bound: concurrent requests
  MaxSecond  \* bound: the clock

ASSUME ApiAssumption ==
  /\ NoConfig \notin Configs
  /\ MaxKeys \in Nat \ {0} /\ MaxSecond \in Nat

VARIABLES
  s3Fails,   \* whether a put_object may fail, which the handlers ignore
  now,       \* the clock, in seconds
  execution, \* the status of each execution
  input,     \* and its input
  current,   \* current_execution.json
  call,      \* what each request that is being handled has yet to do
  told,      \* the answers to POST /api/executions
  seen,      \* the answers to GET /api/executions/{name}
  stored     \* the results in S3, by LastModified

vars == <<s3Fails, now, execution, input, current, call, told, seen, stored>>

Names == Scenarios \X (0..MaxSecond)
Statuses == {"none", "RUNNING", "SUCCEEDED", "FAILED"}
Idle == [op |-> "idle"]
NoObject == [status |-> "none"]
Objects == [name : Names, status : {"RUNNING", "SUCCEEDED"}]

Init ==
  /\ s3Fails \in BOOLEAN
  /\ now = 0
  /\ execution = [n \in Names |-> "none"]
  /\ input = [n \in Names |-> NoConfig]
  /\ current = NoObject
  /\ call = [s \in Slots |-> Idle]
  /\ told = {}
  /\ seen = {}
  /\ stored = <<>>

(* Mutant: the configuration is not part of the input.                     *)
InputWithoutConfig(config) == CHOOSE c \in Configs : TRUE

SfnInput(config) == config

(* start_execution, up to the call of Step Functions.                      *)
StartExecution(s, scenario, config) ==
  LET name == <<scenario, now>> IN
  /\ call[s] = Idle
  /\ \/ execution[name] = "none"
     \/ execution[name] = "RUNNING" /\ input[name] = SfnInput(config)
  /\ execution' = [execution EXCEPT ![name] = "RUNNING"]
  /\ input' = [input EXCEPT ![name] = SfnInput(config)]
  /\ call' = [call EXCEPT ![s] = [op |-> "start", name |-> name, config |-> config]]
  /\ UNCHANGED <<s3Fails, now, current, told, seen, stored>>

(* s3.put_object of current_execution.json; a failure is ignored.          *)
PutCurrent(name, status) ==
  \/ current' = [name |-> name, status |-> status]
  \/ s3Fails /\ UNCHANGED current

(* The rest of start_execution.                                            *)
AnswerStart(s) ==
  /\ call[s].op = "start"
  /\ PutCurrent(call[s].name, "RUNNING")
  /\ told' = told \cup {[name |-> call[s].name, config |-> call[s].config]}
  /\ call' = [call EXCEPT ![s] = Idle]
  /\ UNCHANGED <<s3Fails, now, execution, input, seen, stored>>

(* Mutant: any execution that has ended is saved as SUCCEEDED.             *)
SavesAnyEnd(n) == execution[n] \in {"SUCCEEDED", "FAILED"}

SavesSuccess(n) == execution[n] = "SUCCEEDED"

(* get_execution, up to the call of Step Functions; without a success      *)
(* there is nothing else to do.                                            *)
GetExecution(s, n) ==
  /\ call[s] = Idle
  /\ \E t \in told : t.name = n
  /\ IF SavesSuccess(n)
       THEN call' = [call EXCEPT ![s] = [op |-> "get", name |-> n]] /\ UNCHANGED seen
       ELSE seen' = seen \cup {<<n, execution[n]>>} /\ UNCHANGED call
  /\ UNCHANGED <<s3Fails, now, execution, input, current, told, stored>>

(* Mutant: the object is saved as it was when the test was started.        *)
StatusAtStart == "RUNNING"

StatusSaved == "SUCCEEDED"

(* The rest of get_execution: whichever test is running by now.            *)
AnswerGet(s) ==
  /\ call[s].op = "get"
  /\ PutCurrent(call[s].name, StatusSaved)
  /\ seen' = seen \cup {<<call[s].name, "SUCCEEDED">>}
  /\ call' = [call EXCEPT ![s] = Idle]
  /\ UNCHANGED <<s3Fails, now, execution, input, told, stored>>

(* The handler reaches its timeout, or the answer does not reach the page. *)
CutOff(s) ==
  /\ call[s] # Idle
  /\ call' = [call EXCEPT ![s] = Idle]
  /\ UNCHANGED <<s3Fails, now, execution, input, current, told, seen, stored>>

(* The aggregator stores the result of a test.                             *)
StoreResult(n) ==
  /\ execution[n] = "RUNNING"
  /\ \A i \in DOMAIN stored : stored[i] # n
  /\ stored' = Append(stored, n)
  /\ UNCHANGED <<s3Fails, now, execution, input, current, call, told, seen>>

(* A test takes longer than the request that starts it, unless it fails.   *)
ExecutionEnds(n) ==
  /\ execution[n] = "RUNNING"
  /\ \/ /\ \E i \in DOMAIN stored : stored[i] = n
        /\ \A s \in Slots : ~(call[s].op = "start" /\ call[s].name = n)
        /\ execution' = [execution EXCEPT ![n] = "SUCCEEDED"]
     \/ execution' = [execution EXCEPT ![n] = "FAILED"]
  /\ UNCHANGED <<s3Fails, now, input, current, call, told, seen, stored>>

Tick ==
  /\ now < MaxSecond
  /\ now' = now + 1
  /\ UNCHANGED <<s3Fails, execution, input, current, call, told, seen, stored>>

Next ==
  \/ Tick
  \/ \E s \in Slots :
       \/ \E scenario \in Scenarios, config \in Configs : StartExecution(s, scenario, config)
       \/ \E n \in Names : GetExecution(s, n)
       \/ AnswerStart(s) \/ AnswerGet(s) \/ CutOff(s)
  \/ \E n \in Names : StoreResult(n) \/ ExecutionEnds(n)

Spec == Init /\ [][Next]_vars

-----------------------------------------------------------------------------
ResultsOf(scenario) == {i \in DOMAIN stored : stored[i][1] = scenario}

(* list_objects_v2: the first keys in alphabetical order, which is the     *)
(* order in which the tests were started.                                  *)
Listed(scenario) ==
  {i \in ResultsOf(scenario) :
     Cardinality({j \in ResultsOf(scenario) : stored[j][2] < stored[i][2]}) < MaxKeys}

(* get_latest_result: the listed result that was modified last.            *)
Latest(scenario) ==
  CHOOSE i \in Listed(scenario) : \A j \in Listed(scenario) : j <= i

(* The variables have their types, and only a success is being saved.      *)
TypeOK ==
  /\ s3Fails \in BOOLEAN
  /\ now \in 0..MaxSecond
  /\ execution \in [Names -> Statuses]
  /\ input \in [Names -> Configs \cup {NoConfig}]
  /\ current \in Objects \cup {NoObject}
  /\ told \subseteq [name : Names, config : Configs]
  /\ seen \subseteq Names \X Statuses
  /\ stored \in Seq(Names) /\ IsInjective(stored)
  /\ \A s \in Slots : call[s] # Idle =>
       /\ call[s].op \in {"start", "get"} /\ call[s].name \in Names
       /\ call[s].op = "get" => execution[call[s].name] = "SUCCEEDED"

(* /api/current says SUCCEEDED only of a test that has succeeded, and      *)
(* RUNNING only of one that has been started, whoever wrote it last.       *)
CurrentIsTrue ==
  current # NoObject =>
    IF current.status = "SUCCEEDED"
      THEN execution[current.name] = "SUCCEEDED"
      ELSE execution[current.name] # "none"

(* Once a page has been told that a test succeeded, /api/current never     *)
(* again says that it runs, if S3 takes what is written.                   *)
SuccessIsNotActive ==
  ~s3Fails => \A n \in Names : <<n, "SUCCEEDED">> \in seen =>
                current # [name |-> n, status |-> "RUNNING"]

(* A name stands for one test: pages that were given the same name in the  *)
(* same second asked for the same configuration, and that one runs.        *)
OneTestPerName == \A t \in told : input[t.name] = t.config

(* "Get latest results from S3 for a scenario".                            *)
LatestIsLatest ==
  \A scenario \in Scenarios, i \in DOMAIN stored :
    i \in ResultsOf(scenario) => i <= Latest(scenario)
=============================================================================
