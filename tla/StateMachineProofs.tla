------------------------ MODULE StateMachineProofs ------------------------
(***************************************************************************)
(* Proofs about test executions and their Lambdas, for every number of     *)
(* tests and workers, every concurrency limit and every timeout; and about *)
(* the command line runner beside them (RunTest).                          *)
(***************************************************************************)
EXTENDS RunTest, FiniteSetTheorems, TLAPS

LEMMA RolesFacts ==
  /\ "pre-populate" \in Roles /\ "aggregator" \in Roles /\ Workers \subseteq Roles
  /\ "aggregator" \notin Workers /\ "pre-populate" \notin Workers
  /\ "aggregator" # "pre-populate"
BY StateMachineAssumption DEF Roles

LEMMA TypeInit == Init => TypeOK
BY StateMachineAssumption DEF Init, TypeOK, Statuses, Steps, Tasks

LEMMA NextStepType ==
  ASSUME NEW e, NEW role
  PROVE  NextStep(e, role) \in Steps
BY DEF NextStep, Steps

LEMMA TypeStep == TypeOK /\ [Next]_vars => TypeOK'
<1> SUFFICES ASSUME TypeOK, [Next]_vars PROVE TypeOK'
  OBVIOUS
<1> USE DEF TypeOK, Tasks
<1>1. CASE Tick
  BY <1>1, StateMachineAssumption DEF Tick
<1>2. ASSUME NEW e \in Executions, StartExecution(e) PROVE TypeOK'
  <2>1. PICK first \in {"PrePopulate", "GenerateLoad"} : step' = [step EXCEPT ![e] = first]
    BY <1>2 DEF StartExecution
  <2>2. step' \in [Executions -> Steps]
    BY <2>1 DEF Steps
  <2> QED BY <1>2, <2>2 DEF StartExecution, Statuses
<1>3. ASSUME NEW e \in Executions, NEW role \in Roles, Invoke(e, role) PROVE TypeOK'
  <2>1. task' \in [Executions -> [Roles -> Tasks]]
    BY <1>3 DEF Invoke
  <2>2. lambdas' \subseteq Invocations
    <3>1. attempt[e][role] \in 0..Retries
      OBVIOUS
    <3> QED BY <1>3, <3>1 DEF Invoke, Invocations
  <2> QED BY <1>3, <2>1, <2>2 DEF Invoke
<1>4. ASSUME NEW e \in Executions, NEW role \in Roles, InvokeThrottled(e, role) PROVE TypeOK'
  BY <1>4 DEF InvokeThrottled, End, Statuses, Steps
<1>5. ASSUME NEW e \in Executions, TimeOut(e) PROVE TypeOK'
  BY <1>5 DEF TimeOut, End, Statuses, Steps
<1>6. ASSUME NEW l \in lambdas, Return(l) PROVE TypeOK'
  <2>1. l.execution \in Executions /\ l.role \in Roles
    BY DEF Invocations
  <2>2. lambdas' \subseteq Invocations /\ stored' \subseteq Executions
    BY <1>6, <2>1 DEF Return
  <2>3. CASE Awaited(l)
    <3>1. task' \in [Executions -> [Roles -> Tasks]]
      <4>1. PICK e \in Executions, r \in Roles : l.execution = e /\ l.role = r
        BY <2>1
      <4>2. task' = [task EXCEPT ![e][r] = "succeeded"]
        BY <1>6, <2>3, <4>1 DEF Return
      <4> QED BY <4>2
    <3>2. step' \in [Executions -> Steps]
      BY <1>6, <2>1, <2>3, NextStepType DEF Return
    <3>3. status' \in [Executions -> Statuses]
      BY <1>6, <2>1, <2>3 DEF Return, Statuses
    <3>4. \A x \in Executions : status'[x] = "RUNNING" <=> step'[x] # "End"
      <4>1. /\ status' = [status EXCEPT ![l.execution] =
                           IF l.role = "aggregator" THEN "SUCCEEDED" ELSE @]
            /\ step' = [step EXCEPT ![l.execution] = NextStep(l.execution, l.role)]
        BY <1>6, <2>3 DEF Return
      <4>2. NextStep(l.execution, l.role) = "End" <=> l.role = "aggregator"
        BY RolesFacts DEF NextStep
      <4> QED BY <2>1, <2>3, <4>1, <4>2 DEF Awaited
    <3> QED BY <1>6, <2>2, <3>1, <3>2, <3>3, <3>4 DEF Return
  <2>4. CASE ~Awaited(l)
    BY <1>6, <2>2, <2>4 DEF Return
  <2> QED BY <2>3, <2>4
<1>7. ASSUME NEW l \in lambdas, Break(l) PROVE TypeOK'
  <2>1. l.execution \in Executions
    BY DEF Invocations
  <2>2. stored' \subseteq Executions
    BY <1>7, <2>1 DEF Break
  <2> QED BY <1>7, <2>1, <2>2 DEF Break, End, Statuses, Steps
<1>8. ASSUME NEW l \in lambdas, Fault(l) PROVE TypeOK'
  <2>1. PICK e \in Executions, r \in Roles : l.execution = e /\ l.role = r
    BY DEF Invocations
  <2>2. l.attempt \in 0..Retries /\ lambdas' \subseteq Invocations
    BY <1>8 DEF Fault, Invocations
  <2>3. CASE l.attempt < Retries
    <3>1. /\ task' = [task EXCEPT ![e][r] = "retrying"]
          /\ attempt' = [attempt EXCEPT ![e][r] = l.attempt + 1]
          /\ UNCHANGED <<now, status, step, startedAt, stored>>
      BY <1>8, <2>1, <2>3 DEF Fault
    <3>2. l.attempt + 1 \in 0..Retries
      BY <2>2, <2>3, StateMachineAssumption
    <3> QED BY <2>2, <3>1, <3>2
  <2>4. CASE ~(l.attempt < Retries)
    BY <1>8, <2>1, <2>2, <2>4 DEF Fault, End, Statuses, Steps
  <2> QED BY <2>3, <2>4
<1>9. CASE UNCHANGED vars
  BY <1>9 DEF vars
<1> QED BY <1>1, <1>2, <1>3, <1>4, <1>5, <1>6, <1>7, <1>8, <1>9
        DEF Next, ExecutionStep, LambdaStep, Raise, Kill, Terminated

(* Every reachable state of the executions and their Lambdas is well typed. *)
THEOREM TypeCorrect == Spec => []TypeOK
BY TypeInit, TypeStep, PTL DEF Spec

-----------------------------------------------------------------------------
(* The bookkeeping of invocations.                                         *)

BookInv == TypeOK /\ InvokedOnce /\ InStep /\ AggregatedLast /\ StoredIsComplete

LEMMA BookInit == Init => BookInv
BY TypeInit, RolesFacts
DEF Init, BookInv, InvokedOnce, Awaited, Lost, InStep, AggregatedLast, StoredIsComplete

LEMMA BookStep == BookInv /\ [Next]_vars => BookInv'
<1> SUFFICES ASSUME BookInv, [Next]_vars PROVE BookInv'
  OBVIOUS
<1> USE DEF BookInv
<1>0. TypeOK'
  BY TypeStep
<1> USE DEF InvokedOnce, InStep, AggregatedLast, StoredIsComplete, WorkersDone, Awaited, Lost
<1>t. \A l \in lambdas : /\ l.execution \in Executions /\ l.role \in Roles
                         /\ l.attempt \in 0..Retries
  BY DEF TypeOK, Invocations
<1>n. Retries \in Nat
  BY StateMachineAssumption
<1>1. CASE Tick \/ UNCHANGED vars
  BY <1>0, <1>1 DEF Tick, vars
<1>2. ASSUME NEW e \in Executions, StartExecution(e) PROVE BookInv'
  <2>1. /\ status[e] = "none"
        /\ UNCHANGED <<task, attempt, lambdas, stored>>
        /\ \A x \in Executions : x # e => status'[x] = status[x] /\ step'[x] = step[x]
        /\ status'[e] = "RUNNING" /\ step'[e] \in {"PrePopulate", "GenerateLoad"}
    BY <1>2 DEF StartExecution, TypeOK
  <2>2. \A l \in lambdas : l.execution # e
    BY <1>t, <2>1
  <2> QED BY <1>0, <1>t, <2>1, <2>2
<1>3. ASSUME NEW e \in Executions, NEW role \in Roles, Invoke(e, role) PROVE BookInv'
  <2> DEFINE new == [execution |-> e, role |-> role,
                     attempt |-> attempt[e][role], invokedAt |-> now]
  <2>1. /\ status[e] = "RUNNING" /\ step[e] \in StepOf(role)
        /\ task[e][role] \in {"pending", "retrying"}
        /\ lambdas' = lambdas \cup {new}
        /\ UNCHANGED <<status, step, attempt, stored>>
        /\ task' = [task EXCEPT ![e][role] = "invoked"]
    BY <1>3 DEF Invoke, Invocable
  <2>2. \A x \in Executions, r \in Roles :
          task'[x][r] = IF x = e /\ r = role THEN "invoked" ELSE task[x][r]
    BY <2>1 DEF TypeOK
  <2>3. /\ new.execution = e /\ new.role = role /\ new.attempt = attempt[e][role]
        /\ attempt[e][role] \in 0..Retries
    BY DEF TypeOK
  <2> HIDE DEF new
  <2>4. \A l \in lambdas :
          l.execution = e /\ l.role = role => l.attempt # attempt[e][role]
    BY <2>1
  <2>5. InvokedOnce'
    <3>1. ASSUME NEW l \in lambdas', NEW k \in lambdas',
                 l.execution = k.execution, l.role = k.role, l.attempt = k.attempt
          PROVE  l = k
      BY <2>1, <2>3, <2>4, <3>1
    <3>2. ASSUME NEW l \in lambdas'
          PROVE  /\ task'[l.execution][l.role] # "pending"
                 /\ l.attempt <= attempt'[l.execution][l.role]
                 /\ task'[l.execution][l.role] = "retrying"
                      => l.attempt # attempt'[l.execution][l.role]
      BY <1>t, <1>n, <2>1, <2>2, <2>3, <3>2
    <3> QED BY <3>1, <3>2
  <2>6. InStep'
    BY <1>t, <2>1, <2>2, <2>3, <2>4
  <2>7. WorkersDone(e) = Workers \/ role # "aggregator"
    BY <2>1 DEF StepOf, TypeOK
  <2>8. \A x \in Executions : WorkersDone(x) = Workers =>
          \A w \in Workers : task'[x][w] = "succeeded"
    BY <2>1, <2>2, RolesFacts
  <2>9. AggregatedLast' /\ StoredIsComplete'
    BY <2>1, <2>2, <2>7, <2>8, RolesFacts DEF TypeOK
  <2> QED BY <1>0, <2>5, <2>6, <2>9
<1>4. ASSUME NEW e \in Executions, End(e, "FAILED") \/ End(e, "TIMED_OUT"),
             UNCHANGED <<task, attempt>>, lambdas' \subseteq lambdas,
             stored' \subseteq stored \cup {x \in Executions : WorkersDone(x) = Workers}
      PROVE  BookInv'
  <2>1. /\ \A x \in Executions : x # e => status'[x] = status[x] /\ step'[x] = step[x]
        /\ status'[e] \in {"FAILED", "TIMED_OUT"} /\ step'[e] = "End"
    BY <1>4 DEF End, TypeOK
  <2> QED BY <1>0, <1>4, <1>t, <2>1
<1>5. ASSUME NEW e \in Executions, NEW role \in Roles, InvokeThrottled(e, role) PROVE BookInv'
  BY <1>4, <1>5 DEF InvokeThrottled
<1>6. ASSUME NEW e \in Executions, TimeOut(e) PROVE BookInv'
  BY <1>4, <1>6 DEF TimeOut
<1>7. ASSUME NEW l \in lambdas, Break(l) PROVE BookInv'
  <2>1. l.execution \in Executions
    BY <1>t
  <2>2. stored' \subseteq stored \cup {x \in Executions : WorkersDone(x) = Workers}
    BY <1>7, <2>1, RolesFacts DEF Break, TypeOK
  <2>3. lambdas' \subseteq lambdas /\ UNCHANGED <<task, attempt>>
    BY <1>7 DEF Break
  <2>4. CASE Awaited(l)
    <3>1. End(l.execution, "FAILED")
      BY <1>7, <2>4 DEF Break
    <3> QED BY <1>4, <2>1, <2>2, <2>3, <3>1
  <2>5. CASE ~Awaited(l)
    <3>1. UNCHANGED <<status, step, task, attempt>>
      BY <1>7, <2>5 DEF Break
    <3> QED BY <1>0, <1>t, <2>2, <2>3, <3>1
  <2> QED BY <2>4, <2>5
<1>8. ASSUME NEW l \in lambdas, Return(l) PROVE BookInv'
  <2> DEFINE e == l.execution
  <2>1. e \in Executions /\ l.role \in Roles
    BY <1>t
  <2>2. /\ lambdas' = lambdas \ {l}
        /\ stored' = IF l.role = "aggregator" THEN stored \cup {e} ELSE stored
        /\ UNCHANGED attempt
    BY <1>8 DEF Return
  <2>3. l.role = "aggregator" => WorkersDone(e) = Workers
    BY <2>1, RolesFacts
  <2>4. CASE Awaited(l)
    <3>1. /\ status[e] = "RUNNING" /\ l.attempt = attempt[e][l.role]
          /\ task[e][l.role] = "invoked" /\ step[e] \in StepOf(l.role)
          /\ task' = [task EXCEPT ![e][l.role] = "succeeded"]
          /\ step' = [step EXCEPT ![e] = NextStep(e, l.role)]
          /\ status' = [status EXCEPT ![e] = IF l.role = "aggregator" THEN "SUCCEEDED" ELSE @]
      BY <1>8, <2>4 DEF Return
    <3>2. \A x \in Executions, r \in Roles :
            task'[x][r] = IF x = e /\ r = l.role THEN "succeeded" ELSE task[x][r]
      BY <2>1, <3>1 DEF TypeOK
    <3>3. /\ \A x \in Executions : x # e => status'[x] = status[x] /\ step'[x] = step[x]
          /\ step'[e] = NextStep(e, l.role)
          /\ status'[e] = IF l.role = "aggregator" THEN "SUCCEEDED" ELSE "RUNNING"
      BY <2>1, <3>1 DEF TypeOK
    <3>4. InvokedOnce'
      <4>1. \A k \in lambdas' : /\ k \in lambdas
                                /\ k.execution \in Executions /\ k.role \in Roles
        BY <1>t, <2>2
      <4> QED BY <2>1, <2>2, <3>2, <4>1
    <3>5. InStep'
      <4>1. ASSUME NEW k \in lambdas', status'[k.execution] = "RUNNING",
                   k.attempt = attempt[k.execution][k.role]
            PROVE  /\ task'[k.execution][k.role] = "invoked"
                   /\ step'[k.execution] \in StepOf(k.role)
        <5>1. k \in lambdas /\ k # l /\ k.execution \in Executions /\ k.role \in Roles
          BY <1>t, <2>2, <4>1
        <5>2. CASE k.execution # e
          BY <2>1, <3>2, <3>3, <4>1, <5>1, <5>2
        <5>3. CASE k.execution = e
          <6>1. /\ k.role # l.role
                /\ task[e][k.role] = "invoked" /\ step[e] \in StepOf(k.role)
            BY <3>1, <4>1, <5>1, <5>3
          <6>2. task'[k.execution][k.role] = "invoked"
            BY <2>1, <3>2, <5>1, <5>3, <6>1
          <6>3. l.role \in Workers /\ k.role \in Workers
            BY <2>1, <3>1, <5>1, <6>1 DEF StepOf, Roles
          <6>4. ~MapDone(e)
            BY <2>1, <5>3, <6>2, <6>3, RolesFacts DEF MapDone
          <6>5. step'[e] = "GenerateLoad"
            BY <3>3, <6>3, <6>4, RolesFacts DEF NextStep
          <6> QED BY <5>3, <6>2, <6>3, <6>5, RolesFacts DEF StepOf
        <5> QED BY <5>2, <5>3
      <4>2. ASSUME NEW x \in Executions, status'[x] = "none", NEW r \in Roles
            PROVE  task'[x][r] = "pending"
        <5>1. x # e /\ status[x] = "none"
          BY <3>3, <4>2
        <5> QED BY <3>2, <5>1
      <4> QED BY <2>2, <4>1, <4>2
    <3>6. AggregatedLast'
      <4>1. ASSUME NEW x \in Executions,
                   step'[x] = "AggregateResults" \/ task'[x]["aggregator"] # "pending"
            PROVE  \A w \in Workers : task'[x][w] = "succeeded"
        <5>1. CASE x # e
          BY <3>2, <3>3, <4>1, <5>1, RolesFacts
        <5>2. CASE x = e
          <6>1. CASE l.role = "aggregator"
            BY <2>3, <3>2, <5>2, <6>1, RolesFacts
          <6>2. CASE l.role # "aggregator" /\ step'[e] = "AggregateResults"
            BY <3>3, <5>2, <6>2 DEF NextStep, MapDone
          <6>3. CASE l.role # "aggregator" /\ task'[e]["aggregator"] # "pending"
            <7>1. task[e]["aggregator"] # "pending"
              BY <2>1, <3>2, <6>3, RolesFacts
            <7>2. WorkersDone(e) = Workers
              BY <2>1, <7>1
            <7> QED BY <2>1, <3>2, <5>2, <7>2, RolesFacts
          <6> QED BY <4>1, <5>2, <6>1, <6>2, <6>3
        <5> QED BY <5>1, <5>2
      <4> QED BY <4>1
    <3>7. StoredIsComplete'
      <4>1. \A x \in stored' : WorkersDone(x) = Workers /\ x \in Executions
        BY <2>1, <2>2, <2>3 DEF TypeOK
      <4> QED BY <3>2, <4>1, RolesFacts
    <3> QED BY <1>0, <3>4, <3>5, <3>6, <3>7
  <2>5. CASE ~Awaited(l)
    <3>1. UNCHANGED <<status, step, task>>
      BY <1>8, <2>5 DEF Return
    <3> QED BY <1>0, <1>t, <2>1, <2>2, <2>3, <3>1
  <2> QED BY <2>4, <2>5
<1>9. ASSUME NEW l \in lambdas, Fault(l) PROVE BookInv'
  <2>1. PICK e \in Executions, r \in Roles : l.execution = e /\ l.role = r
    BY <1>t
  <2>2. /\ lambdas' \subseteq lambdas /\ UNCHANGED stored
        /\ status[e] = "RUNNING" /\ l.attempt = attempt[e][r]
        /\ task[e][r] = "invoked" /\ step[e] \in StepOf(r)
    BY <1>9, <2>1 DEF Fault
  <2>3. CASE ~(l.attempt < Retries)
    <3>1. End(e, "FAILED") /\ UNCHANGED <<task, attempt>>
      BY <1>9, <2>1, <2>3 DEF Fault
    <3> QED BY <1>4, <2>2, <3>1
  <2>4. CASE l.attempt < Retries
    <3>1. /\ task' = [task EXCEPT ![e][r] = "retrying"]
          /\ attempt' = [attempt EXCEPT ![e][r] = attempt[e][r] + 1]
          /\ UNCHANGED <<status, step>>
      BY <1>9, <2>1, <2>2, <2>4 DEF Fault
    <3>2. \A x \in Executions, q \in Roles :
            /\ task'[x][q] = IF x = e /\ q = r THEN "retrying" ELSE task[x][q]
            /\ attempt'[x][q] = IF x = e /\ q = r THEN attempt[e][r] + 1 ELSE attempt[x][q]
            /\ attempt[x][q] \in 0..Retries
      BY <3>1 DEF TypeOK
    <3>3. \A k \in lambdas' : /\ k \in lambdas
                              /\ k.execution \in Executions /\ k.role \in Roles
                              /\ k.attempt \in 0..Retries
                              /\ k.attempt <= attempt[k.execution][k.role]
      BY <1>t, <2>2
    <3>4. \A k \in lambdas' : k.execution = e /\ k.role = r => k.attempt < attempt[e][r] + 1
      BY <1>n, <3>2, <3>3
    <3>5. InvokedOnce'
      <4>1. ASSUME NEW k \in lambdas'
            PROVE  /\ task'[k.execution][k.role] # "pending"
                   /\ k.attempt <= attempt'[k.execution][k.role]
                   /\ task'[k.execution][k.role] = "retrying"
                        => k.attempt # attempt'[k.execution][k.role]
        <5>1. CASE k.execution = e /\ k.role = r
          BY <1>n, <3>2, <3>3, <3>4, <5>1
        <5>2. CASE ~(k.execution = e /\ k.role = r)
          BY <3>2, <3>3, <5>2
        <5> QED BY <5>1, <5>2
      <4> QED BY <2>2, <4>1
    <3>6. InStep'
      <4>1. ASSUME NEW k \in lambdas', status'[k.execution] = "RUNNING",
                   k.attempt = attempt'[k.execution][k.role]
            PROVE  /\ task'[k.execution][k.role] = "invoked"
                   /\ step'[k.execution] \in StepOf(k.role)
        <5>1. ~(k.execution = e /\ k.role = r)
          BY <1>n, <3>2, <3>3, <3>4, <4>1
        <5> QED BY <3>1, <3>2, <3>3, <4>1, <5>1
      <4>2. ASSUME NEW x \in Executions, status'[x] = "none", NEW q \in Roles
            PROVE  task'[x][q] = "pending"
        BY <2>2, <3>1, <3>2, <4>2
      <4> QED BY <4>1, <4>2
    <3>7. \A x \in Executions : WorkersDone(x) = Workers =>
            \A w \in Workers : task'[x][w] = "succeeded"
      BY <2>2, <3>2, RolesFacts
    <3>8. AggregatedLast' /\ StoredIsComplete'
      BY <2>2, <3>1, <3>2, <3>7, RolesFacts DEF TypeOK
    <3> QED BY <1>0, <3>5, <3>6, <3>8
  <2> QED BY <2>3, <2>4
<1> QED BY <1>1, <1>2, <1>3, <1>5, <1>6, <1>7, <1>8, <1>9
        DEF Next, ExecutionStep, LambdaStep, Raise, Kill, Terminated

(* A report in S3 is made from the results of all workers, whatever else   *)
(* fails, is killed or times out around it.                                *)
THEOREM ReportsAreComplete == Spec => []StoredIsComplete
<1>1. Spec => []BookInv
  BY BookInit, BookStep, PTL DEF Spec
<1>2. BookInv => StoredIsComplete
  BY DEF BookInv
<1> QED BY <1>1, <1>2, PTL

-----------------------------------------------------------------------------
(* Executions implement test runs.                                         *)

LEMMA PhaseMoves ==
  ASSUME NEW e \in Executions, NEW from, NEW to,
         PhaseOf(e) = from, PhaseOf(e)' = to,
         \A x \in Executions : x # e => status'[x] = status[x] /\ step'[x] = step[x]
  PROVE  Runs!Move(e, from, to)
<1>1. \A x \in Executions : x # e => PhaseOf(x)' = PhaseOf(x)
  BY DEF PhaseOf
<1> QED BY <1>1 DEF Runs!Move

LEMMA RunsInitial == Init => Runs!TestRunInit
BY RolesFacts DEF Init, Runs!TestRunInit, PhaseOf, WorkersDone

LEMMA RunsStep ==
  BookInv /\ [Next]_vars =>
    [Runs!TestRunNext]_<<[e \in Executions |-> PhaseOf(e)],
                         [e \in Executions |-> WorkersDone(e)]>>
<1> SUFFICES ASSUME BookInv, [Next]_vars
             PROVE  \/ Runs!TestRunNext
                    \/ UNCHANGED <<[e \in Executions |-> PhaseOf(e)],
                                   [e \in Executions |-> WorkersDone(e)]>>
  OBVIOUS
<1> DEFINE phases == [e \in Executions |-> PhaseOf(e)]
           done == [e \in Executions |-> WorkersDone(e)]
<1>0. TypeOK
  BY DEF BookInv
<1>t. UNCHANGED task => UNCHANGED done
  BY DEF WorkersDone
<1>1. CASE Tick \/ UNCHANGED vars
  <2>1. UNCHANGED <<status, step, task>>
    BY <1>1 DEF Tick, vars
  <2> QED BY <2>1 DEF PhaseOf, WorkersDone
<1>2. ASSUME NEW e \in Executions, StartExecution(e) PROVE Runs!TestRunNext
  <2>1. /\ status[e] = "none" /\ status'[e] = "RUNNING"
        /\ step'[e] \in {"PrePopulate", "GenerateLoad"}
        /\ \A x \in Executions : x # e => status'[x] = status[x] /\ step'[x] = step[x]
        /\ UNCHANGED task
    BY <1>0, <1>2 DEF StartExecution, TypeOK
  <2>2. PhaseOf(e) = "idle" /\ PhaseOf(e)' \in {"seeding", "loading"}
    BY <2>1 DEF PhaseOf
  <2>3. Runs!Begin(e)
    BY <1>t, <2>1, <2>2, PhaseMoves DEF Runs!Begin
  <2> QED BY <2>3 DEF Runs!TestRunNext
<1>3. ASSUME NEW e \in Executions, NEW role \in Roles, Invoke(e, role)
      PROVE  UNCHANGED <<phases, done>>
  <2>1. /\ UNCHANGED <<status, step>>
        /\ task[e][role] \in {"pending", "retrying"}
        /\ task' = [task EXCEPT ![e][role] = "invoked"]
    BY <1>3 DEF Invoke, Invocable
  <2>2. \A x \in Executions, r \in Roles :
          task'[x][r] = "succeeded" <=> task[x][r] = "succeeded"
    BY <1>0, <2>1 DEF TypeOK
  <2>3. \A x \in Executions : WorkersDone(x)' = WorkersDone(x)
    BY <2>2, RolesFacts DEF WorkersDone
  <2>4. \A x \in Executions : PhaseOf(x)' = PhaseOf(x)
    BY <2>1 DEF PhaseOf
  <2> QED BY <2>3, <2>4
<1>4. ASSUME NEW e \in Executions, End(e, "FAILED") \/ End(e, "TIMED_OUT"),
             UNCHANGED task, status[e] = "RUNNING"
      PROVE  Runs!TestRunNext
  <2>1. /\ status'[e] \in {"FAILED", "TIMED_OUT"}
        /\ \A x \in Executions : x # e => status'[x] = status[x] /\ step'[x] = step[x]
    BY <1>0, <1>4 DEF End, TypeOK
  <2>2. PhaseOf(e) \in {"seeding", "loading", "reporting"} /\ PhaseOf(e)' = "failed"
    BY <1>4, <2>1 DEF PhaseOf
  <2>3. Runs!Fail(e)
    BY <1>4, <1>t, <2>1, <2>2, PhaseMoves DEF Runs!Fail
  <2> QED BY <2>3 DEF Runs!TestRunNext
<1>5. ASSUME NEW e \in Executions, NEW role \in Roles, InvokeThrottled(e, role)
      PROVE  Runs!TestRunNext
  BY <1>4, <1>5 DEF InvokeThrottled, Invocable
<1>6. ASSUME NEW e \in Executions, TimeOut(e) PROVE Runs!TestRunNext
  BY <1>4, <1>6 DEF TimeOut, ExecutionOverdue
<1>7. ASSUME NEW l \in lambdas, Break(l)
      PROVE  Runs!TestRunNext \/ UNCHANGED <<phases, done>>
  <2>1. l.execution \in Executions
    BY <1>0 DEF TypeOK, Invocations
  <2>2. CASE Awaited(l)
    <3>1. /\ End(l.execution, "FAILED") /\ UNCHANGED task
          /\ status[l.execution] = "RUNNING"
      BY <1>7, <2>2 DEF Break, Awaited
    <3> QED BY <1>4, <2>1, <3>1
  <2>3. CASE ~Awaited(l)
    <3>1. UNCHANGED <<status, step, task>>
      BY <1>7, <2>3 DEF Break
    <3> QED BY <3>1 DEF PhaseOf, WorkersDone
  <2> QED BY <2>2, <2>3
<1>8. ASSUME NEW l \in lambdas, Return(l)
      PROVE  Runs!TestRunNext \/ UNCHANGED <<phases, done>>
  <2>1. PICK e \in Executions, r \in Roles : l.execution = e /\ l.role = r
    BY <1>0 DEF TypeOK, Invocations
  <2>2. CASE ~Awaited(l)
    <3>1. UNCHANGED <<status, step, task>>
      BY <1>8, <2>1, <2>2 DEF Return
    <3> QED BY <3>1 DEF PhaseOf, WorkersDone
  <2>3. CASE Awaited(l)
    <3>1. /\ status[e] = "RUNNING"
          /\ task[e][r] = "invoked" /\ step[e] \in StepOf(r)
          /\ task' = [task EXCEPT ![e][r] = "succeeded"]
          /\ step' = [step EXCEPT ![e] = NextStep(e, r)]
          /\ status' = [status EXCEPT ![e] = IF r = "aggregator" THEN "SUCCEEDED" ELSE @]
      BY <1>8, <2>1, <2>3 DEF Return, BookInv, InStep, Awaited
    <3>2. \A x \in Executions, q \in Roles :
            task'[x][q] = IF x = e /\ q = r THEN "succeeded" ELSE task[x][q]
      BY <1>0, <3>1 DEF TypeOK
    <3>3. /\ \A x \in Executions : x # e => status'[x] = status[x] /\ step'[x] = step[x]
          /\ step'[e] = NextStep(e, r)
          /\ status'[e] = IF r = "aggregator" THEN "SUCCEEDED" ELSE "RUNNING"
      BY <1>0, <3>1 DEF TypeOK
    <3>4. CASE r \notin Workers
      <4>1. \A x \in Executions : WorkersDone(x)' = WorkersDone(x)
        BY <3>2, <3>4, RolesFacts DEF WorkersDone
      <4>2. UNCHANGED done
        BY <4>1
      <4>3. CASE r = "pre-populate"
        <5>1. PhaseOf(e) = "seeding" /\ PhaseOf(e)' = "loading"
          BY <3>1, <3>3, <4>3, RolesFacts DEF PhaseOf, StepOf, NextStep
        <5>2. Runs!Seeded(e)
          BY <3>3, <4>2, <5>1, PhaseMoves DEF Runs!Seeded
        <5> QED BY <5>2 DEF Runs!TestRunNext
      <4>4. CASE r = "aggregator"
        <5>1. PhaseOf(e) = "reporting" /\ PhaseOf(e)' = "succeeded"
          BY <3>1, <3>3, <4>4, RolesFacts DEF PhaseOf, StepOf
        <5>2. Runs!Report(e)
          BY <3>3, <4>2, <5>1, PhaseMoves DEF Runs!Report
        <5> QED BY <5>2 DEF Runs!TestRunNext
      <4> QED BY <3>4, <4>3, <4>4 DEF Roles
    <3>5. CASE r \in Workers
      <4>1. /\ r \notin WorkersDone(e) /\ WorkersDone(e)' = WorkersDone(e) \cup {r}
            /\ \A x \in Executions : x # e => WorkersDone(x)' = WorkersDone(x)
        BY <3>1, <3>2, <3>5, RolesFacts DEF WorkersDone
      <4>2. done' = [done EXCEPT ![e] = @ \cup {r}]
        BY <4>1
      <4>3. MapDone(e) <=> WorkersDone(e) \cup {r} = Workers
        BY <3>2, <4>1, <3>5, RolesFacts DEF MapDone, WorkersDone
      <4>4. PhaseOf(e) = "loading"
        BY <3>1, <3>5, RolesFacts DEF PhaseOf, StepOf
      <4>5. PhaseOf(e)' = IF WorkersDone(e) \cup {r} = Workers THEN "reporting" ELSE "loading"
        BY <3>3, <3>5, <4>3, RolesFacts DEF PhaseOf, NextStep
      <4>6. Runs!Deliver(e, r)
        <5>1. Runs!Move(e, "loading", IF WorkersDone(e) \cup {r} = Workers
                                        THEN "reporting" ELSE "loading")
          BY <3>3, <4>4, <4>5, PhaseMoves
        <5> QED BY <4>1, <4>2, <5>1 DEF Runs!Deliver
      <4> QED BY <3>5, <4>6 DEF Runs!TestRunNext
    <3> QED BY <3>4, <3>5
  <2> QED BY <2>2, <2>3
<1>9. ASSUME NEW l \in lambdas, Fault(l)
      PROVE  Runs!TestRunNext \/ UNCHANGED <<phases, done>>
  <2>1. PICK e \in Executions, r \in Roles : l.execution = e /\ l.role = r
    BY <1>0 DEF TypeOK, Invocations
  <2>2. /\ status[e] = "RUNNING" /\ task[e][r] = "invoked"
    BY <1>9, <2>1 DEF Fault, Awaited, BookInv, InStep
  <2>3. CASE ~(l.attempt < Retries)
    <3>1. End(e, "FAILED") /\ UNCHANGED task
      BY <1>9, <2>1, <2>3 DEF Fault
    <3> QED BY <1>4, <2>2, <3>1
  <2>4. CASE l.attempt < Retries
    <3>1. task' = [task EXCEPT ![e][r] = "retrying"] /\ UNCHANGED <<status, step>>
      BY <1>9, <2>1, <2>4 DEF Fault
    <3>2. \A x \in Executions, q \in Roles :
            task'[x][q] = "succeeded" <=> task[x][q] = "succeeded"
      BY <1>0, <2>2, <3>1 DEF TypeOK
    <3>3. \A x \in Executions : WorkersDone(x)' = WorkersDone(x)
      BY <3>2, RolesFacts DEF WorkersDone
    <3>4. \A x \in Executions : PhaseOf(x)' = PhaseOf(x)
      BY <3>1 DEF PhaseOf
    <3> QED BY <3>3, <3>4
  <2> QED BY <2>3, <2>4
<1> QED BY <1>1, <1>2, <1>3, <1>5, <1>6, <1>7, <1>8, <1>9
        DEF Next, ExecutionStep, LambdaStep, Raise, Kill, Terminated

(* Every behaviour of the executions is one of test runs: seeding before   *)
(* load, every worker's result before the report, and no way back from the *)
(* end of a test.                                                          *)
THEOREM ExecutionsKeepRuns == Spec => RunsKept
<1>1. Spec => []BookInv
  BY BookInit, BookStep, PTL DEF Spec
<1> QED BY <1>1, RunsInitial, RunsStep, PTL DEF Spec, RunsKept, Runs!TestRunSpec

-----------------------------------------------------------------------------
(* What is over: a task that succeeded has no Lambda left but lost ones,   *)
(* and so has seeding once a worker may be invoked.                        *)

SucceededAreLost == \A l \in lambdas : task[l.execution][l.role] = "succeeded" => Lost(l)
LoadMayRun(e) ==
  \/ step[e] \in {"GenerateLoad", "AggregateResults"}
  \/ \E w \in Workers : task[e][w] # "pending"
SeedsAreLost ==
  \A l \in lambdas : l.role = "pre-populate" /\ LoadMayRun(l.execution) => Lost(l)
SeedingFirst ==
  \A e \in Executions : step[e] = "PrePopulate" => \A w \in Workers : task[e][w] = "pending"
ReportOfSuccess ==
  \A e \in Executions : status[e] = "SUCCEEDED" => e \in stored /\ task[e]["aggregator"] = "succeeded"

OverInv == BookInv /\ SucceededAreLost /\ SeedsAreLost /\ SeedingFirst /\ ReportOfSuccess

LEMMA OverInit == Init => OverInv
BY BookInit, RolesFacts
DEF Init, OverInv, SucceededAreLost, SeedsAreLost, SeedingFirst, ReportOfSuccess

LEMMA OverStep == OverInv /\ [Next]_vars => OverInv'
<1> SUFFICES ASSUME OverInv, [Next]_vars PROVE OverInv'
  OBVIOUS
<1>0. BookInv /\ BookInv' /\ TypeOK /\ TypeOK'
  BY BookStep DEF OverInv, BookInv
<1>t. \A l \in lambdas : l.execution \in Executions /\ l.role \in Roles /\ l.attempt \in 0..Retries
  BY <1>0 DEF TypeOK, Invocations
<1> USE DEF OverInv, SucceededAreLost, SeedsAreLost, SeedingFirst, ReportOfSuccess, LoadMayRun, Lost
<1>1. CASE Tick \/ UNCHANGED vars
  BY <1>0, <1>1 DEF Tick, vars
<1>2. ASSUME NEW e \in Executions, StartExecution(e) PROVE OverInv'
  <2>1. /\ status[e] = "none" /\ status'[e] = "RUNNING"
        /\ UNCHANGED <<task, attempt, lambdas, stored>>
        /\ \A x \in Executions : x # e => status'[x] = status[x] /\ step'[x] = step[x]
    BY <1>0, <1>2 DEF StartExecution, TypeOK
  <2>2. \A r \in Roles : task[e][r] = "pending"
    BY <1>0, <2>1 DEF BookInv, InStep
  <2>3. \A l \in lambdas : l.execution # e
    BY <1>0, <1>t, <2>2 DEF BookInv, InvokedOnce
  <2> QED BY <1>0, <1>t, <2>1, <2>2, <2>3, RolesFacts
<1>3. ASSUME NEW e \in Executions, NEW role \in Roles, Invoke(e, role) PROVE OverInv'
  <2> DEFINE new == [execution |-> e, role |-> role,
                     attempt |-> attempt[e][role], invokedAt |-> now]
  <2>1. /\ status[e] = "RUNNING" /\ step[e] \in StepOf(role)
        /\ lambdas' = lambdas \cup {new}
        /\ UNCHANGED <<status, step, attempt, stored>>
        /\ task' = [task EXCEPT ![e][role] = "invoked"]
    BY <1>3 DEF Invoke, Invocable
  <2>2. \A x \in Executions, r \in Roles :
          task'[x][r] = IF x = e /\ r = role THEN "invoked" ELSE task[x][r]
    BY <1>0, <2>1 DEF TypeOK
  <2>3. new.execution = e /\ new.role = role
    OBVIOUS
  <2> HIDE DEF new
  <2>4. SucceededAreLost'
    BY <1>t, <2>1, <2>2, <2>3
  <2>5. role \in Workers => step[e] = "GenerateLoad"
    BY <2>1, RolesFacts DEF StepOf
  <2>6. \A x \in Executions : LoadMayRun(x)' => LoadMayRun(x)
    BY <2>1, <2>2, <2>5, RolesFacts
  <2>7. SeedsAreLost'
    <3>1. role = "pre-populate" => ~LoadMayRun(e)
      BY <2>1, RolesFacts DEF StepOf
    <3> QED BY <1>t, <2>1, <2>3, <2>6, <3>1
  <2>8. SeedingFirst' /\ ReportOfSuccess'
    BY <2>1, <2>2, <2>5, RolesFacts
  <2> QED BY <1>0, <2>4, <2>7, <2>8
<1>4. ASSUME NEW e \in Executions, End(e, "FAILED") \/ End(e, "TIMED_OUT"), status[e] = "RUNNING",
             UNCHANGED <<task, attempt>>, lambdas' \subseteq lambdas, stored \subseteq stored'
      PROVE  OverInv'
  <2>1. /\ \A x \in Executions : x # e => status'[x] = status[x] /\ step'[x] = step[x]
        /\ status'[e] \in {"FAILED", "TIMED_OUT"} /\ step'[e] = "End"
    BY <1>0, <1>4 DEF End, TypeOK
  <2> QED BY <1>0, <1>4, <1>t, <2>1
<1>5. ASSUME NEW e \in Executions, NEW role \in Roles, InvokeThrottled(e, role) PROVE OverInv'
  BY <1>4, <1>5 DEF InvokeThrottled, Invocable
<1>6. ASSUME NEW e \in Executions, TimeOut(e) PROVE OverInv'
  BY <1>4, <1>6 DEF TimeOut, ExecutionOverdue
<1>7. ASSUME NEW l \in lambdas, Break(l) PROVE OverInv'
  <2>1. /\ lambdas' \subseteq lambdas /\ stored \subseteq stored'
        /\ UNCHANGED <<task, attempt>>
    BY <1>7 DEF Break
  <2>2. CASE Awaited(l)
    BY <1>4, <1>7, <1>t, <2>1, <2>2 DEF Break, Awaited
  <2>3. CASE ~Awaited(l)
    <3>1. UNCHANGED <<status, step>>
      BY <1>7, <2>3 DEF Break
    <3> QED BY <1>0, <1>t, <2>1, <3>1
  <2> QED BY <2>2, <2>3
<1>8. ASSUME NEW l \in lambdas, Return(l) PROVE OverInv'
  <2>1. PICK e \in Executions, r \in Roles : l.execution = e /\ l.role = r
    BY <1>t
  <2>2. /\ lambdas' = lambdas \ {l} /\ UNCHANGED attempt
        /\ stored' = IF r = "aggregator" THEN stored \cup {e} ELSE stored
    BY <1>8, <2>1 DEF Return
  <2>3. CASE ~Awaited(l)
    <3>1. UNCHANGED <<task, step, status>>
      BY <1>8, <2>3 DEF Return
    <3> QED BY <1>0, <1>t, <2>2, <3>1
  <2>4. CASE Awaited(l)
    <3>1. /\ status[e] = "RUNNING" /\ l.attempt = attempt[e][r] /\ step[e] \in StepOf(r)
          /\ task' = [task EXCEPT ![e][r] = "succeeded"]
          /\ step' = [step EXCEPT ![e] = NextStep(e, r)]
          /\ status' = [status EXCEPT ![e] = IF r = "aggregator" THEN "SUCCEEDED" ELSE @]
      BY <1>0, <1>8, <2>1, <2>4 DEF Return, Awaited, BookInv, InStep
    <3>2. \A x \in Executions, q \in Roles :
            task'[x][q] = IF x = e /\ q = r THEN "succeeded" ELSE task[x][q]
      BY <1>0, <3>1 DEF TypeOK
    <3>3. /\ \A x \in Executions : x # e => status'[x] = status[x] /\ step'[x] = step[x]
          /\ step'[e] = NextStep(e, r)
          /\ status'[e] = IF r = "aggregator" THEN "SUCCEEDED" ELSE "RUNNING"
      BY <1>0, <3>1 DEF TypeOK
    <3>4. \A k \in lambdas' :
            /\ k \in lambdas /\ k.execution \in Executions /\ k.role \in Roles
            /\ k.execution = e /\ k.role = r => k.attempt # attempt[e][r]
      BY <1>0, <1>t, <2>1, <2>2, <3>1 DEF BookInv, InvokedOnce
    <3>5. SucceededAreLost'
      BY <2>2, <3>2, <3>4
    <3>6. r # "pre-populate" => LoadMayRun(e)
      BY <2>1, <3>1, RolesFacts DEF StepOf, Roles
    <3>7. \A x \in Executions : x # e /\ LoadMayRun(x)' => LoadMayRun(x)
      BY <3>2, <3>3, RolesFacts
    <3>8. SeedsAreLost'
      BY <2>2, <3>4, <3>6, <3>7
    <3>9. NextStep(e, r) # "PrePopulate"
      BY DEF NextStep
    <3>10. SeedingFirst'
      BY <3>2, <3>3, <3>9, RolesFacts
    <3>11. ReportOfSuccess'
      BY <2>2, <3>2, <3>3, RolesFacts
    <3> QED BY <1>0, <3>5, <3>8, <3>10, <3>11
  <2> QED BY <2>3, <2>4
<1>9. ASSUME NEW l \in lambdas, Fault(l) PROVE OverInv'
  <2>1. PICK e \in Executions, r \in Roles : l.execution = e /\ l.role = r
    BY <1>t
  <2>2. /\ lambdas' \subseteq lambdas /\ UNCHANGED stored /\ status[e] = "RUNNING"
        /\ l.attempt = attempt[e][r]
        /\ task[e][r] = "invoked" /\ step[e] \in StepOf(r)
    BY <1>0, <1>9, <2>1 DEF Fault, Awaited, BookInv, InStep
  <2>3. CASE ~(l.attempt < Retries)
    BY <1>4, <1>9, <2>1, <2>2, <2>3 DEF Fault
  <2>4. CASE l.attempt < Retries
    <3>1. /\ task' = [task EXCEPT ![e][r] = "retrying"]
          /\ attempt' = [attempt EXCEPT ![e][r] = attempt[e][r] + 1]
          /\ UNCHANGED <<status, step>>
      BY <1>9, <2>1, <2>2, <2>4 DEF Fault
    <3>2. \A x \in Executions, q \in Roles :
            /\ task'[x][q] = IF x = e /\ q = r THEN "retrying" ELSE task[x][q]
            /\ x # e \/ q # r => attempt'[x][q] = attempt[x][q]
      BY <1>0, <3>1 DEF TypeOK
    <3>3. SucceededAreLost'
      BY <1>t, <2>2, <3>2
    <3>4. \A x \in Executions : LoadMayRun(x)' => LoadMayRun(x)
      BY <2>2, <3>1, <3>2, RolesFacts
    <3>5. r = "pre-populate" => ~LoadMayRun(e)
      BY <2>2, RolesFacts DEF StepOf
    <3>6. SeedsAreLost'
      BY <1>t, <2>2, <3>2, <3>4, <3>5, RolesFacts
    <3>7. r \in Workers => step[e] # "PrePopulate"
      BY <2>2, RolesFacts DEF StepOf
    <3>8. SeedingFirst' /\ ReportOfSuccess'
      BY <2>2, <3>1, <3>2, <3>7, RolesFacts
    <3> QED BY <1>0, <3>3, <3>6, <3>8
  <2> QED BY <2>3, <2>4
<1> QED BY <1>1, <1>2, <1>3, <1>5, <1>6, <1>7, <1>8, <1>9
        DEF Next, ExecutionStep, LambdaStep, Raise, Kill, Terminated

LEMMA OverInvariant == Spec => []OverInv
BY OverInit, OverStep, PTL DEF Spec

(* Keys are not seeded beside the load of the same test, but for a lost    *)
(* attempt at seeding.                                                     *)
THEOREM SeedingPrecedesLoad == Spec => []SeedsBeforeLoad
<1>1. OverInv => SeedsBeforeLoad
  <2> SUFFICES ASSUME OverInv, NEW l \in lambdas, NEW k \in lambdas,
                      l.execution = k.execution, l.role = "pre-populate", k.role \in Workers
               PROVE  Lost(l)
    BY DEF SeedsBeforeLoad
  <2>1. task[k.execution][k.role] # "pending"
    BY DEF OverInv, BookInv, InvokedOnce
  <2> QED BY <2>1 DEF OverInv, SeedsAreLost, LoadMayRun
<1> QED BY <1>1, OverInvariant, PTL

(* A test that succeeded has its report, and no Lambda but lost attempts.  *)
THEOREM SuccessIsTheEnd == Spec => []SucceededIsOver
<1>1. OverInv => SucceededIsOver
  <2> SUFFICES ASSUME OverInv, NEW e \in Executions, status[e] = "SUCCEEDED",
                      NEW l \in lambdas, l.execution = e
               PROVE  Lost(l)
    BY DEF SucceededIsOver, OverInv, ReportOfSuccess
  <2>1. task[e]["aggregator"] = "succeeded" /\ l.role \in Roles
    BY DEF OverInv, ReportOfSuccess, BookInv, TypeOK, Invocations
  <2>2. \A w \in Workers : task[e][w] = "succeeded"
    BY <2>1 DEF OverInv, BookInv, AggregatedLast, WorkersDone
  <2>3. LoadMayRun(e)
    BY <2>2, StateMachineAssumption DEF LoadMayRun
  <2> QED
    BY <2>1, <2>2, <2>3 DEF Roles, OverInv, SucceededAreLost, SeedsAreLost
<1> QED BY <1>1, OverInvariant, PTL

-----------------------------------------------------------------------------
(* The Lambdas that produce load for a test and are awaited are fewer than *)
(* the Map state lets in beside one more.                                  *)
LEMMA FewAwaited ==
  ASSUME BookInv, NEW e \in Executions, NEW role \in Roles, Invocable(e, role),
         \A l \in LoadLambdas : l.execution = e /\ ~Lost(l)
  PROVE  Cardinality(LoadLambdas) \in Nat /\ Cardinality(LoadLambdas) < MaxConcurrency
<1>1. /\ status[e] = "RUNNING" /\ step[e] \in StepOf(role)
      /\ task[e][role] \in {"pending", "retrying"}
      /\ role \in Workers => MapHasRoom(e, role)
  BY DEF Invocable
<1>2. \A l \in LoadLambdas :
        /\ l.role \in Roles /\ l.role # "aggregator" /\ l.role # role
        /\ task[e][l.role] = "invoked" /\ step[e] \in StepOf(l.role)
  BY <1>1 DEF LoadLambdas, BookInv, TypeOK, Invocations, InStep, Awaited, Lost
<1>3. CASE role \in Workers
  <2> DEFINE Busy == {w \in Workers \ {role} : task[e][w] \in {"invoked", "retrying"}}
             roleOf == [l \in LoadLambdas |-> l.role]
  <2>1. \A l \in LoadLambdas : l.role \in Busy
    BY <1>1, <1>2, <1>3, RolesFacts DEF StepOf, Roles
  <2>2. \A l, k \in LoadLambdas : l.role = k.role => l = k
    BY DEF LoadLambdas, BookInv, InvokedOnce, Lost
  <2>3. roleOf \in Injection(LoadLambdas, Busy)
    BY <2>1, <2>2 DEF Injection, IsInjective
  <2>4. IsFiniteSet(Busy)
    <3>1. Busy \in SUBSET Workers
      OBVIOUS
    <3> QED BY <3>1, FS_Subset, StateMachineAssumption
  <2>5. Cardinality(Busy) < MaxConcurrency
    BY <1>1, <1>3 DEF MapHasRoom
  <2> HIDE DEF Busy, roleOf
  <2>6. IsFiniteSet(LoadLambdas) /\ Cardinality(LoadLambdas) <= Cardinality(Busy)
    BY <2>3, <2>4, FS_Injection
  <2>7. Cardinality(LoadLambdas) \in Nat /\ Cardinality(Busy) \in Nat
    BY <2>4, <2>6, FS_CardinalityType
  <2> QED BY <2>5, <2>6, <2>7, StateMachineAssumption
<1>4. CASE role \notin Workers
  <2>1. \A l \in LoadLambdas : FALSE
    BY <1>1, <1>2, <1>4, RolesFacts DEF StepOf, Roles
  <2>2. LoadLambdas = {}
    BY <2>1
  <2> QED BY <2>2, FS_EmptySet, StateMachineAssumption
<1> QED BY <1>3, <1>4

(* A test is refused an invocation only because of Lambdas of another test *)
(* or of lost attempts of its own.                                         *)
THEOREM ThrottledByOthers == Spec => []OnlyOthersThrottle
<1>1. BookInv => OnlyOthersThrottle
  <2> SUFFICES ASSUME BookInv, NEW e \in Executions, NEW role \in Roles, Invocable(e, role),
                      Cardinality(LoadLambdas) >= ReservedConcurrency,
                      \A l \in LoadLambdas : l.execution = e /\ ~Lost(l)
               PROVE  FALSE
    BY DEF OnlyOthersThrottle
  <2> QED BY FewAwaited, StateMachineAssumption
<1> QED BY <1>1, BookInit, BookStep, PTL DEF Spec

-----------------------------------------------------------------------------
(* The command line runner.  Its proofs rest on the invariant of the       *)
(* executions, of which the script's steps are stutters.                   *)

LEMMA RunStepIsNext == RunNext => [Next]_vars
<1> SUFFICES ASSUME RunNext PROVE [Next]_vars
  OBVIOUS
<1>1. ASSUME NEW e \in Executions, Launch(e) PROVE Next
  BY <1>1 DEF Launch, Next, ExecutionStep
<1>2. CASE ScriptStep
  BY <1>2 DEF ScriptStep, SeesSuccess, SeesFailure, FetchOutput, Truncate, SaveOutput,
              ShowCopy, CallFails
<1> QED BY <1>1, <1>2 DEF RunNext

(* An execution that has succeeded does so for good.                       *)
LEMMA SuccessLasts ==
  ASSUME BookInv, [Next]_vars, NEW e \in Executions, status[e] = "SUCCEEDED"
  PROVE  status'[e] = "SUCCEEDED"
<1>0. TypeOK
  BY DEF BookInv
<1>1. \A l \in lambdas : l.execution \in Executions /\ l.role \in Roles
  BY <1>0 DEF TypeOK, Invocations
<1>2. CASE Tick \/ Terminated \/ UNCHANGED vars
  BY <1>2 DEF Tick, Terminated, vars
<1>3. ASSUME NEW x \in Executions, ExecutionStep(x) PROVE status'[e] = "SUCCEEDED"
  <2>1. ASSUME NEW r \in Roles, Invoke(x, r) PROVE status'[e] = "SUCCEEDED"
    BY <2>1 DEF Invoke
  <2>2. CASE ~\E r \in Roles : Invoke(x, r)
    <3>1. status[x] # "SUCCEEDED" /\ \E s : status' = [status EXCEPT ![x] = s]
      BY <1>3, <2>2
      DEF ExecutionStep, StartExecution, InvokeThrottled, Invocable, TimeOut, ExecutionOverdue, End
    <3> QED BY <1>0, <3>1 DEF TypeOK
  <2> QED BY <2>1, <2>2
<1>4. ASSUME NEW l \in lambdas, LambdaStep(l) PROVE status'[e] = "SUCCEEDED"
  <2>1. CASE UNCHANGED status
    BY <2>1
  <2>2. CASE Awaited(l)
    <3>1. status[l.execution] = "RUNNING"
      BY <2>2 DEF Awaited
    <3>2. status' = status \/ \E s : status' = [status EXCEPT ![l.execution] = s]
      BY <1>4, <2>2 DEF LambdaStep, Return, Raise, Fault, Kill, Break, End
    <3> QED BY <1>0, <1>1, <3>1, <3>2 DEF TypeOK
  <2>3. Awaited(l) \/ UNCHANGED status
    BY <1>4 DEF LambdaStep, Return, Raise, Fault, Kill, Break
  <2> QED BY <2>1, <2>2, <2>3
<1> QED BY <1>2, <1>3, <1>4 DEF Next

-----------------------------------------------------------------------------
(* Where the script is tells what it has started, seen and saved.          *)
Told ==
  /\ script \in {"idle", "polling", "fetching", "opening"} => file = Earlier
  /\ script = "polling" => started \in Executions
  /\ script \in {"fetching", "opening", "writing", "saved", "done"} \/ file # Earlier =>
       started \in Executions /\ status[started] = "SUCCEEDED"
  /\ file = Partial => script \in {"writing", "failed"}
  /\ script \in {"saved", "done"} => file = started

ScriptInv == OverInv /\ ScriptTypeOK /\ Told

LEMMA ScriptInit == RunInit => ScriptInv
BY OverInit, RunTestAssumption DEF RunInit, ScriptInv, ScriptTypeOK, Told

LEMMA ScriptStays == ScriptInv /\ [RunNext]_runVars => ScriptInv'
<1> SUFFICES ASSUME ScriptInv, [RunNext]_runVars PROVE ScriptInv'
  OBVIOUS
<1>0. BookInv /\ OverInv' /\ [Next]_vars
  BY OverStep, RunStepIsNext DEF ScriptInv, OverInv, runVars
<1>1. \A e \in Executions : status[e] = "SUCCEEDED" => status'[e] = "SUCCEEDED"
  BY <1>0, SuccessLasts
<1> USE DEF ScriptInv, ScriptTypeOK, Told
<1>2. CASE UNCHANGED scriptVars
  BY <1>0, <1>1, <1>2 DEF scriptVars
<1>3. ASSUME NEW e \in Executions, Launch(e) PROVE ScriptInv'
  BY <1>0, <1>1, <1>3 DEF Launch
<1>4. CASE SeesSuccess
  BY <1>0, <1>1, <1>4 DEF SeesSuccess, BreaksOn, vars
<1>5. CASE Truncate
  BY <1>0, <1>1, <1>5, RunTestAssumption DEF Truncate, vars
<1>6. CASE SaveOutput
  BY <1>0, <1>1, <1>6, RunTestAssumption DEF SaveOutput, vars
<1>7. CASE FetchOutput \/ ShowCopy
  BY <1>0, <1>1, <1>7 DEF FetchOutput, ShowCopy, vars
<1>8. CASE SeesFailure \/ CallFails
  BY <1>0, <1>1, <1>8 DEF SeesFailure, CallFails, vars
<1> QED BY <1>2, <1>3, <1>4, <1>5, <1>6, <1>7, <1>8 DEF RunNext, ScriptStep, runVars

(* The state of the script is well typed.                                  *)
THEOREM ScriptTypeCorrect == RunSpec => []ScriptTypeOK
<1>1. ScriptInv => ScriptTypeOK
  BY DEF ScriptInv
<1> QED BY <1>1, ScriptInit, ScriptStays, PTL DEF RunSpec

(* Wherever the script breaks off, and however many others run tests       *)
(* beside it: the earlier result is emptied only for a test that is        *)
(* complete and stays so, a file that breaks off is never passed off as    *)
(* saved, and at Done the file is the output of the test it has started.   *)
THEOREM SavesAreComplete == RunSpec => []SavedIsComplete
<1>1. ScriptInv => SavedIsComplete
  <2> SUFFICES ASSUME ScriptInv PROVE SavedIsComplete
    OBVIOUS
  <2>1. ASSUME file # Earlier
        PROVE  status[started] = "SUCCEEDED" /\ started \in stored /\ WorkersDone(started) = Workers
    <3>1. started \in Executions /\ status[started] = "SUCCEEDED"
      BY <2>1 DEF ScriptInv, Told
    <3>2. started \in stored
      BY <3>1 DEF ScriptInv, OverInv, ReportOfSuccess
    <3> QED BY <3>1, <3>2 DEF ScriptInv, OverInv, BookInv, StoredIsComplete
  <2> QED BY <2>1 DEF ScriptInv, Told, SavedIsComplete
<1> QED BY <1>1, ScriptInit, ScriptStays, PTL DEF RunSpec
=============================================================================
