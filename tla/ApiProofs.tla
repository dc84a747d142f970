----------------------------- MODULE ApiProofs -----------------------------
(***************************************************************************)
(* Theorems about Api: for every number of scenarios, configurations,      *)
(* concurrent requests and seconds.                                        *)
(***************************************************************************)
EXTENDS Api, TLAPS

(* What the requests being handled know remains true until they end.       *)
CallsOK ==
  \A s \in Slots :
    /\ call[s].op = "start" =>
         /\ call[s] = [op |-> "start", name |-> call[s].name, config |-> call[s].config]
         /\ call[s].name \in Names /\ call[s].config \in Configs
         /\ execution[call[s].name] \in {"RUNNING", "FAILED"}
         /\ input[call[s].name] = call[s].config
    /\ call[s].op = "get" =>
         call[s].name \in Names /\ execution[call[s].name] = "SUCCEEDED"

SlotsOK == \A s \in Slots : call[s].op \in {"idle", "start", "get"} /\ (call[s].op = "idle" => call[s] = Idle)

(* Names that were told or seen are of tests that were started.            *)
Started == \A t \in told : execution[t.name] # "none"
SeenIsTrue == \A n \in Names : <<n, "SUCCEEDED">> \in seen => execution[n] = "SUCCEEDED"

StateOK ==
  /\ s3Fails \in BOOLEAN
  /\ now \in 0..MaxSecond
  /\ execution \in [Names -> Statuses]
  /\ input \in [Names -> Configs \cup {NoConfig}]
  /\ current \in Objects \cup {NoObject}
  /\ told \subseteq [name : Names, config : Configs]
  /\ seen \subseteq Names \X Statuses

ApiInv ==
  /\ StateOK /\ DOMAIN call = Slots /\ SlotsOK
  /\ CallsOK /\ Started /\ SeenIsTrue
  /\ CurrentIsTrue /\ SuccessIsNotActive /\ OneTestPerName

LEMMA ApiInit == Init => ApiInv
BY ApiAssumption
DEF Init, ApiInv, StateOK, SlotsOK, CallsOK, Started, SeenIsTrue, CurrentIsTrue, SuccessIsNotActive,
    OneTestPerName, Statuses, Idle, NoObject

(* A step that leaves the request's memory, or frees its slot.             *)
LEMMA CallsKept ==
  ASSUME ApiInv, execution' = execution, input' = input,
         call' = call \/ \E s \in Slots : call' = [call EXCEPT ![s] = Idle]
  PROVE  DOMAIN call' = Slots /\ SlotsOK' /\ CallsOK'
BY DEF ApiInv, SlotsOK, CallsOK, Idle

LEMMA PutCurrentKeeps ==
  ASSUME StateOK, CurrentIsTrue, NEW n \in Names, NEW status \in {"RUNNING", "SUCCEEDED"},
         PutCurrent(n, status), execution' = execution,
         IF status = "SUCCEEDED" THEN execution[n] = "SUCCEEDED" ELSE execution[n] # "none"
  PROVE  current' \in Objects \cup {NoObject} /\ CurrentIsTrue'
<1>1. CASE current' = [name |-> n, status |-> status]
  <2>1. current' \in Objects /\ current'.name = n /\ current'.status = status
    BY <1>1 DEF Objects
  <2> QED BY <2>1 DEF CurrentIsTrue
<1>2. CASE current' = current
  BY <1>2 DEF StateOK, CurrentIsTrue
<1> QED BY <1>1, <1>2 DEF PutCurrent

LEMMA ApiStep == ApiInv /\ [Next]_vars => ApiInv'
<1> SUFFICES ASSUME ApiInv, [Next]_vars PROVE ApiInv'
  OBVIOUS
<1>0. ApiInv
  OBVIOUS
<1>1. CASE Tick
  <2>1. StateOK'
    BY <1>1, ApiAssumption DEF Tick, ApiInv, StateOK
  <2> QED
    BY <1>1, <2>1, CallsKept
    DEF Tick, ApiInv, Started, SeenIsTrue, CurrentIsTrue, SuccessIsNotActive, OneTestPerName
<1>2. ASSUME NEW s \in Slots, NEW scenario \in Scenarios, NEW config \in Configs,
             StartExecution(s, scenario, config)
      PROVE  ApiInv'
  <2> DEFINE name == <<scenario, now>>
  <2>1. /\ name \in Names
        /\ \/ execution[name] = "none"
           \/ execution[name] = "RUNNING" /\ input[name] = config
        /\ execution' = [execution EXCEPT ![name] = "RUNNING"]
        /\ input' = [input EXCEPT ![name] = config]
        /\ call' = [call EXCEPT ![s] = [op |-> "start", name |-> name, config |-> config]]
        /\ UNCHANGED <<s3Fails, now, current, told, seen>>
    BY <1>2 DEF StartExecution, SfnInput, Names, ApiInv, StateOK
  <2> HIDE DEF name
  <2>2. /\ execution'[name] = "RUNNING" /\ input'[name] = config
        /\ \A n \in Names : n # name => execution'[n] = execution[n] /\ input'[n] = input[n]
    BY <2>1 DEF ApiInv, StateOK
  <2>3. StateOK'
    BY <2>1 DEF ApiInv, StateOK, Statuses
  <2>4. /\ DOMAIN call' = Slots
        /\ call'[s].op = "start" /\ call'[s].name = name /\ call'[s].config = config
        /\ call'[s] = [op |-> "start", name |-> name, config |-> config]
        /\ \A x \in Slots : x # s => call'[x] = call[x]
    BY <2>1 DEF ApiInv
  <2>5. SlotsOK'
    BY <2>4 DEF ApiInv, SlotsOK
  <2>6. CallsOK'
    <3> SUFFICES ASSUME NEW x \in Slots, x # s
                 PROVE  /\ call[x].op = "start" =>
                             /\ execution'[call[x].name] \in {"RUNNING", "FAILED"}
                             /\ input'[call[x].name] = call[x].config
                        /\ call[x].op = "get" => execution'[call[x].name] = "SUCCEEDED"
      BY <2>1, <2>2, <2>4 DEF CallsOK, ApiInv
    <3> QED BY <2>1, <2>2 DEF CallsOK, ApiInv
  <2>7. Started' /\ OneTestPerName'
    <3> SUFFICES ASSUME NEW t \in told
                 PROVE  execution'[t.name] # "none" /\ input'[t.name] = t.config
      BY <2>1 DEF Started, OneTestPerName
    <3>1. t.name \in Names /\ execution[t.name] # "none" /\ input[t.name] = t.config
      BY DEF ApiInv, StateOK, Started, OneTestPerName
    <3> QED BY <2>1, <2>2, <3>1
  <2>8. SeenIsTrue' /\ CurrentIsTrue' /\ SuccessIsNotActive'
    <3>1. current # NoObject => current.name \in Names
      BY DEF ApiInv, StateOK, Objects
    <3> QED BY <2>1, <2>2, <3>1 DEF ApiInv, SeenIsTrue, CurrentIsTrue, SuccessIsNotActive
  <2> QED BY <2>3, <2>4, <2>5, <2>6, <2>7, <2>8 DEF ApiInv
<1>3. ASSUME NEW s \in Slots, NEW n \in Names, GetExecution(s, n) PROVE ApiInv'
  <2>1. /\ UNCHANGED <<s3Fails, now, execution, input, current, told>>
        /\ call[s] = Idle
    BY <1>3 DEF GetExecution
  <2>2. CASE SavesSuccess(n)
    <3>1. call' = [call EXCEPT ![s] = [op |-> "get", name |-> n]] /\ seen' = seen
      BY <1>3, <2>2 DEF GetExecution
    <3>2. /\ DOMAIN call' = Slots /\ call'[s].op = "get" /\ call'[s].name = n
          /\ \A x \in Slots : x # s => call'[x] = call[x]
      BY <3>1 DEF ApiInv
    <3>3. SlotsOK' /\ CallsOK'
      BY <2>1, <2>2, <3>2 DEF ApiInv, SlotsOK, CallsOK, SavesSuccess
    <3> QED
      BY <2>1, <3>1, <3>2, <3>3
      DEF ApiInv, StateOK, Started, SeenIsTrue, CurrentIsTrue, SuccessIsNotActive, OneTestPerName
  <2>3. CASE ~SavesSuccess(n)
    <3>1. call' = call /\ seen' = seen \cup {<<n, execution[n]>>}
      BY <1>3, <2>3 DEF GetExecution
    <3>2. execution[n] \in Statuses /\ execution[n] # "SUCCEEDED"
      BY <2>3 DEF ApiInv, StateOK, SavesSuccess
    <3>3. \A m \in Names : <<m, "SUCCEEDED">> \in seen' => <<m, "SUCCEEDED">> \in seen
      BY <3>1, <3>2
    <3>4. StateOK'
      BY <2>1, <3>1, <3>2 DEF ApiInv, StateOK
    <3> QED
      BY <2>1, <3>1, <3>3, <3>4, CallsKept
      DEF ApiInv, Started, SeenIsTrue, CurrentIsTrue, SuccessIsNotActive, OneTestPerName
  <2> QED BY <2>2, <2>3
<1>4. ASSUME NEW s \in Slots, AnswerStart(s) PROVE ApiInv'
  <2> DEFINE n == call[s].name
             c == call[s].config
  <2>1. /\ n \in Names /\ c \in Configs
        /\ execution[n] \in {"RUNNING", "FAILED"} /\ input[n] = c
        /\ PutCurrent(n, "RUNNING")
        /\ told' = told \cup {[name |-> n, config |-> c]}
        /\ call' = [call EXCEPT ![s] = Idle]
        /\ UNCHANGED <<s3Fails, now, execution, input, seen>>
    BY <1>4 DEF AnswerStart, ApiInv, CallsOK
  <2> HIDE DEF n, c
  <2>2. current' \in Objects \cup {NoObject} /\ CurrentIsTrue'
    BY <2>1, PutCurrentKeeps DEF ApiInv
  <2>3. StateOK'
    <3>1. [name |-> n, config |-> c] \in [name : Names, config : Configs]
      BY <2>1
    <3> QED BY <2>1, <2>2, <3>1 DEF ApiInv, StateOK
  <2>4. SuccessIsNotActive'
    <3> SUFFICES ASSUME ~s3Fails, NEW m \in Names, <<m, "SUCCEEDED">> \in seen
                 PROVE  current' # [name |-> m, status |-> "RUNNING"]
      BY <2>1 DEF SuccessIsNotActive
    <3>1. execution[m] = "SUCCEEDED" /\ m # n
      BY <2>1 DEF ApiInv, SeenIsTrue
    <3>2. current' = [name |-> n, status |-> "RUNNING"]
      BY <2>1 DEF PutCurrent
    <3>3. current'.name = n /\ [name |-> m, status |-> "RUNNING"].name = m
      BY <3>2
    <3> QED BY <3>1, <3>3
  <2>5. Started' /\ OneTestPerName'
    <3>1. \A t \in told' : t \in told \/ (t.name = n /\ t.config = c)
      BY <2>1
    <3> QED BY <2>1, <3>1 DEF ApiInv, Started, OneTestPerName
  <2> QED BY <2>1, <2>2, <2>3, <2>4, <2>5, CallsKept DEF ApiInv, SeenIsTrue
<1>5. ASSUME NEW s \in Slots, AnswerGet(s) PROVE ApiInv'
  <2> DEFINE n == call[s].name
  <2>1. /\ n \in Names /\ execution[n] = "SUCCEEDED"
        /\ PutCurrent(n, "SUCCEEDED")
        /\ seen' = seen \cup {<<n, "SUCCEEDED">>}
        /\ call' = [call EXCEPT ![s] = Idle]
        /\ UNCHANGED <<s3Fails, now, execution, input, told>>
    BY <1>5 DEF AnswerGet, StatusSaved, ApiInv, CallsOK
  <2> HIDE DEF n
  <2>2. current' \in Objects \cup {NoObject} /\ CurrentIsTrue'
    BY <2>1, PutCurrentKeeps DEF ApiInv
  <2>3. StateOK'
    <3>1. <<n, "SUCCEEDED">> \in Names \X Statuses
      BY <2>1 DEF Statuses
    <3> QED BY <2>1, <2>2, <3>1 DEF ApiInv, StateOK
  <2>4. SuccessIsNotActive'
    <3> SUFFICES ASSUME ~s3Fails, NEW m \in Names
                 PROVE  current' # [name |-> m, status |-> "RUNNING"]
      BY <2>1 DEF SuccessIsNotActive
    <3>1. current' = [name |-> n, status |-> "SUCCEEDED"]
      BY <2>1 DEF PutCurrent
    <3>2. current'.status = "SUCCEEDED" /\ [name |-> m, status |-> "RUNNING"].status = "RUNNING"
      BY <3>1
    <3> QED BY <3>2
  <2>5. SeenIsTrue'
    BY <2>1 DEF ApiInv, SeenIsTrue
  <2> QED BY <2>1, <2>2, <2>3, <2>4, <2>5, CallsKept DEF ApiInv, Started, OneTestPerName
<1>6. ASSUME NEW s \in Slots, CutOff(s) PROVE ApiInv'
  BY <1>6, CallsKept
  DEF CutOff, ApiInv, StateOK, Started, SeenIsTrue, CurrentIsTrue, SuccessIsNotActive, OneTestPerName
<1>7. ASSUME NEW n \in Names, StoreResult(n) PROVE ApiInv'
  BY <1>7, CallsKept
  DEF StoreResult, ApiInv, StateOK, Started, SeenIsTrue, CurrentIsTrue, SuccessIsNotActive, OneTestPerName
<1>8. ASSUME NEW n \in Names, ExecutionEnds(n) PROVE ApiInv'
  <2>1. PICK end \in {"SUCCEEDED", "FAILED"} :
          /\ execution' = [execution EXCEPT ![n] = end]
          /\ end = "SUCCEEDED" =>
               \A s \in Slots : ~(call[s].op = "start" /\ call[s].name = n)
    BY <1>8 DEF ExecutionEnds
  <2>2. /\ execution[n] = "RUNNING"
        /\ UNCHANGED <<s3Fails, now, input, current, call, told, seen>>
    BY <1>8 DEF ExecutionEnds
  <2>3. execution'[n] = end /\ \A m \in Names : m # n => execution'[m] = execution[m]
    BY <2>1 DEF ApiInv, StateOK
  <2>4. StateOK'
    BY <2>1, <2>2 DEF ApiInv, StateOK, Statuses
  <2>5. SlotsOK' /\ CallsOK'
    BY <2>1, <2>2, <2>3 DEF ApiInv, SlotsOK, CallsOK
  <2>6. Started' /\ SeenIsTrue'
    BY <2>1, <2>2, <2>3 DEF ApiInv, StateOK, Started, SeenIsTrue
  <2>7. CurrentIsTrue' /\ SuccessIsNotActive' /\ OneTestPerName'
    <3>1. current # NoObject => current.name \in Names
      BY DEF ApiInv, StateOK, Objects
    <3> QED BY <2>1, <2>2, <2>3, <3>1 DEF ApiInv, CurrentIsTrue, SuccessIsNotActive, OneTestPerName
  <2> QED BY <2>2, <2>4, <2>5, <2>6, <2>7 DEF ApiInv
<1>9. CASE UNCHANGED vars
  BY <1>9, CallsKept
  DEF vars, ApiInv, StateOK, Started, SeenIsTrue, CurrentIsTrue, SuccessIsNotActive, OneTestPerName
<1> QED BY <1>1, <1>2, <1>3, <1>4, <1>5, <1>6, <1>7, <1>8, <1>9 DEF Next

LEMMA ApiInvariant == Spec => []ApiInv
BY ApiInit, ApiStep, PTL DEF Spec

StoredOK == stored \in Seq(Names) /\ IsInjective(stored)

LEMMA StoredStep == StoredOK /\ [Next]_vars => StoredOK'
<1> SUFFICES ASSUME StoredOK, [Next]_vars PROVE StoredOK'
  OBVIOUS
<1>1. ASSUME NEW n \in Names, StoreResult(n) PROVE StoredOK'
  <2>1. /\ stored' = Append(stored, n)
        /\ \A i \in DOMAIN stored : stored[i] # n
    BY <1>1 DEF StoreResult
  <2>2. /\ stored' \in Seq(Names) /\ DOMAIN stored' = 1..(Len(stored) + 1)
        /\ stored'[Len(stored) + 1] = n
        /\ \A i \in 1..Len(stored) : stored'[i] = stored[i]
        /\ DOMAIN stored = 1..Len(stored) /\ Len(stored) \in Nat
    BY <2>1 DEF StoredOK
  <2>3. ASSUME NEW i \in DOMAIN stored', NEW j \in DOMAIN stored', stored'[i] = stored'[j]
        PROVE  i = j
    <3>1. /\ i \in 1..Len(stored) \/ i = Len(stored) + 1
          /\ j \in 1..Len(stored) \/ j = Len(stored) + 1
      BY <2>2
    <3> QED BY <2>1, <2>2, <2>3, <3>1 DEF StoredOK, IsInjective
  <2> QED BY <2>2, <2>3 DEF StoredOK, IsInjective
<1>2. ASSUME UNCHANGED stored PROVE StoredOK'
  BY <1>2 DEF StoredOK
<1> QED
  BY <1>1, <1>2
  DEF Next, vars, Tick, StartExecution, GetExecution, AnswerStart, AnswerGet, CutOff, ExecutionEnds

(* Every reachable state of the API is well typed.                         *)
THEOREM TypeCorrect == Spec => []TypeOK
<1>1. Init => StoredOK
  BY DEF Init, StoredOK, IsInjective
<1>2. ApiInv /\ StoredOK => TypeOK
  BY DEF ApiInv, StateOK, SlotsOK, CallsOK, StoredOK, TypeOK
<1> QED BY <1>1, <1>2, StoredStep, ApiInvariant, PTL DEF Spec

(* /api/current tells the truth about the test it names.                   *)
THEOREM CurrentTellsTruth == Spec => []CurrentIsTrue
<1>1. ApiInv => CurrentIsTrue BY DEF ApiInv
<1> QED BY <1>1, ApiInvariant, PTL

(* A test that a page has seen succeed is not shown as running again.      *)
THEOREM SuccessStays == Spec => []SuccessIsNotActive
<1>1. ApiInv => SuccessIsNotActive BY DEF ApiInv
<1> QED BY <1>1, ApiInvariant, PTL

(* Whoever is told a name gets the test that was asked for.                *)
THEOREM NamesAreTests == Spec => []OneTestPerName
<1>1. ApiInv => OneTestPerName BY DEF ApiInv
<1> QED BY <1>1, ApiInvariant, PTL
=============================================================================
