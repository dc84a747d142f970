-------------------------- MODULE DashboardProofs --------------------------
(***************************************************************************)
(* Proofs about the dashboard page, for every number of runs, requests in  *)
(* flight and scenarios, and for every behaviour of the user.              *)
(***************************************************************************)
EXTENDS Dashboard, TLAPS

LEMMA RunsFacts == Runs \subseteq Nat /\ NoRun \notin Runs /\ NoRun = 0
BY DashboardAssumption DEF Runs, NoRun

LEMMA TypeInit == Init => TypeOK
<1> SUFFICES ASSUME Init PROVE TypeOK
  OBVIOUS
<1>1. MaxInFlight[patient] \in Nat /\ 0 \in 0..MaxInFlight[patient] /\ 0 \in 0..MaxRuns
  BY DashboardAssumption DEF Init
<1>2. asked \in [Intervals -> 0..MaxInFlight[patient]]
  BY <1>1 DEF Init
<1> QED BY <1>1, <1>2, DashboardAssumption DEF Init, TypeOK

(* The parts of TypeOK that are about the globals of the page: every       *)
(* action changes them as StopDemo or Started do, or not at all.           *)
PageTypeOK ==
  /\ running \in BOOLEAN
  /\ {pollTimer, livePollTimer} \subseteq Runs \cup {NoRun}
  /\ intervals \subseteq Intervals
  /\ pollTimer # NoRun => <<"status", pollTimer>> \in intervals
  /\ livePollTimer # NoRun => <<"live", livePollTimer>> \in intervals

LEMMA StopPollingType == TypeOK /\ StopPolling /\ running' \in BOOLEAN => PageTypeOK'
BY DEF TypeOK, StopPolling, PageTypeOK

LEMMA StopDemoType == TypeOK /\ StopDemo => PageTypeOK'
BY StopPollingType DEF StopDemo

LEMMA AskedType ==
  ASSUME TypeOK, NEW i \in Intervals,
         asked' = [asked EXCEPT ![i] = @ - 1], asked[i] > 0, patient' = patient
  PROVE  asked' \in [Intervals -> 0..MaxInFlight[patient]]'
<1>1. MaxInFlight[patient] \in Nat /\ asked[i] \in 0..MaxInFlight[patient]
  BY DashboardAssumption DEF TypeOK
<1>2. asked[i] - 1 \in 0..MaxInFlight[patient]
  BY <1>1
<1> QED BY <1>2 DEF TypeOK

(* What the page saves and shows of an execution that has ended.           *)
LEMMA OutcomeType ==
  ASSUME TypeOK, NEW r \in Runs, Ended(r)
  PROVE  Saved(r) \in Entries /\ \A c \in Results(r) : c \subseteq Sources
BY DEF TypeOK, Ended, Saved, Results, Seen, Entries, Sources

LEMMA TypeStep == TypeOK /\ [Next]_vars => TypeOK'
<1> SUFFICES ASSUME TypeOK, [Next]_vars PROVE TypeOK'
  OBVIOUS
<1>0. \A r \in Runs : <<"live", r>> \in Intervals /\ <<"status", r>> \in Intervals
  BY DEF Intervals, Kinds
<1>1. ASSUME StartDemo PROVE TypeOK'
  <2>1. lastRun + 1 \in Runs
    BY <1>1, DashboardAssumption DEF StartDemo, TypeOK, Runs
  <2> QED BY <1>1, <2>1, DashboardAssumption
          DEF StartDemo, TypeOK, Runs, ChartsAtStart
<1>2. ASSUME Stop PROVE TypeOK'
  BY <1>2, StopDemoType DEF Stop, TypeOK, PageTypeOK
<1>3. ASSUME NEW s \in Scenarios, SelectScenario(s) PROVE TypeOK'
  BY <1>3 DEF SelectScenario, TypeOK, pageVars
<1>4. ASSUME ResultsLoaded PROVE TypeOK'
  BY <1>4 DEF ResultsLoaded, TypeOK, pageVars, Sources
<1>5. ASSUME NEW r \in Runs, PostHandled(r) PROVE TypeOK'
  BY <1>5 DEF PostHandled, TypeOK, pageVars
<1>6. ASSUME NEW r \in Runs, Started(r) PROVE TypeOK'
  BY <1>0, <1>6 DEF Started, TypeOK, Entries
<1>7. ASSUME NEW r \in Runs, StartFailed(r) PROVE TypeOK'
  BY <1>7, StopDemoType DEF StartFailed, GiveUp, TypeOK, PageTypeOK
<1>8. ASSUME NEW r \in Runs, LiveData(r) PROVE TypeOK'
  <2>1. (asked \in [Intervals -> 0..MaxInFlight[patient]])'
    BY <1>0, <1>8, AskedType DEF LiveData, Answered
  <2> QED BY <1>8, <2>1 DEF LiveData, TypeOK, pageVars, Sources
<1>9. ASSUME NEW r \in Runs, Completed(r) PROVE TypeOK'
  <2>1. (asked \in [Intervals -> 0..MaxInFlight[patient]])'
    BY <1>0, <1>9, AskedType DEF Completed, Answered
  <2>2. storage' \in Entries /\ charts' \subseteq Sources
    BY <1>9, OutcomeType DEF Completed, TypeOK
  <2> QED BY <1>9, <2>1, <2>2, StopDemoType DEF Completed, TypeOK, PageTypeOK
<1>14. ASSUME NEW r \in Runs, CompletionThrows(r) PROVE TypeOK'
  <2>1. (asked \in [Intervals -> 0..MaxInFlight[patient]])'
    BY <1>0, <1>14, AskedType DEF CompletionThrows, Answered
  <2>2. storage' \in Entries \cup {NoStorage} /\ charts' \subseteq Sources
    BY <1>14, OutcomeType DEF CompletionThrows, TypeOK
  <2>3. PageTypeOK'
    BY <1>14, StopPollingType DEF CompletionThrows, TypeOK
  <2> QED BY <1>14, <2>1, <2>2, <2>3 DEF CompletionThrows, TypeOK, PageTypeOK
<1>10. ASSUME NEW r \in Runs, ExecutionEnds(r) PROVE TypeOK'
  BY <1>10 DEF ExecutionEnds, TypeOK, pageVars
<1>11. ASSUME NEW i \in Intervals, Poll(i) PROVE TypeOK'
  <2>1. MaxInFlight[patient] \in Nat /\ asked[i] \in 0..MaxInFlight[patient]
    BY DashboardAssumption DEF TypeOK
  <2>2. asked[i] + 1 \in 0..MaxInFlight[patient]
    BY <1>11, <2>1 DEF Poll
  <2> QED BY <1>11, <2>2 DEF Poll, TypeOK, pageVars
<1>12. ASSUME NEW i \in Intervals, NoNews(i) PROVE TypeOK'
  <2>1. (asked \in [Intervals -> 0..MaxInFlight[patient]])'
    BY <1>12, AskedType DEF NoNews, Answered
  <2> QED BY <1>12, <2>1 DEF NoNews, TypeOK, pageVars
<1>13. CASE UNCHANGED vars
  BY <1>13 DEF vars, pageVars, TypeOK
<1> QED
  BY <1>1, <1>2, <1>3, <1>4, <1>5, <1>6, <1>7, <1>8, <1>9, <1>10, <1>11, <1>12, <1>13, <1>14 DEF Next

(* Every reachable state of the page is well typed, and the handles refer  *)
(* to intervals that fire.                                                 *)
THEOREM TypeCorrect == Spec => []TypeOK
BY TypeInit, TypeStep, PTL DEF Spec

-----------------------------------------------------------------------------
OutcomeInv == TypeOK /\ InOrder /\ OutcomesAreTrue

LEMMA OutcomeInit == Init => OutcomeInv
BY TypeInit DEF Init, OutcomeInv, InOrder, OutcomesAreTrue, NoStorage

LEMMA InOrderStep == TypeOK /\ InOrder /\ [Next]_vars => InOrder'
<1> SUFFICES ASSUME TypeOK, InOrder, [Next]_vars PROVE InOrder'
  OBVIOUS
<1> USE DEF InOrder
<1>0. /\ post \in [Runs -> {"none", "sent", "accepted", "refused", "answered"}]
      /\ execution \in [Runs -> {"none", "RUNNING"} \cup Outcomes]
      /\ lastRun \in Nat /\ Runs \subseteq Nat
  BY RunsFacts, DashboardAssumption DEF TypeOK
<1>1. ASSUME StartDemo PROVE InOrder'
  <2>1. lastRun + 1 \in Runs
    BY <1>1, DashboardAssumption DEF StartDemo, TypeOK, Runs
  <2> QED BY <1>0, <1>1, <2>1 DEF StartDemo
<1>2. ASSUME NEW r \in Runs, PostHandled(r) \/ Started(r) \/ StartFailed(r) PROVE InOrder'
  <2>1. /\ lastRun' = lastRun /\ (running' => running)
        /\ \A q \in Runs : q # r => post'[q] = post[q] /\ execution'[q] = execution[q]
        /\ post'[r] \notin {"none", "sent"} /\ post[r] # "none"
    BY <1>0, <1>2 DEF PostHandled, Started, StartFailed, GiveUp, StopDemo, pageVars
  <2> QED BY <1>0, <2>1
<1>3. ASSUME NEW r \in Runs, ExecutionEnds(r) PROVE InOrder'
  <2>1. UNCHANGED <<lastRun, running, post>> /\ execution[r] = "RUNNING"
        /\ \A q \in Runs : q # r => execution'[q] = execution[q]
    BY <1>0, <1>3 DEF ExecutionEnds, pageVars
  <2> QED BY <1>0, <2>1
<1>4. CASE UNCHANGED <<lastRun, post, execution>> /\ (running' => running)
  BY <1>0, <1>4
<1>5. ASSUME NEW r \in Runs, LiveData(r) \/ Completed(r) \/ CompletionThrows(r)
      PROVE  UNCHANGED <<lastRun, post, execution>> /\ (running' => running)
  BY <1>5 DEF LiveData, Completed, CompletionThrows, StopDemo, pageVars
<1>6. ASSUME NEW i \in Intervals, Poll(i) \/ NoNews(i)
      PROVE  UNCHANGED <<lastRun, post, execution>> /\ (running' => running)
  BY <1>6 DEF Poll, NoNews, pageVars
<1>7. ASSUME NEW s \in Scenarios, SelectScenario(s) \/ ResultsLoaded
      PROVE  UNCHANGED <<lastRun, post, execution>> /\ (running' => running)
  BY <1>7 DEF SelectScenario, ResultsLoaded, pageVars
<1>8. ASSUME Stop \/ ResultsLoaded \/ UNCHANGED vars
      PROVE  UNCHANGED <<lastRun, post, execution>> /\ (running' => running)
  BY <1>8 DEF Stop, StopDemo, ResultsLoaded, vars, pageVars
<1> QED
  BY <1>1, <1>2, <1>3, <1>4, <1>5, <1>6, <1>7, <1>8 DEF Next

LEMMA OutcomeStep == OutcomeInv /\ [Next]_vars => OutcomeInv'
<1> SUFFICES ASSUME OutcomeInv, [Next]_vars PROVE OutcomesAreTrue'
  BY TypeStep, InOrderStep DEF OutcomeInv
<1> USE DEF OutcomeInv, OutcomesAreTrue
<1>0. /\ execution \in [Runs -> {"none", "RUNNING"} \cup Outcomes]
      /\ storage # NoStorage => storage.run \in Runs
      /\ "RUNNING" \notin Outcomes /\ "none" \notin Outcomes
  BY DEF TypeOK, Entries, Outcomes
<1>1. ASSUME \A r \in Runs : execution[r] \in Outcomes => execution'[r] = execution[r],
             storage' = storage, charts' \subseteq charts \cup ({"stored", "live"} \X (Runs \cup {NoRun}))
      PROVE  OutcomesAreTrue'
  BY <1>0, <1>1 DEF Outcomes
<1>2. ASSUME NEW r \in Runs, PostHandled(r) PROVE OutcomesAreTrue'
  <2>1. execution[r] = "none"
    BY <1>2 DEF PostHandled, InOrder
  <2> QED BY <1>0, <1>1, <1>2, <2>1 DEF PostHandled
<1>3. ASSUME NEW r \in Runs, ExecutionEnds(r) PROVE OutcomesAreTrue'
  BY <1>0, <1>1, <1>3 DEF ExecutionEnds
<1>4. ASSUME NEW r \in Runs, Started(r) PROVE OutcomesAreTrue'
  BY <1>0, <1>4 DEF Started
<1>5. ASSUME NEW r \in Runs, Completed(r) \/ CompletionThrows(r) PROVE OutcomesAreTrue'
  <2>1. /\ execution' = execution
        /\ storage' = storage \/ (storage'.run = r /\ storage'.status = execution[r])
    BY <1>5 DEF Completed, CompletionThrows, Saved, Seen
  <2>2. ASSUME NEW q \in Runs, <<"final", q>> \in charts' PROVE execution[q] = "SUCCEEDED"
    BY <1>5, <2>2 DEF Completed, CompletionThrows, Results, Seen
  <2> QED BY <2>1, <2>2
<1>6. ASSUME NEW r \in Runs, LiveData(r) \/ StartFailed(r) PROVE OutcomesAreTrue'
  BY <1>1, <1>6 DEF LiveData, StartFailed
<1>7. ASSUME NEW i \in Intervals, Poll(i) \/ NoNews(i) PROVE OutcomesAreTrue'
  BY <1>1, <1>7 DEF Poll, NoNews
<1>8. ASSUME NEW s \in Scenarios, SelectScenario(s) PROVE OutcomesAreTrue'
  BY <1>1, <1>8 DEF SelectScenario
<1>9. CASE StartDemo \/ Stop \/ ResultsLoaded \/ UNCHANGED vars
  BY <1>1, <1>9 DEF StartDemo, ChartsAtStart, Stop, ResultsLoaded, vars
<1> QED
  BY <1>2, <1>3, <1>4, <1>5, <1>6, <1>7, <1>8, <1>9 DEF Next

(* Whatever answers are late, lost or overtaken, an outcome that the page  *)
(* saves or shows is the outcome of that execution.                        *)
THEOREM OutcomesReported == Spec => []OutcomesAreTrue
<1>1. OutcomeInv => OutcomesAreTrue
  BY DEF OutcomeInv
<1> QED BY <1>1, OutcomeInit, OutcomeStep, PTL DEF Spec

-----------------------------------------------------------------------------
ButtonInv == TypeOK /\ InOrder /\ ButtonNotStuck

LEMMA ButtonInit == Init => ButtonInv
BY TypeInit, OutcomeInit DEF Init, ButtonInv, OutcomeInv, ButtonNotStuck

LEMMA ButtonStep == ButtonInv /\ [Next]_vars => ButtonInv'
<1> SUFFICES ASSUME ButtonInv, [Next]_vars PROVE ButtonNotStuck'
  BY TypeStep, InOrderStep DEF ButtonInv
<1> USE DEF ButtonInv, ButtonNotStuck, InFlight
<1>0. /\ post \in [Runs -> {"none", "sent", "accepted", "refused", "answered"}]
      /\ lastRun \in 0..MaxRuns /\ MaxRuns \in Nat
      /\ running => lastRun \in Runs
  BY DashboardAssumption DEF TypeOK, InOrder
<1>1. ASSUME StartDemo PROVE ButtonNotStuck'
  <2>1. lastRun + 1 \in Runs
    BY <1>0, <1>1 DEF StartDemo, Runs
  <2> QED BY <1>0, <1>1, <2>1 DEF StartDemo
<1>2. ASSUME NEW r \in Runs, PostHandled(r) PROVE ButtonNotStuck'
  BY <1>0, <1>2 DEF PostHandled, pageVars
<1>3. ASSUME NEW r \in Runs, Started(r) PROVE ButtonNotStuck'
  <2>1. CASE lastRun = r
    BY <1>3, <2>1 DEF Started
  <2>2. CASE lastRun # r
    BY <1>0, <1>3, <2>2 DEF Started
  <2> QED BY <2>1, <2>2
<1>4. ASSUME StopDemo PROVE ButtonNotStuck'
  BY <1>4 DEF StopDemo
<1>5. ASSUME UNCHANGED <<throws, running, intervals, lastRun, post>> PROVE ButtonNotStuck'
  BY <1>5
<1>6. ASSUME NEW r \in Runs, StartFailed(r) \/ Completed(r) PROVE ButtonNotStuck'
  <2>1. StopDemo
    BY <1>6 DEF StartFailed, Completed, GiveUp
  <2> QED BY <1>4, <2>1
<1>11. ASSUME NEW r \in Runs, CompletionThrows(r) PROVE ButtonNotStuck'
  BY <1>11 DEF CompletionThrows
<1>7. ASSUME NEW r \in Runs, LiveData(r) \/ ExecutionEnds(r) PROVE ButtonNotStuck'
  <2>1. UNCHANGED <<throws, running, intervals, lastRun, post>>
    BY <1>7 DEF LiveData, ExecutionEnds, pageVars
  <2> QED BY <1>5, <2>1
<1>8. ASSUME NEW i \in Intervals, Poll(i) \/ NoNews(i) PROVE ButtonNotStuck'
  <2>1. UNCHANGED <<throws, running, intervals, lastRun, post>>
    BY <1>8 DEF Poll, NoNews, pageVars
  <2> QED BY <1>5, <2>1
<1>9. ASSUME NEW s \in Scenarios, SelectScenario(s) PROVE ButtonNotStuck'
  BY <1>5, <1>9 DEF SelectScenario, pageVars
<1>10. CASE Stop \/ ResultsLoaded \/ UNCHANGED vars
  <2>1. CASE Stop
    BY <1>4, <2>1 DEF Stop
  <2>2. CASE ResultsLoaded \/ UNCHANGED vars
    BY <1>5, <2>2 DEF ResultsLoaded, vars, pageVars
  <2> QED BY <1>10, <2>1, <2>2
<1> QED
  BY <1>1, <1>2, <1>3, <1>6, <1>7, <1>8, <1>9, <1>10, <1>11 DEF Next

(* While the Run button is disabled, something is under way that enables   *)
(* it again: the start of the last run, or the polling of its status;      *)
(* unless the handling of outcomes may throw.                              *)
THEOREM ButtonComesBack == Spec => []ButtonNotStuck
<1>1. ButtonInv => ButtonNotStuck
  BY DEF ButtonInv
<1> QED BY <1>1, ButtonInit, ButtonStep, PTL DEF Spec

-----------------------------------------------------------------------------
(* A patient user: what is outstanding is about the last run.              *)
Outstanding(r) == \E k \in Kinds : asked[<<k, r>>] > 0
Patience ==
  /\ \A r \in Runs : InFlight(r) => r = lastRun /\ running
  /\ running => post[lastRun] # "none" /\ selectedScenario = scenarioOf[lastRun]
  /\ \A r \in Runs : Outstanding(r) =>
       /\ r = lastRun /\ ~InFlight(lastRun)
       /\ selectedScenario = scenarioOf[lastRun]
       /\ \A a \in charts : a[2] = lastRun
  /\ loading => ~running /\ \A r \in Runs : ~Outstanding(r)
  /\ storage # NoStorage => storage.run <= lastRun

PatientInv == TypeOK /\ InOrder /\ (patient => Patience) /\ OnePoller /\ OneTestShown

(* The part of it that is kept by each step.                               *)
PatientKept == Patience /\ OnePoller /\ OneTestShown

LEMMA NoneOutstanding ==
  ASSUME \A i \in Intervals : asked[i] = 0
  PROVE  \A r \in Runs : ~Outstanding(r)
<1> SUFFICES ASSUME NEW r \in Runs, NEW k \in Kinds, asked[<<k, r>>] > 0 PROVE FALSE
  BY DEF Outstanding
<1>1. <<k, r>> \in Intervals
  BY DEF Intervals
<1>2. asked[<<k, r>>] = 0
  BY <1>1
<1> QED BY <1>2

LEMMA AnsweredFacts ==
  ASSUME TypeOK, NEW i \in Intervals, Answered(i)
  PROVE  \A r \in Runs : Outstanding(r)' => Outstanding(r)
<1>1. \A j \in Intervals : asked[j] \in Nat
  BY DashboardAssumption DEF TypeOK
<1>2. \A j \in Intervals : asked'[j] > 0 => asked[j] > 0
  BY <1>1 DEF Answered, TypeOK
<1> QED BY <1>2 DEF Outstanding, Intervals

(* Stopping leaves a patient user without intervals.                       *)
LEMMA NoIntervals ==
  ASSUME PatientInv, patient, StopPolling
  PROVE  intervals' = {}
BY DEF PatientInv, OnePoller, StopPolling, Cleared

LEMMA PatientInit == Init => PatientInv
<1> SUFFICES ASSUME Init PROVE PatientInv
  OBVIOUS
<1>1. TypeOK /\ InOrder
  BY TypeInit, OutcomeInit DEF OutcomeInv
<1>2. \A r \in Runs : ~Outstanding(r)
  BY NoneOutstanding DEF Init
<1>3. Patience /\ OnePoller /\ OneTestShown
  BY <1>2 DEF Init, Patience, OnePoller, OneTestShown, NoStorage, InFlight
<1> QED BY <1>1, <1>3 DEF PatientInv

LEMMA PatientStep == PatientInv /\ [Next]_vars => PatientInv'
<1> SUFFICES ASSUME PatientInv, [Next]_vars PROVE PatientInv'
  OBVIOUS
<1>0. TypeOK' /\ InOrder'
  BY TypeStep, InOrderStep DEF PatientInv
<1>p. patient' = patient /\ throws' = throws
  BY DEF Next, vars, StartDemo, Stop, SelectScenario, ResultsLoaded, PostHandled, Started, StartFailed,
         LiveData, Completed, CompletionThrows, ExecutionEnds, Poll, NoNews
<1> SUFFICES ASSUME patient, patient' PROVE PatientKept'
  BY <1>0, <1>p DEF PatientInv, PatientKept, OnePoller, OneTestShown
<1>t. /\ post \in [Runs -> {"none", "sent", "accepted", "refused", "answered"}]
      /\ scenarioOf \in [Runs -> Scenarios]
      /\ lastRun \in 0..MaxRuns /\ MaxRuns \in Nat
      /\ running => lastRun \in Runs
      /\ \A r \in Runs : r > lastRun => post[r] = "none"
      /\ storage # NoStorage => storage.run \in Runs
      /\ Runs = 1..MaxRuns
  BY DashboardAssumption DEF PatientInv, TypeOK, InOrder, Entries, Runs
<1>q. Patience /\ OnePoller /\ OneTestShown
  BY DEF PatientInv
<1>i. \A r \in Runs, k \in Kinds : <<k, r>> \in Intervals
  BY DEF Intervals
<1>1. CASE StartDemo
  <2>1. /\ ~running /\ ~loading /\ lastRun + 1 \in Runs
        /\ \A i \in Intervals : asked[i] = 0
        /\ \A r \in Runs : ~InFlight(r)
    BY <1>1, <1>t DEF StartDemo, Quiet
  <2>2. /\ running' /\ lastRun' = lastRun + 1 /\ charts' = {}
        /\ post' = [post EXCEPT ![lastRun + 1] = "sent"]
        /\ scenarioOf' = [scenarioOf EXCEPT ![lastRun + 1] = selectedScenario]
        /\ UNCHANGED <<intervals, selectedScenario, asked, loading, storage>>
    BY <1>1 DEF StartDemo, ChartsAtStart
  <2>3. /\ post'[lastRun + 1] = "sent" /\ scenarioOf'[lastRun + 1] = selectedScenario
        /\ \A r \in Runs : r # lastRun + 1 => post'[r] = post[r] /\ scenarioOf'[r] = scenarioOf[r]
    BY <1>t, <2>1, <2>2
  <2>4. \A r \in Runs : ~Outstanding(r)'
    BY <2>1, <2>2, NoneOutstanding DEF Outstanding
  <2>5. storage # NoStorage => storage.run # lastRun + 1 /\ storage.run <= lastRun + 1
    BY <1>q, <1>t DEF Patience
  <2>6. Patience'
    BY <1>q, <1>t, <2>1, <2>2, <2>3, <2>4, <2>5 DEF Patience, InFlight
  <2>7. OnePoller'
    BY <1>q, <2>1, <2>2, <2>3 DEF OnePoller
  <2>8. OneTestShown'
    BY <1>q, <1>t, <2>2, <2>3, <2>5 DEF OneTestShown
  <2> QED BY <2>6, <2>7, <2>8 DEF PatientKept
<1>2. CASE Stop
  <2>1. /\ \A r \in Runs : ~InFlight(r)
        /\ UNCHANGED <<selectedScenario, lastRun, scenarioOf, post, asked, loading, charts, storage>>
    BY <1>2 DEF Stop
  <2>2. intervals' = {} /\ ~running'
    BY <1>2, NoIntervals DEF Stop, StopDemo
  <2> QED
    BY <1>q, <2>1, <2>2 DEF PatientKept, Patience, InFlight, Outstanding, OnePoller, OneTestShown
<1>3. ASSUME NEW s \in Scenarios, SelectScenario(s) PROVE PatientKept'
  <2>1. /\ ~running /\ loading'
        /\ \A i \in Intervals : asked[i] = 0
        /\ \A r \in Runs : ~InFlight(r)
        /\ UNCHANGED <<running, intervals, pollTimer, livePollTimer, lastRun, scenarioOf, post, asked, charts, storage>>
    BY <1>3 DEF SelectScenario, Quiet, CardsActive, pageVars
  <2>2. \A r \in Runs : ~Outstanding(r)'
    BY <2>1, NoneOutstanding DEF Outstanding
  <2> QED
    BY <1>p, <1>q, <2>1, <2>2 DEF PatientKept, Patience, InFlight, OnePoller, OneTestShown
<1>4. CASE ResultsLoaded
  <2>1. /\ loading /\ ~loading' /\ charts' = {<<"stored", NoRun>>}
        /\ UNCHANGED <<running, intervals, pollTimer, livePollTimer, selectedScenario, lastRun, scenarioOf, post, asked, storage>>
    BY <1>4 DEF ResultsLoaded, pageVars
  <2>2. ~running /\ \A r \in Runs : ~Outstanding(r)'
    BY <1>q, <2>1 DEF Patience, Outstanding
  <2> QED
    BY <1>p, <1>q, <2>1, <2>2 DEF PatientKept, Patience, InFlight, OnePoller, OneTestShown
<1>5. ASSUME NEW r \in Runs, PostHandled(r) PROVE PatientKept'
  <2>1. /\ InFlight(r) /\ InFlight(r)' /\ post'[r] # "answered" /\ post'[r] # "none"
        /\ \A x \in Runs : x # r => post'[x] = post[x]
        /\ UNCHANGED <<running, intervals, pollTimer, livePollTimer, selectedScenario, lastRun, scenarioOf, asked,
                        loading, charts, storage>>
    BY <1>5, <1>t DEF PostHandled, pageVars, InFlight
  <2>2. \A x \in Runs : InFlight(x)' <=> InFlight(x)
    BY <2>1 DEF InFlight
  <2>3. r = lastRun /\ post[r] # "answered"
    BY <1>q, <2>1 DEF Patience, InFlight
  <2> QED
    BY <1>q, <2>1, <2>2, <2>3 DEF PatientKept, Patience, Outstanding, OnePoller, OneTestShown
<1>6. ASSUME NEW r \in Runs, Started(r) \/ StartFailed(r) PROVE PatientKept'
  <2>1. /\ InFlight(r) /\ post' = [post EXCEPT ![r] = "answered"]
        /\ UNCHANGED <<selectedScenario, lastRun, scenarioOf, asked, loading, charts>>
    BY <1>6 DEF Started, StartFailed, InFlight
  <2>2. r = lastRun /\ running /\ post[lastRun] # "answered"
    BY <1>q, <2>1 DEF Patience, InFlight
  <2>3. intervals = {} /\ ~loading /\ \A x \in Runs : ~Outstanding(x)'
    BY <1>q, <2>1, <2>2 DEF Patience, OnePoller, Outstanding
  <2>4. post'[r] = "answered" /\ \A x \in Runs : ~InFlight(x)'
    BY <1>q, <1>t, <2>1, <2>2 DEF Patience, InFlight
  <2>5. CASE Started(r)
    <3>1. /\ running' = running
          /\ storage' = [run |-> r, scenario |-> selectedScenario, status |-> "RUNNING"]
          /\ intervals' = {<<"live", r>>, <<"status", r>>} /\ pollTimer' = r /\ livePollTimer' = r
      BY <2>3, <2>5 DEF Started
    <3>2. storage'.run = r /\ storage'.scenario = selectedScenario
      BY <3>1
    <3> QED
      BY <1>q, <1>t, <2>1, <2>2, <2>3, <2>4, <3>1, <3>2
      DEF PatientKept, Patience, OnePoller, OneTestShown
  <2>6. CASE StartFailed(r)
    <3>1. intervals' = {} /\ ~running' /\ storage' = storage
      BY <2>6, NoIntervals DEF StartFailed, GiveUp, StopDemo
    <3> QED
      BY <1>q, <2>1, <2>3, <2>4, <3>1 DEF PatientKept, Patience, OnePoller, OneTestShown
  <2> QED BY <1>6, <2>5, <2>6
<1>7. ASSUME NEW r \in Runs, LiveData(r) PROVE PatientKept'
  <2>1. /\ Outstanding(r) /\ charts' = charts \cup {<<"live", r>>}
        /\ \A x \in Runs : Outstanding(x)' => Outstanding(x)
        /\ UNCHANGED <<running, intervals, pollTimer, livePollTimer, selectedScenario, lastRun, scenarioOf, post,
                        loading, storage>>
    BY <1>7, <1>i, AnsweredFacts
    DEF LiveData, pageVars, PatientInv, Answered, Outstanding, Kinds
  <2>2. r = lastRun /\ \A a \in charts' : a[2] = lastRun
    BY <1>q, <2>1 DEF Patience
  <2> QED
    BY <1>p, <1>q, <2>1, <2>2 DEF PatientKept, Patience, InFlight, OnePoller, OneTestShown
<1>8. ASSUME NEW r \in Runs, Completed(r) \/ CompletionThrows(r) PROVE PatientKept'
  <2>1. /\ Outstanding(r) /\ charts' \in {charts, {<<"final", r>>}}
        /\ \A x \in Runs : Outstanding(x)' => Outstanding(x)
        /\ storage' = storage \/ storage' = Saved(r)
        /\ UNCHANGED <<selectedScenario, lastRun, scenarioOf, post, loading>>
    BY <1>8, <1>i, AnsweredFacts
    DEF Completed, CompletionThrows, Results, PatientInv, Answered, Outstanding, Kinds
  <2>2. r = lastRun /\ ~InFlight(lastRun) /\ selectedScenario = scenarioOf[lastRun]
    BY <1>q, <2>1 DEF Patience
  <2>3. \A a \in charts' : a[2] = lastRun
    BY <1>q, <2>1, <2>2 DEF Patience
  <2>4. intervals' = {} /\ (running' => running /\ throws)
    BY <1>8, NoIntervals DEF Completed, CompletionThrows, StopDemo
  <2>5. storage' = storage \/ (storage'.run = lastRun /\ storage'.scenario = scenarioOf[lastRun])
    BY <2>1, <2>2 DEF Saved
  <2>6. \A x \in Runs : ~InFlight(x)'
    BY <1>q, <2>1, <2>2 DEF Patience, InFlight
  <2>7. Patience'
    BY <1>q, <1>t, <2>1, <2>2, <2>3, <2>4, <2>5, <2>6 DEF Patience
  <2>8. OnePoller'
    BY <1>p, <2>4 DEF OnePoller
  <2>9. OneTestShown'
    BY <1>q, <1>t, <2>1, <2>2, <2>3, <2>5 DEF OneTestShown
  <2> QED BY <2>7, <2>8, <2>9 DEF PatientKept
<1>9. ASSUME NEW i \in Intervals, Poll(i) PROVE PatientKept'
  <2>1. /\ i \in intervals /\ asked' = [asked EXCEPT ![i] = @ + 1]
        /\ UNCHANGED <<running, intervals, pollTimer, livePollTimer, selectedScenario, lastRun, scenarioOf, post,
                        loading, charts, storage>>
    BY <1>9 DEF Poll, pageVars
  <2>2. running /\ post[lastRun] = "answered" /\ i \in {<<"live", lastRun>>, <<"status", lastRun>>}
    BY <1>q, <2>1 DEF OnePoller
  <2>3. \A j \in Intervals : j # i => asked'[j] = asked[j]
    BY <2>1 DEF PatientInv, TypeOK
  <2>4. \A x \in Runs : Outstanding(x)' => Outstanding(x) \/ x = lastRun
    BY <1>i, <2>2, <2>3 DEF Outstanding
  <2>5. ~InFlight(lastRun) /\ ~loading /\ \A a \in charts : a[2] = lastRun
    BY <1>q, <2>2 DEF InFlight, Patience, OneTestShown
  <2> QED
    BY <1>q, <2>1, <2>2, <2>4, <2>5 DEF PatientKept, Patience, InFlight, OnePoller, OneTestShown
<1>10. ASSUME NEW i \in Intervals, NoNews(i) PROVE PatientKept'
  <2>1. /\ \A x \in Runs : Outstanding(x)' => Outstanding(x)
        /\ UNCHANGED <<running, intervals, pollTimer, livePollTimer, selectedScenario, lastRun, scenarioOf, post,
                        loading, charts, storage>>
    BY <1>10, AnsweredFacts DEF NoNews, pageVars, PatientInv
  <2> QED
    BY <1>p, <1>q, <2>1 DEF PatientKept, Patience, InFlight, OnePoller, OneTestShown
<1>11. ASSUME UNCHANGED <<pageVars, selectedScenario, lastRun, scenarioOf, post, asked, loading, charts, storage>>
       PROVE  PatientKept'
  BY <1>p, <1>q, <1>11 DEF pageVars, PatientKept, Patience, InFlight, Outstanding, OnePoller, OneTestShown
<1> QED
  BY <1>1, <1>2, <1>3, <1>4, <1>5, <1>6, <1>7, <1>8, <1>9, <1>10, <1>11
  DEF Next, vars, ExecutionEnds

LEMMA PatientInvariant == Spec => []PatientInv
BY PatientInit, PatientStep, PTL DEF Spec

(* A patient user has the intervals of the running test and no others.     *)
THEOREM PatientPollsOnce == Spec => []OnePoller
<1>1. PatientInv => OnePoller BY DEF PatientInv
<1> QED BY <1>1, PatientInvariant, PTL

(* The charts of a patient user show one test.                             *)
THEOREM PatientSeesOneTest == Spec => []OneTestShown
<1>1. PatientInv => OneTestShown BY DEF PatientInv
<1> QED BY <1>1, PatientInvariant, PTL

(* For a patient user a started test is given up only for Stop or because  *)
(* it has ended.                                                           *)
THEOREM PatientIsServed == Spec => PatientPolls
<1>1. PatientInv /\ [Next]_vars => [patient => ~GivesUp]_vars
  <2> SUFFICES ASSUME PatientInv, Next, patient, GivesUp PROVE FALSE
    BY DEF GivesUp
  <2>1. running /\ post[lastRun] = "answered" /\ ~running'
    BY DEF GivesUp
  <2>2. ASSUME NEW r \in Runs, StartFailed(r) PROVE FALSE
    BY <2>1, <2>2 DEF StartFailed, PatientInv, Patience, InFlight
  <2>3. ASSUME NEW r \in Runs, Completed(r) PROVE FALSE
    <3>1. <<"status", r>> \in Intervals /\ Outstanding(r)
      BY <2>3 DEF Completed, Answered, Outstanding, Kinds, Intervals
    <3>2. r = lastRun
      BY <3>1 DEF PatientInv, Patience
    <3> QED BY <2>3, <3>2 DEF GivesUp, Completed, Ended
  <2>4. ~Stop
    BY DEF GivesUp
  <2> QED
    BY <2>1, <2>2, <2>3, <2>4
    DEF Next, pageVars, StartDemo, SelectScenario, ResultsLoaded, PostHandled, Started, LiveData,
        CompletionThrows, ExecutionEnds, Poll, NoNews
<1> QED BY <1>1, PatientInvariant, PTL DEF Spec, PatientPolls
=============================================================================
