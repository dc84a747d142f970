----------------------------- MODULE Dashboard -----------------------------
(***************************************************************************)
(* The dashboard page (website/app.js): the Run and Stop buttons, the      *)
(* scenario cards, the two polling intervals of a run, and the charts.     *)
(*                                                                         *)
(* JavaScript runs one callback at a time, so an action is the code from   *)
(* one await to the next.  The globals running, pollTimer, livePollTimer   *)
(* and selectedScenario are shared by all callbacks; the execution name of *)
(* a poll is a closure of its own.  A run is one call of startDemo; the    *)
(* elapsed-time display and the texts of the log are left out.  External:  *)
(* the API, the test executions and the network.  Fetches of stored results *)
(* that overlap are taken for one.                                         *)
(***************************************************************************)
EXTENDS Naturals, FiniteSets

CONSTANTS
  MaxRuns,     \* bound: how often Run is pressed
  MaxInFlight, \* bound: outstanding requests of one interval, for an
               \* impatient and for a patient user
  Scenarios,   \* the scenario cards
  Boot         \* the scenario loaded with the page, gradual_ramp

ASSUME DashboardAssumption ==
  /\ MaxRuns \in Nat
  /\ MaxInFlight \in [BOOLEAN -> Nat]
  /\ Boot \in Scenarios

VARIABLES
  patient,          \* whether the user presses Run or a card only when nothing
                    \* is outstanding, and Stop only when the test was started
  throws,           \* whether saving or showing an outcome may throw: a full
                    \* localStorage, a malformed report
  running,          \* whether a test is running, as the page sees it
  pollTimer,        \* the run whose status interval the global refers to
  livePollTimer,    \* the run whose live interval the global refers to
  selectedScenario,
  lastRun,          \* how many runs there have been
  scenarioOf,       \* the scenario each run has asked for
  post,             \* the request that starts each run
  execution,        \* the status of each run's execution
  intervals,        \* the intervals that fire
  asked,            \* how many requests of each interval are outstanding
  loading,          \* whether stored results are being fetched
  charts,           \* whose points are in the charts
  storage           \* ecoffsite_execution in localStorage

pageVars == <<running, pollTimer, livePollTimer, intervals>>
vars == <<patient, throws, pageVars, selectedScenario, lastRun, scenarioOf, post, execution,
          asked, loading, charts, storage>>

Runs == 1..MaxRuns
NoRun == 0
Kinds == {"live", "status"}
Intervals == Kinds \X Runs
Outcomes == {"SUCCEEDED", "FAILED"}
NoStorage == [run |-> NoRun]
Entries == [run : Runs, scenario : Scenarios, status : {"RUNNING"} \cup Outcomes]
Sources == {<<"stored", NoRun>>} \cup ({"live", "final"} \X Runs)

InFlight(r) == post[r] \in {"sent", "accepted", "refused"}
Quiet ==
  /\ ~loading
  /\ \A i \in Intervals : asked[i] = 0
  /\ \A r \in Runs : ~InFlight(r)

Init ==
  /\ patient \in BOOLEAN
  /\ throws \in BOOLEAN
  /\ running = FALSE
  /\ pollTimer = NoRun /\ livePollTimer = NoRun
  /\ selectedScenario = Boot
  /\ lastRun = 0
  /\ scenarioOf = [r \in Runs |-> Boot]
  /\ post = [r \in Runs |-> "none"]
  /\ execution = [r \in Runs |-> "none"]
  /\ intervals = {}
  /\ asked = [i \in Intervals |-> 0]
  /\ loading = TRUE
  /\ charts = {}
  /\ storage = NoStorage

CardsActive == ~running

(* A click on a card: its stored results are fetched.                      *)
SelectScenario(s) ==
  /\ CardsActive
  /\ patient => Quiet
  /\ selectedScenario' = s
  /\ loading' = TRUE
  /\ UNCHANGED <<patient, throws, pageVars, lastRun, scenarioOf, post, execution, asked, charts, storage>>

(* They arrive, or simulated data takes their place.                       *)
ResultsLoaded ==
  /\ loading
  /\ loading' = FALSE
  /\ charts' = {<<"stored", NoRun>>}
  /\ UNCHANGED <<patient, throws, pageVars, selectedScenario, lastRun, scenarioOf, post,
                 execution, asked, storage>>

(* Mutant: the charts are not cleared for a new test.                      *)
ChartsKept == charts

ChartsAtStart == {}

(* Run is pressed.                                                         *)
StartDemo ==
  /\ ~running
  /\ lastRun < MaxRuns
  /\ patient => Quiet
  /\ running' = TRUE
  /\ lastRun' = lastRun + 1
  /\ charts' = ChartsAtStart
  /\ post' = [post EXCEPT ![lastRun + 1] = "sent"]
  /\ scenarioOf' = [scenarioOf EXCEPT ![lastRun + 1] = selectedScenario]
  /\ UNCHANGED <<patient, throws, pollTimer, livePollTimer, intervals, selectedScenario,
                 execution, asked, loading, storage>>

(* The API starts the execution, or does not.                              *)
PostHandled(r) ==
  /\ post[r] = "sent"
  /\ \/ post' = [post EXCEPT ![r] = "accepted"]
        /\ execution' = [execution EXCEPT ![r] = "RUNNING"]
     \/ post' = [post EXCEPT ![r] = "refused"] /\ UNCHANGED execution
  /\ UNCHANGED <<patient, throws, pageVars, selectedScenario, lastRun, scenarioOf, asked,
                 loading, charts, storage>>

(* The answer arrives: the run is saved for the console page and both      *)
(* intervals are set, whatever has happened on the page since.             *)
Started(r) ==
  /\ post[r] = "accepted"
  /\ post' = [post EXCEPT ![r] = "answered"]
  /\ storage' = [run |-> r, scenario |-> selectedScenario, status |-> "RUNNING"]
  /\ intervals' = intervals \cup {<<"live", r>>, <<"status", r>>}
  /\ pollTimer' = r /\ livePollTimer' = r
  /\ UNCHANGED <<patient, throws, running, selectedScenario, lastRun, scenarioOf, execution,
                 asked, loading, charts>>

(* Mutant: stopDemo leaves the live interval on.                           *)
ClearedStatusOnly == {<<"status", pollTimer>>}

Cleared == {<<"status", pollTimer>>, <<"live", livePollTimer>>}

StopPolling ==
  /\ intervals' = intervals \ Cleared
  /\ pollTimer' = NoRun /\ livePollTimer' = NoRun

StopDemo == running' = FALSE /\ StopPolling

(* Mutant: an API error is logged without stopDemo.                        *)
LogError == UNCHANGED pageVars

(* What the page does about an API error, or a fetch that threw.           *)
GiveUp == StopDemo

(* The API refused the run, or its answer was lost.                        *)
StartFailed(r) ==
  /\ post[r] \in {"accepted", "refused"}
  /\ post' = [post EXCEPT ![r] = "answered"]
  /\ GiveUp
  /\ UNCHANGED <<patient, throws, selectedScenario, lastRun, scenarioOf, execution, asked,
                 loading, charts, storage>>

(* Stop is pressed; the execution goes on.                                 *)
Stop ==
  /\ running
  /\ patient => \A r \in Runs : ~InFlight(r)
  /\ StopDemo
  /\ UNCHANGED <<patient, throws, selectedScenario, lastRun, scenarioOf, post, execution,
                 asked, loading, charts, storage>>

(* An interval fires.                                                      *)
Poll(i) ==
  /\ i \in intervals
  /\ asked[i] < MaxInFlight[patient]
  /\ asked' = [asked EXCEPT ![i] = @ + 1]
  /\ UNCHANGED <<patient, throws, pageVars, selectedScenario, lastRun, scenarioOf, post,
                 execution, loading, charts, storage>>

Answered(i) == asked[i] > 0 /\ asked' = [asked EXCEPT ![i] = @ - 1]

(* The answer has nothing to show: the request failed, no worker reports,  *)
(* or the execution was running when the API looked.                       *)
NoNews(i) ==
  /\ Answered(i)
  /\ UNCHANGED <<patient, throws, pageVars, selectedScenario, lastRun, scenarioOf, post,
                 execution, loading, charts, storage>>

LiveData(r) ==
  /\ Answered(<<"live", r>>)
  /\ execution[r] # "none"
  /\ charts' = charts \cup {<<"live", r>>}
  /\ UNCHANGED <<patient, throws, pageVars, selectedScenario, lastRun, scenarioOf, post,
                 execution, loading, storage>>

(* Mutant: any end of the execution counts as success.                     *)
SeenAsSuccess(r) == "SUCCEEDED"

Seen(r) == execution[r]

(* Mutant: only success ends the polling.                                  *)
EndedWell(r) == execution[r] = "SUCCEEDED"

(* Mutant: any status in the answer ends the polling.                      *)
AnyStatus(r) == execution[r] # "none"

Ended(r) == execution[r] \in Outcomes

Saved(r) == [run |-> r, scenario |-> selectedScenario, status |-> Seen(r)]
Results(r) == IF Seen(r) = "SUCCEEDED" THEN {charts, {<<"final", r>>}} ELSE {charts}

(* The execution has ended: the page stops polling, saves the outcome and  *)
(* shows the results, if there are any.                                    *)
Completed(r) ==
  /\ Answered(<<"status", r>>)
  /\ Ended(r)
  /\ StopDemo
  /\ storage' = Saved(r)
  /\ charts' \in Results(r)
  /\ UNCHANGED <<patient, throws, selectedScenario, lastRun, scenarioOf, post, execution, loading>>

(* Saving or showing it throws, after the intervals have been cleared: the *)
(* callback logs a poll error, and does not get to stopDemo.               *)
CompletionThrows(r) ==
  /\ throws
  /\ Answered(<<"status", r>>)
  /\ Ended(r)
  /\ StopPolling
  /\ \/ UNCHANGED <<storage, charts>>
     \/ storage' = Saved(r) /\ charts' \in Results(r)
  /\ UNCHANGED <<patient, throws, running, selectedScenario, lastRun, scenarioOf, post,
                 execution, loading>>

ExecutionEnds(r) ==
  /\ execution[r] = "RUNNING"
  /\ \E o \in Outcomes : execution' = [execution EXCEPT ![r] = o]
  /\ UNCHANGED <<patient, throws, pageVars, selectedScenario, lastRun, scenarioOf, post, asked,
                 loading, charts, storage>>

Next ==
  \/ StartDemo
  \/ Stop
  \/ \E s \in Scenarios : SelectScenario(s)
  \/ ResultsLoaded
  \/ \E r \in Runs :
       \/ PostHandled(r) \/ Started(r) \/ StartFailed(r)
       \/ LiveData(r) \/ Completed(r) \/ CompletionThrows(r) \/ ExecutionEnds(r)
  \/ \E i \in Intervals : Poll(i) \/ NoNews(i)

(* Requests are answered, intervals fire, executions end, and the end of   *)
(* one is seen if it is asked for again and again.                         *)
Fairness ==
  \A r \in Runs :
    /\ WF_vars(PostHandled(r)) /\ WF_vars(Started(r) \/ StartFailed(r))
    /\ WF_vars(ExecutionEnds(r))
    /\ WF_vars(Poll(<<"status", r>>)) /\ SF_vars(Completed(r))

Spec == Init /\ [][Next]_vars
FairSpec == Spec /\ Fairness

-----------------------------------------------------------------------------
(* The variables have their types, and the globals refer to intervals that *)
(* fire.                                                                   *)
TypeOK ==
  /\ patient \in BOOLEAN
  /\ throws \in BOOLEAN
  /\ running \in BOOLEAN
  /\ {pollTimer, livePollTimer} \subseteq Runs \cup {NoRun}
  /\ selectedScenario \in Scenarios
  /\ lastRun \in 0..MaxRuns
  /\ scenarioOf \in [Runs -> Scenarios]
  /\ post \in [Runs -> {"none", "sent", "accepted", "refused", "answered"}]
  /\ execution \in [Runs -> {"none", "RUNNING"} \cup Outcomes]
  /\ intervals \subseteq Intervals
  /\ asked \in [Intervals -> 0..MaxInFlight[patient]]
  /\ loading \in BOOLEAN
  /\ charts \subseteq Sources
  /\ storage \in Entries \cup {NoStorage}
  /\ pollTimer # NoRun => <<"status", pollTimer>> \in intervals
  /\ livePollTimer # NoRun => <<"live", livePollTimer>> \in intervals

(* What the page hands to the console page, and shows as results, is the   *)
(* outcome of that execution, however late the answers are.                *)
OutcomesAreTrue ==
  /\ storage # NoStorage /\ storage.status \in Outcomes =>
       execution[storage.run] = storage.status
  /\ \A r \in Runs : <<"final", r>> \in charts => execution[r] = "SUCCEEDED"

(* The Run button is never disabled for good: while it is, the last run is *)
(* still being started or its status is being polled.  Only an exception   *)
(* in the handling of an outcome can leave the button to the user's Stop.  *)
ButtonNotStuck ==
  running => InFlight(lastRun) \/ <<"status", lastRun>> \in intervals \/ throws

(* What the proofs rest on: a run that is not yet started has no request,  *)
(* and one whose request the API has not handled has no execution.         *)
InOrder ==
  /\ running => lastRun \in Runs
  /\ \A r \in Runs :
       /\ r > lastRun => post[r] = "none"
       /\ post[r] \in {"none", "sent"} => execution[r] = "none"

(* The page leaves the running state.                                      *)
RunningEnds == running ~> ~running \/ throws

(* For a patient user the only intervals are those of the test that runs,  *)
(* and the globals refer to them, unless an exception has ended the        *)
(* polling: then there are none.                                           *)
OnePoller ==
  patient =>
    LET polling == running /\ post[lastRun] = "answered"
    IN  \/ /\ polling
           /\ intervals = {<<"live", lastRun>>, <<"status", lastRun>>}
           /\ pollTimer = lastRun /\ livePollTimer = lastRun
        \/ intervals = {} /\ (polling => throws)

(* For a patient user the charts show one test, the running one if there   *)
(* is one, and the console page is told the scenario that it is a test of. *)
OneTestShown ==
  patient =>
    /\ \A a, b \in charts : a[2] = b[2]
    /\ running => \A a \in charts : a[2] = lastRun
    /\ storage # NoStorage => storage.scenario = scenarioOf[storage.run]

(* A test that was started is given up only for Stop or because its        *)
(* execution has ended: what PollsForCompletion says of every user holds   *)
(* for a patient one.                                                      *)
GivesUp ==
  running /\ post[lastRun] = "answered" /\ ~running'
    /\ execution[lastRun] \notin Outcomes /\ ~Stop
PatientPolls == [][patient => ~GivesUp]_vars

(* "The dashboard calls the API to start a Step Functions execution, polls *)
(* for completion, and renders real results": the same for every user.     *)
PollsForCompletion == [][~GivesUp]_vars
=============================================================================
