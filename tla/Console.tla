------------------------------ MODULE Console ------------------------------
(***************************************************************************)
(* The live console page (website/console.html): which execution it        *)
(* tracks, its two polling intervals, and the trace it shows.              *)
(*                                                                         *)
(* An action is the code from one await to the next.  Both intervals call  *)
(* a function that reads the global currentExecutionName when it asks, and *)
(* the globals as they are when the answer arrives.  They are set and      *)
(* cleared together, so one counter stands for the intervals of either     *)
(* kind.  A request outstanding is a slot; an answer carries the trace as  *)
(* it was at some moment since the request.  The elapsed-time display and  *)
(* the metrics of the sidebar are left out.  External: the API, the        *)
(* executions, the workers that append to the trace, and the dashboard     *)
(* page, whose entries in localStorage make this page track an execution.  *)
(***************************************************************************)
EXTENDS Naturals, Sequences

CONSTANTS
  Executions,
  NoExecution,
  MaxTrace,     \* bound: entries of a trace
  Slots,        \* bound: outstanding requests of either kind
  MaxTracked    \* bound: how often an execution starts to be tracked

ASSUME ConsoleAssumption ==
  /\ NoExecution \notin Executions
  /\ MaxTrace \in Nat /\ MaxTracked \in Nat

VARIABLES
  oneByOne, \* whether an execution only comes up when no other is tracked and
            \* no request is outstanding
  isPolling,
  currentExecutionName,
  lastTraceCount,
  timers,    \* how many live intervals fire, and as many status intervals
  shown,     \* the trace in the terminal: executions and indices
  infoStatus, \* what the sidebar says of the execution
  loading,   \* whether the page still waits for /api/current
  live,      \* of each slot, the live request: its execution and what the
             \* trace held when it was sent
  status,    \* of each slot, the execution of the status request
  trace,     \* the length of each execution's trace in the cache
  execution, \* the status of each execution
  tracked    \* how often startTracking has gone through

pageVars == <<isPolling, currentExecutionName, lastTraceCount, timers, shown, infoStatus>>
worldVars == <<trace, execution>>
consoleVars == <<oneByOne, pageVars, loading, live, status, worldVars, tracked>>

NoRequest == [execution |-> NoExecution, since |-> 0]

ConsoleInit ==
  /\ oneByOne \in BOOLEAN
  /\ isPolling = FALSE
  /\ currentExecutionName = NoExecution
  /\ lastTraceCount = 0
  /\ timers = 0
  /\ shown = <<>>
  /\ infoStatus = "Idle"
  /\ loading = TRUE
  /\ live = [s \in Slots |-> NoRequest]
  /\ status = [s \in Slots |-> NoExecution]
  /\ trace = [e \in Executions |-> 0]
  /\ execution = [e \in Executions |-> "RUNNING"]
  /\ tracked = 0

Free(s) == live[s] = NoRequest /\ status[s] = NoExecution
Quiet == ~isPolling /\ \A s \in Slots : Free(s)

(* Mutant: the page forgets to start its trace from the beginning.         *)
TraceCountKept == lastTraceCount

FirstTrace == 0

Tracks(e) == isPolling /\ currentExecutionName = e

AskLive(s, e) ==
  /\ Free(s)
  /\ live' = [live EXCEPT ![s] = [execution |-> e, since |-> trace[e]]]

(* startTracking: the terminal is cleared, the live data is asked for and  *)
(* both intervals are set; those of an execution tracked until now are not *)
(* cleared, and fire on.                                                   *)
StartTracking(e) ==
  IF Tracks(e)
    THEN UNCHANGED <<pageVars, live, tracked>>
    ELSE /\ tracked < MaxTracked
         /\ tracked' = tracked + 1
         /\ isPolling' = TRUE
         /\ currentExecutionName' = e
         /\ lastTraceCount' = FirstTrace
         /\ timers' = timers + 1
         /\ shown' = <<>>
         /\ infoStatus' = "Running"
         /\ \E s \in Slots : AskLive(s, e)

(* The page shows what localStorage said of a last execution when the page *)
(* was opened, if it said anything.                                        *)
ShowLast ==
  /\ infoStatus' \in {infoStatus, "Stored"}
  /\ UNCHANGED <<isPolling, currentExecutionName, lastTraceCount, timers,
                 shown, live, tracked>>

(* The page is loaded: it tracks what localStorage or /api/current says is *)
(* running, if there is such an execution.                                 *)
PageLoaded ==
  /\ loading
  /\ loading' = FALSE
  /\ (\E e \in Executions : StartTracking(e)) \/ ShowLast
  /\ UNCHANGED <<oneByOne, status, worldVars>>

(* The dashboard saves a run, and with it that the run is RUNNING.         *)
StorageEvent(e) ==
  /\ oneByOne => Quiet /\ ~loading /\ e # currentExecutionName
  /\ StartTracking(e)
  /\ UNCHANGED <<oneByOne, loading, status, worldVars>>

(* An interval fires.                                                      *)
PollLive(s) ==
  /\ timers > 0
  /\ AskLive(s, currentExecutionName)
  /\ UNCHANGED <<oneByOne, pageVars, loading, status, worldVars, tracked>>

PollStatus(s) ==
  /\ timers > 0
  /\ Free(s)
  /\ status' = [status EXCEPT ![s] = currentExecutionName]
  /\ UNCHANGED <<oneByOne, pageVars, loading, live, worldVars, tracked>>

(* The entries beyond lastTraceCount of a trace of n entries.              *)
NewEntries(s, n) == [i \in 1..(n - lastTraceCount) |->
                       <<live[s].execution, lastTraceCount + i>>]

(* The answer to a live request arrives with a trace of n entries.         *)
LiveAnswered(s) ==
  /\ live[s] # NoRequest
  /\ \E n \in live[s].since..trace[live[s].execution] :
       IF n > lastTraceCount
         THEN /\ shown' = shown \o NewEntries(s, n)
              /\ lastTraceCount' = n
         ELSE UNCHANGED <<shown, lastTraceCount>>
  /\ live' = [live EXCEPT ![s] = NoRequest]
  /\ UNCHANGED <<oneByOne, isPolling, currentExecutionName, timers, infoStatus,
                 loading, status, worldVars, tracked>>

(* Mutant: the intervals go on when the execution has ended.               *)
TimersKept == timers

(* clearInterval of the handles, which stopTracking has set to null when   *)
(* the page is not polling.                                                *)
TimersLeft == IF isPolling THEN timers - 1 ELSE timers

(* Mutant: only success ends the tracking.                                 *)
HasSucceeded(e) == execution[e] = "SUCCEEDED"

HasEnded(e) == execution[e] \in {"SUCCEEDED", "FAILED"}

(* Mutant: whatever ends the execution is shown as its completion.         *)
AlwaysCompleted(e) == "Completed"

Outcome(e) == IF execution[e] = "SUCCEEDED" THEN "Completed" ELSE "Failed"

(* The answer to a status request arrives: the execution has ended.        *)
StopTracking(s) ==
  /\ status[s] # NoExecution
  /\ HasEnded(status[s])
  /\ isPolling' = FALSE
  /\ timers' = TimersLeft
  /\ infoStatus' = Outcome(status[s])
  /\ status' = [status EXCEPT ![s] = NoExecution]
  /\ UNCHANGED <<oneByOne, currentExecutionName, lastTraceCount, shown, loading,
                 live, worldVars, tracked>>

(* A request fails, or finds the execution running.                        *)
NoNews(s) ==
  /\ ~Free(s)
  /\ live' = [live EXCEPT ![s] = NoRequest]
  /\ status' = [status EXCEPT ![s] = NoExecution]
  /\ UNCHANGED <<oneByOne, pageVars, loading, worldVars, tracked>>

(* The workers append to the trace, which outlives the execution.          *)
TraceGrows(e) ==
  /\ execution[e] = "RUNNING"
  /\ trace[e] < MaxTrace
  /\ trace' = [trace EXCEPT ![e] = @ + 1]
  /\ UNCHANGED <<oneByOne, pageVars, loading, live, status, execution, tracked>>

ExecutionEnds(e) ==
  /\ execution[e] = "RUNNING"
  /\ \E o \in {"SUCCEEDED", "FAILED"} : execution' = [execution EXCEPT ![e] = o]
  /\ UNCHANGED <<oneByOne, pageVars, loading, live, status, trace, tracked>>

ConsoleNext ==
  \/ PageLoaded
  \/ \E e \in Executions : StorageEvent(e) \/ TraceGrows(e) \/ ExecutionEnds(e)
  \/ \E s \in Slots :
       \/ PollLive(s) \/ PollStatus(s)
       \/ LiveAnswered(s) \/ StopTracking(s) \/ NoNews(s)

(* Executions end, intervals fire, and the end of an execution is seen if  *)
(* it is asked for again and again.                                        *)
Fairness ==
  /\ \A e \in Executions : WF_consoleVars(ExecutionEnds(e))
  /\ \A s \in Slots : WF_consoleVars(LiveAnswered(s) \/ StopTracking(s) \/ NoNews(s))
  /\ SF_consoleVars(\E s \in Slots : PollStatus(s))
  /\ SF_consoleVars(\E s \in Slots : StopTracking(s))

ConsoleSpec == ConsoleInit /\ [][ConsoleNext]_consoleVars
FairSpec == ConsoleSpec /\ Fairness

-----------------------------------------------------------------------------
(* The variables have their types, and the page polls exactly while one of *)
(* the intervals is its own.                                               *)
ConsoleTypeOK ==
  /\ oneByOne \in BOOLEAN
  /\ isPolling \in BOOLEAN
  /\ currentExecutionName \in Executions \cup {NoExecution}
  /\ lastTraceCount \in 0..MaxTrace
  /\ timers \in 0..MaxTracked
  /\ isPolling => timers > 0
  /\ shown \in Seq(Executions \X (1..MaxTrace))
  /\ infoStatus \in {"Idle", "Stored", "Running", "Completed", "Failed"}
  /\ loading \in BOOLEAN
  /\ live \in [Slots -> [execution : Executions \cup {NoExecution}, since : 0..MaxTrace]]
  /\ status \in [Slots -> Executions \cup {NoExecution}]
  /\ trace \in [Executions -> 0..MaxTrace]
  /\ execution \in [Executions -> {"RUNNING", "SUCCEEDED", "FAILED"}]
  /\ tracked \in 0..MaxTracked

(* "Show new trace entries": the terminal shows the trace of the tracked   *)
(* execution from its first entry, every entry once and in order, although *)
(* answers overlap and overtake each other, if executions come up one by   *)
(* one.                                                                    *)
ShowsTrace == shown = [i \in 1..lastTraceCount |-> <<currentExecutionName, i>>]
TraceInOrder == oneByOne => ShowsTrace

(* While the page says that its execution runs there is one interval of    *)
(* each kind, and afterwards none.                                         *)
OneTimer == oneByOne => timers = IF isPolling THEN 1 ELSE 0

(* The sidebar says Running while the page polls, and then how the tracked *)
(* execution has ended.                                                    *)
StatusIsTrue ==
  oneByOne =>
    /\ isPolling <=> infoStatus = "Running"
    /\ infoStatus = "Completed" => execution[currentExecutionName] = "SUCCEEDED"
    /\ infoStatus = "Failed" => execution[currentExecutionName] = "FAILED"

(* What the page tracks is seen to end, whatever comes up in between.      *)
TrackingEnds == isPolling ~> ~isPolling
=============================================================================
