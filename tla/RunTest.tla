------------------------------ MODULE RunTest ------------------------------
(***************************************************************************)
(* The command line runner (run_test.sh) beside the executions: it starts  *)
(* one, polls its status until it has ended, saves its output for the      *)
(* dashboard, and looks for the copy in S3.  Tests are started by others   *)
(* as well.  The script runs under set -e: a call of the AWS command line  *)
(* that fails ends it, whatever the execution does.  The output goes to    *)
(* the result file through a pipe: the shell empties the file before       *)
(* json.tool, which reads all of its input first, has anything to write.   *)
(***************************************************************************)
EXTENDS StateMachine

CONSTANTS
  NoExecution,
  Earlier, \* the result file as the script finds it
  Partial  \* a result file that is empty, or breaks off

ASSUME RunTestAssumption ==
  /\ {NoExecution, Earlier, Partial} \cap Executions = {}
  /\ Earlier # Partial

VARIABLES
  script,  \* "idle", "polling", "fetching", "opening", "writing", "saved",
           \* "done" or "failed"
  started, \* EXECUTION_ARN
  file     \* RESULT_FILE: the execution whose output it holds, or what it is else

scriptVars == <<script, started, file>>
runVars == <<vars, scriptVars>>

RunInit ==
  /\ Init
  /\ script = "idle"
  /\ started = NoExecution
  /\ file = Earlier

(* aws stepfunctions start-execution; the answer may be lost.              *)
Launch(e) ==
  /\ script = "idle"
  /\ StartExecution(e)
  /\ \/ script' = "polling" /\ started' = e
     \/ script' = "failed" /\ UNCHANGED started
  /\ UNCHANGED file

(* Mutant: whatever ends the execution ends the loop.                      *)
BreaksOnAnyEnd == status[started] # "RUNNING"

BreaksOn == status[started] = "SUCCEEDED"

(* describe-execution finds that the execution has ended.                  *)
SeesSuccess ==
  /\ script = "polling"
  /\ BreaksOn
  /\ script' = "fetching"
  /\ UNCHANGED <<vars, started, file>>

SeesFailure ==
  /\ script = "polling"
  /\ status[started] \in {"FAILED", "TIMED_OUT"}
  /\ script' = "failed"
  /\ UNCHANGED <<vars, started, file>>

(* describe-execution yields the output.                                   *)
FetchOutput ==
  /\ script = "fetching"
  /\ script' = "opening"
  /\ UNCHANGED <<vars, started, file>>

(* The redirection opens the result file, which is empty from then on.     *)
Truncate ==
  /\ script = "opening"
  /\ file' = Partial
  /\ script' = "writing"
  /\ UNCHANGED <<vars, started>>

(* json.tool has formatted and written all of the output.                  *)
SaveOutput ==
  /\ script = "writing"
  /\ file' = started
  /\ script' = "saved"
  /\ UNCHANGED <<vars, started>>

(* The bucket's name is looked up, and shown.                              *)
ShowCopy ==
  /\ script = "saved"
  /\ script' = "done"
  /\ UNCHANGED <<vars, started, file>>

(* Any call fails, the first one before anything is started, or the script *)
(* is killed: what is in the file by then stays.                           *)
CallFails ==
  /\ script \notin {"done", "failed"}
  /\ script' = "failed"
  /\ UNCHANGED <<vars, started, file>>

ScriptStep ==
  \/ SeesSuccess \/ SeesFailure
  \/ FetchOutput \/ Truncate \/ SaveOutput \/ ShowCopy
  \/ CallFails

RunNext ==
  \/ Next /\ UNCHANGED scriptVars
  \/ \E e \in Executions : Launch(e)
  \/ ScriptStep

(* The script asks again every ten seconds, and calls return.              *)
RunFairness ==
  /\ WF_runVars(Tick /\ UNCHANGED scriptVars)
  /\ WF_runVars((\E l \in lambdas : Kill(l)) /\ UNCHANGED scriptVars)
  /\ \A e \in Executions : WF_runVars(TimeOut(e) /\ UNCHANGED scriptVars)
  /\ WF_runVars(SeesSuccess \/ SeesFailure)
  /\ WF_runVars(FetchOutput \/ Truncate \/ SaveOutput \/ ShowCopy)

RunSpec == RunInit /\ [][RunNext]_runVars
RunFairSpec == RunSpec /\ RunFairness

-----------------------------------------------------------------------------
ScriptTypeOK ==
  /\ script \in {"idle", "polling", "fetching", "opening", "writing", "saved", "done", "failed"}
  /\ started \in Executions \cup {NoExecution}
  /\ file \in Executions \cup {Earlier, Partial}

(* Wherever the script breaks off, the earlier result is given up only for *)
(* a test that has succeeded, whose workers have all delivered and whose   *)
(* report is in S3, so that what a file that breaks off lacks is there.    *)
(* Such a file stays behind only when the script fails: when it says Saved *)
(* or Done, the file is the output of the test that it has started.        *)
SavedIsComplete ==
  /\ file # Earlier =>
       status[started] = "SUCCEEDED" /\ started \in stored /\ WorkersDone(started) = Workers
  /\ file = Partial => script \in {"writing", "failed"}
  /\ script \in {"saved", "done"} => file = started

(* "Polling for completion": the script does not poll for ever.            *)
ScriptEnds == script = "polling" ~> script \in {"done", "failed"}
=============================================================================
