---------------------------- MODULE LiveReader ----------------------------
(***************************************************************************)
(* The live reader (lambda/live/handler.py), one environment of its Lambda *)
(* that is invoked again and again: it reads the metadata of the execution,*)
(* the live keys one after another, and the trace.  What it makes of the   *)
(* snapshots is LiveAggregate's.                                           *)
(***************************************************************************)
EXTENDS RedisClient

CONSTANT ReadBound \* 200 in the code: the keys read when lambda_count is unknown

ASSUME ReaderAssumption == ReadBound \in Nat /\ ReadBound >= NumWorkers

VARIABLES
  reading,     \* what the handler reads: "exec", "live", "trace"; "answered"
               \* when it returns, "idle" between invocations
  index,       \* i
  lambdaCount, \* lambda_count, 0 without metadata
  snapshots,   \* what was read from each live key
  traceRead    \* trace_raw

readerVars == <<reading, index, lambdaCount, snapshots, traceRead>>

Indices == 0..(ReadBound - 1)
NoSnapshots == [i \in Indices |-> {}]

InitReader ==
  /\ reading = "idle"
  /\ index = 0
  /\ lambdaCount = 0
  /\ snapshots = NoSnapshots
  /\ traceRead = {}

Forget ==
  /\ index' = 0
  /\ lambdaCount' = 0
  /\ snapshots' = NoSnapshots
  /\ traceRead' = {}

Invoke ==
  /\ reading = "idle"
  /\ reading' = "exec"
  /\ Forget
  /\ Execute(Exec)
  /\ UNCHANGED socketVars

ReadExec ==
  /\ reading = "exec"
  /\ Answered
  /\ TakeReply
  /\ lambdaCount' = IF ValueRead = {} THEN 0 ELSE NumWorkers
  /\ reading' = "live"
  /\ Execute(Live(0))
  /\ UNCHANGED <<index, snapshots, traceRead>>

(* Mutant: the loop breaks at the first key that is absent.                *)
BreaksAtGap(raw) == raw = {} /\ lambdaCount > 0

Breaks(raw) == raw = {} /\ index >= lambdaCount /\ lambdaCount > 0

(* range(max(lambda_count, 200)) has no more, given that lambda_count is   *)
(* not above 200.                                                          *)
LastIndex == index = ReadBound - 1

ReadLive ==
  /\ reading = "live"
  /\ Answered
  /\ TakeReply
  /\ snapshots' = [snapshots EXCEPT ![index] = ValueRead]
  /\ IF Breaks(ValueRead) \/ LastIndex
       THEN reading' = "trace" /\ Execute(Trace) /\ UNCHANGED index
       ELSE index' = index + 1 /\ Execute(Live(index + 1)) /\ UNCHANGED reading
  /\ UNCHANGED <<lambdaCount, traceRead>>

ReadTrace ==
  /\ reading = "trace"
  /\ Answered
  /\ TakeReply
  /\ traceRead' = ValueRead
  /\ reading' = "answered"
  /\ Done
  /\ UNCHANGED <<index, lambdaCount, snapshots>>

(* The handler returns its answer.                                         *)
Return ==
  /\ reading = "answered"
  /\ reading' = "idle"
  /\ Forget
  /\ UNCHANGED clientVars

(* A command raised, and so does the handler.                              *)
Raise ==
  /\ stage = "raised"
  /\ Done
  /\ reading' = "idle"
  /\ Forget
  /\ UNCHANGED socketVars

(* The Lambda's timeout: the environment is given up.                      *)
Killed ==
  /\ reading # "idle"
  /\ Disconnect
  /\ Done
  /\ reading' = "idle"
  /\ Forget

HandlerStep ==
  \/ ClientStep /\ UNCHANGED readerVars
  \/ ReadExec \/ ReadLive \/ ReadTrace
  \/ Return \/ Raise

ReaderStep ==
  \/ Invoke \/ HandlerStep \/ Killed
  \/ ServerStep /\ UNCHANGED readerVars
=============================================================================
