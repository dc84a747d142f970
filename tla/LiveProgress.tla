--------------------------- MODULE LiveProgress ---------------------------
(***************************************************************************)
(* Live progress of one execution: its workers write into the cache while  *)
(* the live reader reads it, key by key.                                   *)
(*                                                                         *)
(* Keys expire, without a clock in the model, when the times of the code   *)
(* allow it: a live key (300 s) is set again every few seconds and so      *)
(* expires only when its worker has ended or has failed to publish; the    *)
(* metadata and the trace (3600 s) are refreshed when each worker starts,  *)
(* and a Lambda of the load generator lives for 900 s at most, so they     *)
(* expire when all workers have ended, the live keys have expired, and no  *)
(* call of the reader (15 s) is left that saw one.                         *)
(***************************************************************************)
EXTENDS WorkerLambda, LiveReader

VARIABLES
  seen,      \* the snapshots that were in the cache during the call
  throughout \* the workers whose live key has been there since the call began

vars == <<cacheVars, workerVars, clientVars, readerVars, seen, throughout>>

Reporting == {w \in Workers : Held(Live(w))}
InCache == UNION {value[Live(w)] : w \in Workers}

Init ==
  /\ InitCache
  /\ InitWorkers
  /\ InitClient
  /\ InitReader
  /\ seen = {}
  /\ throughout = {}

LiveKeyLapses(w) ==
  /\ at[w] = "ended" \/ <<w, "live">> \in failed
  /\ Vanish(Live(w))

(* Whatever was seen in a live key by now is in one that never expires.    *)
Outlasted ==
  /\ \A w \in Workers : at[w] = "ended" /\ Live(w) \notin expiring
  /\ \A s \in seen : Held(Live(s[1]))

ExecutionKeyLapses(k) == Outlasted /\ Vanish(k)

Lapse ==
  \/ \E w \in Workers : LiveKeyLapses(w)
  \/ \E k \in {Exec, Trace} : ExecutionKeyLapses(k)

Observe ==
  /\ seen' = IF reading' = "idle" THEN {} ELSE seen \cup InCache'
  /\ throughout' = IF reading' = "idle" THEN {}
                   ELSE IF reading = "idle" THEN Reporting'
                   ELSE throughout \cap Reporting'

(* The handler's last lines, which only compute its answer, are not        *)
(* interleaved with anything.                                              *)
CacheStep ==
  /\ reading # "answered"
  /\ (\E w \in Workers : WorkerStep(w)) \/ (Lapse /\ UNCHANGED workerVars)
  /\ UNCHANGED <<clientVars, readerVars>>
  /\ Observe

CallStep ==
  /\ ReaderStep
  /\ UNCHANGED <<cacheVars, workerVars>>
  /\ Observe

Next == CacheStep \/ CallStep

Spec == Init /\ [][Next]_vars

-----------------------------------------------------------------------------
Sections == {"exec", "live", "trace", "answered", "idle"}
Items(k) ==
  IF k = Exec THEN {NumWorkers}
  ELSE IF k = Trace THEN Workers \X TraceTags
  ELSE {k[2]} \X Nat

(* The variables have their types.                                         *)
TypeOK ==
  /\ DOMAIN value = Keys
  /\ \A k \in Keys : value[k] \subseteq Items(k)
  /\ expiring \subseteq {k \in Keys : Held(k)}
  /\ at \in [Workers -> Writes \cup {"connect", "load", "ended"}]
  /\ stored \subseteq {w \in Workers : at[w] \in Writes}
  /\ flushed \in [Workers -> Nat]
  /\ failed \subseteq Workers \X Writes
  /\ sock \in {"none", "open", "reset"}
  /\ stage \in {"idle", "acquire", "await", "retry", "raised"}
  /\ failures \in 0..Retries
  /\ reading \in Sections
  /\ index \in Indices
  /\ lambdaCount \in {0, NumWorkers}
  /\ DOMAIN snapshots = Indices

(* A key without a time to live is about to be given one, or is left by a  *)
(* write that failed between its two commands: nothing else stays in the   *)
(* cache for ever.                                                         *)
Writer(w, k) == at[w] \in Writes /\ KeyOf(w) = k /\ w \in stored
FailedOn(k) ==
  IF k = Exec THEN \E w \in Workers : <<w, "exec">> \in failed
  ELSE IF k = Trace THEN \E w \in Workers, x \in TraceTags : <<w, x>> \in failed
  ELSE <<k[2], "live">> \in failed
NoKeyForever ==
  \A k \in Keys : Held(k) /\ k \notin expiring =>
    (\E w \in Workers : Writer(w, k)) \/ FailedOn(k)

(* The answer counts every worker that reported all through the call,      *)
(* whatever other workers had ended, failed or not yet begun.              *)
WholeFleetIsCounted ==
  reading = "answered" => \A w \in throughout : snapshots[w] # {}

(* What the answer counts for a worker was that worker's snapshot at some  *)
(* moment of the call, although commands of this call or of earlier ones   *)
(* timed out and were sent again: no reply is taken for another command's. *)
AnswersAreFresh ==
  \A i \in Indices : \A s \in snapshots[i] : s \in seen /\ s[1] = i

(* "Write execution metadata and trace": the trace of an answer tells that *)
(* each worker it counts has connected, if the worker could write it.      *)
CountedWorkersAreTraced ==
  reading = "answered" =>
    \A w \in Workers :
      /\ snapshots[w] # {}
      /\ <<w, "connected">> \notin failed /\ <<w, "live">> \notin failed
      => <<w, "connected">> \in traceRead
=============================================================================
