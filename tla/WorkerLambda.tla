--------------------------- MODULE WorkerLambda ---------------------------
(***************************************************************************)
(* What the handler of a worker's Lambda (async_handler of                 *)
(* lambda/load-generator/handler.py) writes about itself into the cache:   *)
(* the execution's metadata, three trace entries, and a live snapshot per  *)
(* window of the load.                                                     *)
(*                                                                         *)
(* Every such write is two commands, a SET or an RPUSH and then an EXPIRE, *)
(* and stops at the first that fails; the failure is swallowed.  A command *)
(* may fail although the cache executes it, since GLIDE gives up on it     *)
(* after request_timeout.  The Lambda may be killed or raise anywhere.     *)
(* The load itself is TrafficGenerator's; a worker that produces no load   *)
(* (duration_seconds 0) and one that seeds keys write nothing here: the    *)
(* state machine sends the first never, the second without a name.         *)
(***************************************************************************)
EXTENDS LiveCache, FiniteSets

CONSTANTS
  MaxWindows,  \* bound: the snapshots of each worker
  MaxFailures, \* bound: how many writes fail
  Failing      \* bound: the kinds of write that may fail

ASSUME WorkerAssumption == MaxWindows \in [Workers -> Nat] /\ MaxFailures \in Nat

VARIABLES
  at,      \* what each worker is doing: one of Writes, or "connect", "load", "ended"
  stored,  \* the workers whose write has got as far as its EXPIRE
  flushed, \* how many snapshots each worker has flushed
  failed   \* the writes that were not completed: worker and kind

workerVars == <<at, stored, flushed, failed>>

TraceTags == {"connected", "starting", "completed"}
Writes == {"exec", "live"} \cup TraceTags

InitWorkers ==
  /\ at = [w \in Workers |-> "connect"]
  /\ stored = {}
  /\ flushed = [w \in Workers |-> 0]
  /\ failed = {}

KeyOf(w) ==
  IF at[w] = "exec" THEN Exec
  ELSE IF at[w] = "live" THEN Live(w)
  ELSE Trace

(* Mutant: the trace is a string that is set, not a list that is pushed to. *)
StoreOverTrace(w) ==
  IF at[w] = "exec" THEN Set(Exec, NumWorkers)
  ELSE IF at[w] = "live" THEN Set(Live(w), <<w, flushed[w]>>)
  ELSE Set(Trace, <<w, at[w]>>)

(* The first command of a write.                                           *)
Store(w) ==
  IF at[w] = "exec" THEN Set(Exec, NumWorkers)
  ELSE IF at[w] = "live" THEN Set(Live(w), <<w, flushed[w]>>)
  ELSE Push(Trace, <<w, at[w]>>)

(* Mutant: on_snapshot only sets the key.                                  *)
RefreshTraceOnly(w) ==
  IF at[w] = "live" THEN UNCHANGED cacheVars ELSE Expire(KeyOf(w))

(* The second one.                                                         *)
Refresh(w) == Expire(KeyOf(w))

Command(w) == IF w \in stored THEN Refresh(w) ELSE Store(w)

(* Where the handler goes on after a write.                                *)
After(w) ==
  IF at[w] = "exec" THEN "connected"
  ELSE IF at[w] = "connected" THEN "starting"
  ELSE IF at[w] = "completed" THEN "ended"
  ELSE "load"

(* create_clients, which may raise.                                        *)
CreateClients(w) ==
  /\ at[w] = "connect"
  /\ \E next \in {"exec", "ended"} : at' = [at EXCEPT ![w] = next]
  /\ UNCHANGED <<stored, flushed, failed, cacheVars>>

(* A command of a write returns.                                           *)
Stored(w) ==
  /\ at[w] \in Writes
  /\ w \notin stored
  /\ Command(w)
  /\ stored' = stored \cup {w}
  /\ UNCHANGED <<at, flushed, failed>>

Refreshed(w) ==
  /\ at[w] \in Writes
  /\ w \in stored
  /\ Command(w)
  /\ stored' = stored \ {w}
  /\ at' = [at EXCEPT ![w] = After(w)]
  /\ UNCHANGED <<flushed, failed>>

(* A command fails, executed or not, and the handler goes on, or the       *)
(* Lambda is killed while it waits for the command.                        *)
WriteFails(w) ==
  /\ at[w] \in Writes \cap Failing
  /\ Cardinality(failed) < MaxFailures
  /\ failed' = failed \cup {<<w, at[w]>>}
  /\ Command(w) \/ UNCHANGED cacheVars
  /\ \E next \in {After(w), "ended"} : at' = [at EXCEPT ![w] = next]
  /\ stored' = stored \ {w}
  /\ UNCHANGED flushed

(* run_traffic flushes a window and calls on_snapshot.                     *)
Flush(w) ==
  /\ at[w] = "load"
  /\ flushed[w] < MaxWindows[w]
  /\ flushed' = [flushed EXCEPT ![w] = @ + 1]
  /\ at' = [at EXCEPT ![w] = "live"]
  /\ UNCHANGED <<stored, failed, cacheVars>>

(* run_traffic returns, or raises or is killed.                            *)
LoadOver(w) ==
  /\ at[w] = "load"
  /\ \E next \in {"completed", "ended"} : at' = [at EXCEPT ![w] = next]
  /\ UNCHANGED <<stored, flushed, failed, cacheVars>>

WorkerStep(w) ==
  \/ CreateClients(w) \/ Stored(w) \/ Refreshed(w) \/ WriteFails(w)
  \/ Flush(w) \/ LoadOver(w)
=============================================================================
