------------------------------ MODULE Seeding ------------------------------
(***************************************************************************)
(* Seeding the keys that a test reads: pre_populate of                     *)
(* lambda/load-generator/traffic_generator.py, and what the generators of  *)
(* the workers then find.                                                  *)
(*                                                                         *)
(* pre_populate creates a task per key, in batches, and awaits a batch     *)
(* before it creates the next one; gather returns the exceptions of the    *)
(* tasks, and nobody looks at them.  Each task waits for a semaphore, and  *)
(* sends one SET through its client, which refuses it when it has          *)
(* inflight_requests_limit commands in flight.  The semaphore is that of   *)
(* pre_populate alone and knows nothing of the limit.  A SET whose task    *)
(* has ended with an exception, as after request_timeout, may be executed  *)
(* by the cache at any later time, or never.  External: GLIDE, the cache.  *)
(***************************************************************************)
EXTENDS KeyGenerator

CONSTANTS
  NumClients,      \* len(clients)
  InflightLimits,  \* what a configuration may say of inflight_requests_limit
  SeedConcurrency, \* 500 in the code
  BatchSize        \* 5000 in the code

ASSUME SeedingAssumption ==
  {NumClients, SeedConcurrency, BatchSize} \cup InflightLimits \subseteq Nat \ {0}

VARIABLES
  inflightLimit, \* inflight_requests_limit, per client
  seeding,  \* "create", "gather" or "done"
  created,  \* i: the tasks created so far
  acquired, \* the tasks that have acquired the semaphore
  inflight, \* those that hold it
  refused,  \* those that their client refused, by now or before
  failed,   \* the keys whose SET failed in another way
  cache     \* the keys in the cache

vars == <<inflightLimit, seeding, created, acquired, inflight, refused, failed, cache>>

(* Mutant: all keys go through one client.                                 *)
FirstClientOf(i) == 0

ClientOf(i) == i % NumClients
CommandsAt(c) == Cardinality({i \in inflight \ refused : ClientOf(i) = c})

Init ==
  /\ inflightLimit \in InflightLimits
  /\ seeding = "create"
  /\ created = 0
  /\ acquired = 0
  /\ inflight = {} /\ refused = {} /\ failed = {}
  /\ cache = {}

(* The loop up to its next await.                                          *)
CreateBatch ==
  /\ seeding = "create"
  /\ created' = Min({created + BatchSize, KeySpaceSize})
  /\ seeding' = "gather"
  /\ UNCHANGED <<inflightLimit, acquired, inflight, refused, failed, cache>>

(* Mutant: as many tasks as one may run beside those that do.              *)
HasPermitTooMany == Cardinality(inflight) <= SeedConcurrency

HasPermit == Cardinality(inflight) < SeedConcurrency

(* write_key up to its await: the next task in line.                       *)
StartWrite ==
  /\ acquired < created
  /\ HasPermit
  /\ acquired' = acquired + 1
  /\ inflight' = inflight \cup {acquired}
  /\ refused' = IF CommandsAt(ClientOf(acquired)) >= inflightLimit
                  THEN refused \cup {acquired}
                  ELSE refused
  /\ UNCHANGED <<inflightLimit, seeding, created, failed, cache>>

(* The SET returns, or it raises: GLIDE has refused it, it has failed, or  *)
(* its answer has not come in time.                                        *)
FinishWrite(i) ==
  /\ i \in inflight
  /\ inflight' = inflight \ {i}
  /\ \/ i \notin refused /\ cache' = cache \cup {Key(i)} /\ UNCHANGED failed
     \/ i \notin refused /\ failed' = failed \cup {Key(i)} /\ UNCHANGED cache
     \/ i \in refused /\ UNCHANGED <<failed, cache>>
  /\ UNCHANGED <<inflightLimit, seeding, created, acquired, refused>>

(* The cache executes a SET after its task has ended, perhaps after        *)
(* pre_populate has returned.                                              *)
ExecutedLate(i) ==
  /\ Key(i) \in failed \ cache
  /\ cache' = cache \cup {Key(i)}
  /\ UNCHANGED <<inflightLimit, seeding, created, acquired, inflight, refused, failed>>

BatchDone == acquired = created /\ inflight = {}

Gathered ==
  /\ seeding = "gather"
  /\ BatchDone
  /\ seeding' = IF created < KeySpaceSize THEN "create" ELSE "done"
  /\ UNCHANGED <<inflightLimit, created, acquired, inflight, refused, failed, cache>>

Next ==
  \/ CreateBatch
  \/ StartWrite
  \/ \E i \in Indices : FinishWrite(i) \/ ExecutedLate(i)
  \/ Gathered

Spec == Init /\ [][Next]_vars

-----------------------------------------------------------------------------
(* The variables have their types.                                         *)
TypeOK ==
  /\ inflightLimit \in InflightLimits
  /\ seeding \in {"create", "gather", "done"}
  /\ created \in 0..KeySpaceSize
  /\ acquired \in 0..created
  /\ inflight \subseteq 0..(acquired - 1)
  /\ refused \subseteq 0..(acquired - 1)
  /\ failed \subseteq {Key(i) : i \in Indices}
  /\ cache \subseteq {Key(i) : i \in Indices}

(* Every key is in the cache once pre_populate has returned, unless its    *)
(* SET failed: no client has refused one, if its limit is not below the    *)
(* semaphore of pre_populate.                                              *)
SeedsAreThere ==
  seeding = "done" /\ SeedConcurrency <= inflightLimit =>
    \A i \in Indices : Key(i) \in cache \cup failed

(* So a worker's reads find the keys they are for, whatever the generator  *)
(* draws: no distribution that is seeded leaves the seeded keys.           *)
ReadsFindSeeds ==
  seeding = "done" /\ SeedConcurrency <= inflightLimit =>
    \A distribution \in {"uniform", "zipf", "zipfian"} :
      Drawn(distribution) \subseteq cache \cup failed

(* "Top ~1% of keys receive ~80% of traffic": those with the lowest        *)
(* indices.  Under any limit of the clients, the first keys, as many as    *)
(* all clients take at once, are never among the seeds that are refused,   *)
(* in whatever order the writes before them end.                           *)
HotKeysAreSeeded ==
  seeding = "done" =>
    \A i \in Indices : i < NumClients * inflightLimit => Key(i) \in cache \cup failed

(* "rejection-free sampling" of the cumulative distribution: the search    *)
(* yields the first key whose share reaches the random number, or the last *)
(* one when rounding leaves none.                                          *)
ZipfIsInverse ==
  seeding = "create" =>
    \A r \in Randoms :
      LET i == ZipfIndex(r)
      IN  /\ \A j \in 0..(i - 1) : Cumulative(j) < r
          /\ Cumulative(i) >= r \/ i = KeySpaceSize - 1
=============================================================================
