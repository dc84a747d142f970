----------------------------- MODULE LiveCache -----------------------------
(***************************************************************************)
(* The keys through which the workers of one execution report their        *)
(* progress: exec:<execution>, trace:<execution> and one                   *)
(* live:<execution>:worker-<i> per worker.  The keys of other executions   *)
(* have other names.  External: the cache, here the five commands that     *)
(* lambda/load-generator/handler.py and lambda/live/handler.py send.       *)
(*                                                                         *)
(* A value is a set, empty where there is no such key: the execution's     *)
(* metadata is its lambda_count, the trace the entries pushed so far, and  *)
(* a live key the snapshot <<w, n>>, the n-th of worker w.                 *)
(***************************************************************************)
EXTENDS Integers

CONSTANT NumWorkers \* lambda_count

ASSUME FleetAssumption == NumWorkers \in Nat \ {0}

VARIABLES
  value,    \* what each key holds
  expiring  \* the keys that have a time to live

cacheVars == <<value, expiring>>

Workers == 0..(NumWorkers - 1)

Exec == <<"exec">>
Trace == <<"trace">>
Live(i) == <<"live", i>>

Keys == {Exec, Trace} \cup {Live(w) : w \in Workers}

Held(k) == value[k] # {}

(* GET and LRANGE.                                                         *)
ValueAt(k) == IF k \in Keys THEN value[k] ELSE {}

(* SET, which also takes the key's time to live away.                      *)
Set(k, x) ==
  /\ value' = [value EXCEPT ![k] = {x}]
  /\ expiring' = expiring \ {k}

(* RPUSH, which leaves the time to live as it is.                          *)
Push(k, x) ==
  /\ value' = [value EXCEPT ![k] = @ \cup {x}]
  /\ UNCHANGED expiring

(* EXPIRE of a key, if there is one.                                       *)
Expire(k) ==
  /\ expiring' = IF Held(k) THEN expiring \cup {k} ELSE expiring
  /\ UNCHANGED value

(* The time to live of a key is over.                                      *)
Vanish(k) ==
  /\ k \in expiring
  /\ value' = [value EXCEPT ![k] = {}]
  /\ expiring' = expiring \ {k}

InitCache ==
  /\ value = [k \in Keys |-> {}]
  /\ expiring = {}
=============================================================================
