------------------------------ MODULE TestRun ------------------------------
(***************************************************************************)
(* What a load test promises, for several tests at once: keys are seeded   *)
(* before load is counted, the report is made from the results of all      *)
(* workers and only then has the test succeeded; a test that has ended,    *)
(* well or badly, stays so.                                                *)
(***************************************************************************)
CONSTANTS Tests, Workers

VARIABLES
  phase,    \* of each test: "idle", "seeding", "loading", "reporting",
            \* "succeeded" or "failed"
  delivered \* of each test, the workers whose results have been collected

Move(t, from, to) ==
  /\ phase[t] = from
  /\ phase' = [phase EXCEPT ![t] = to]

Begin(t) ==
  /\ Move(t, "idle", "seeding") \/ Move(t, "idle", "loading")
  /\ UNCHANGED delivered

Seeded(t) == Move(t, "seeding", "loading") /\ UNCHANGED delivered

Deliver(t, w) ==
  /\ w \notin delivered[t]
  /\ delivered' = [delivered EXCEPT ![t] = @ \cup {w}]
  /\ Move(t, "loading", IF delivered[t] \cup {w} = Workers THEN "reporting" ELSE "loading")

Report(t) == Move(t, "reporting", "succeeded") /\ UNCHANGED delivered

Fail(t) ==
  /\ \E from \in {"seeding", "loading", "reporting"} : Move(t, from, "failed")
  /\ UNCHANGED delivered

TestRunInit ==
  /\ phase = [t \in Tests |-> "idle"]
  /\ delivered = [t \in Tests |-> {}]

TestRunNext ==
  \E t \in Tests :
    \/ Begin(t) \/ Seeded(t) \/ Report(t) \/ Fail(t)
    \/ \E w \in Workers : Deliver(t, w)

TestRunSpec == TestRunInit /\ [][TestRunNext]_<<phase, delivered>>
=============================================================================
