-------------------------- MODULE OperationLedger --------------------------
(***************************************************************************)
(* What a load test promises about its numbers, independent of windows,    *)
(* tasks and semaphores: each operation that is issued is counted once, as *)
(* a success, a throttle or an error; the report only ever catches up with *)
(* what has been counted; and it is closed when nothing is outstanding.    *)
(* The one concession is made at the close: what was counted after the     *)
(* last publication may be left out of the report, all of it or none.      *)
(***************************************************************************)
EXTENDS Integers

VARIABLES
  issued,    \* operations issued so far
  counted,   \* operations counted so far, by outcome
  published, \* operations in the report so far, by outcome
  closed     \* the report is final

ledgerVars == <<issued, counted, published, closed>>

Tallies == [success : Nat, throttle : Nat, error : Nat]

Total(tally) == tally.success + tally.throttle + tally.error

(* One operation, by its outcome.                                          *)
Outcomes == {[success |-> 1, throttle |-> 0, error |-> 0],
             [success |-> 0, throttle |-> 1, error |-> 0],
             [success |-> 0, throttle |-> 0, error |-> 1]}

Add(a, b) == [success  |-> a.success + b.success,
              throttle |-> a.throttle + b.throttle,
              error    |-> a.error + b.error]

LedgerInit ==
  /\ issued = 0
  /\ counted = [success |-> 0, throttle |-> 0, error |-> 0]
  /\ published = counted
  /\ closed = FALSE

Count(outcome) ==
  /\ ~closed
  /\ Total(counted) < issued
  /\ counted' = Add(counted, outcome)
  /\ UNCHANGED <<issued, published, closed>>

(* One pass of the load loop: new operations are issued and, perhaps, all  *)
(* that is counted is published.                                           *)
IssueAndPublish ==
  /\ ~closed
  /\ issued' \in Nat /\ issued' >= issued
  /\ published' \in {published, counted}
  /\ UNCHANGED <<counted, closed>>

Close ==
  /\ ~closed
  /\ Total(counted) = issued
  /\ closed' = TRUE
  /\ published' \in {published, counted}
  /\ UNCHANGED <<issued, counted>>

LedgerNext ==
  \/ \E outcome \in Outcomes : Count(outcome)
  \/ IssueAndPublish
  \/ Close

LedgerSpec == LedgerInit /\ [][LedgerNext]_ledgerVars
=============================================================================
