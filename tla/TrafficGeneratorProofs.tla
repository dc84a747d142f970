---------------------- MODULE TrafficGeneratorProofs ----------------------
(***************************************************************************)
(* Proofs about the load loop of one worker, for every number of clients,  *)
(* every limit, ramp, duration, interval and bound.                        *)
(***************************************************************************)
EXTENDS TrafficGenerator, FiniteSetTheorems, SumTheorems, TLAPS

(* Division by a positive number, as the provers need it.                  *)
LEMMA DivisionFacts ==
  ASSUME NEW a \in Nat, NEW b \in Nat \ {0}
  PROVE  /\ a \div b \in Nat
         /\ a % b \in Nat
         /\ b * (a \div b) <= a
         /\ a < b * (a \div b) + b
BY Z3

LEMMA DivisionMonotone ==
  ASSUME NEW a \in Nat, NEW c \in Nat, NEW b \in Nat \ {0}, a <= c
  PROVE  a \div b <= c \div b
<1> DEFINE q == a \div b  r == c \div b
<1>1. q \in Nat /\ r \in Nat /\ b * q <= a /\ c < b * r + b
  BY DivisionFacts
<1>2. b * q < b * (r + 1)
  <2>1. b * (r + 1) = b * r + b
    BY <1>1
  <2> QED BY <1>1, <2>1
<1>3. SUFFICES ASSUME r + 1 <= q PROVE FALSE
  BY <1>1
<1>4. b * (r + 1) <= b * q
  <2>1. PICK k \in Nat : q = r + 1 + k
    BY <1>1, <1>3
  <2>2. b * q = b * (r + 1) + b * k
    BY <1>1, <2>1
  <2>3. b * k >= 0 /\ b * (r + 1) \in Nat
    BY <1>1
  <2> QED BY <2>2, <2>3
<1> QED BY <1>1, <1>2, <1>4

LEMMA IntervalsNest ==
  ASSUME NEW m \in Nat, NEW n \in Nat, m <= n
  PROVE  /\ 0 .. (m - 1) \subseteq 0 .. (n - 1)
         /\ m .. (n - 1) \subseteq 0 .. (n - 1)
OBVIOUS

LEMMA RoundDivNat ==
  ASSUME NEW a \in Nat, NEW b \in Nat \ {0}
  PROVE  RoundDiv(a, b) \in Nat
BY DivisionFacts DEF RoundDiv

(* compute_target_rps: whatever the pattern, the target lies between one   *)
(* and max_rps.                                                            *)
LEMMA TargetInRange ==
  ASSUME NEW t \in Nat
  PROVE  ComputeTargetRps(t) \in 1 .. MaxRps
<1>1. (MaxRps * 5 * t) \div Duration \in Nat
  BY DivisionFacts, TrafficAssumption
<1>2. MaxRps \div 10 \in Nat /\ MaxRps \div 10 <= MaxRps
  BY TrafficAssumption
<1> QED BY <1>1, <1>2, TrafficAssumption DEF ComputeTargetRps, GreaterOf, LesserOf

(* A pass fires at least one operation and at most one tick's share of     *)
(* the target.                                                             *)
LEMMA OpsInRange ==
  ASSUME NEW t \in Nat
  PROVE  /\ OpsThisTick(t) \in Nat \ {0}
         /\ OpsThisTick(t) <= TickShare
<1>1. ComputeTargetRps(t) \in Nat /\ ComputeTargetRps(t) <= MaxRps
  BY TargetInRange
<1>2. /\ ComputeTargetRps(t) \div SecondUnits \in Nat
      /\ MaxRps \div SecondUnits \in Nat
      /\ ComputeTargetRps(t) \div SecondUnits <= MaxRps \div SecondUnits
  BY <1>1, DivisionFacts, DivisionMonotone, TrafficAssumption, CollectorAssumption
<1> QED BY <1>2 DEF OpsThisTick, TickShare, GreaterOf

-----------------------------------------------------------------------------
(* Type correctness.                                                       *)

LEMMA SnapshotType ==
  ASSUME NEW w \in WindowMetrics, NEW end \in Nat, NEW length \in Nat \ {0}
  PROVE  Snapshot(w, end, length) \in Snapshots
<1>1. RoundDiv(end, SecondUnits) \in Nat
  BY RoundDivNat, CollectorAssumption
<1>2. RoundDiv(w.success * SecondUnits, length) \in Nat
  <2>1. w.success * SecondUnits \in Nat
    BY CollectorAssumption DEF WindowMetrics
  <2> QED BY <2>1, RoundDivNat
<1> QED BY <1>1, <1>2 DEF Snapshot, Snapshots, WindowMetrics

LEMMA EmptyWindowType == EmptyWindow \in WindowMetrics
BY DEF EmptyWindow, WindowMetrics

LEMMA AppendSnapshotType ==
  ASSUME CollectorTypeOK, NEW end \in Nat, NEW length \in Nat \ {0},
         AppendSnapshot(end, length)
  PROVE  /\ elapsed' \in Nat
         /\ timeSeries' \in Seq(Snapshots)
         /\ reported' \in Counters
<1>1. Snapshot(current, end, length) \in Snapshots
  BY SnapshotType DEF CollectorTypeOK
<1>2. timeSeries' \in Seq(Snapshots)
  BY <1>1 DEF CollectorTypeOK, AppendSnapshot
<1>3. reported' \in Counters
  BY DEF CollectorTypeOK, AppendSnapshot, PlusCounts, CountsOf, Counters, WindowMetrics
<1> QED BY <1>2, <1>3 DEF AppendSnapshot

LEMMA FlushWindowType ==
  ASSUME CollectorTypeOK, FlushWindow, UNCHANGED now
  PROVE  CollectorTypeOK'
<1>1. elapsed + ReportInterval \in Nat /\ ReportInterval \in Nat \ {0}
  BY CollectorAssumption DEF CollectorTypeOK
<1>2. /\ elapsed' \in Nat
      /\ timeSeries' \in Seq(Snapshots)
      /\ reported' \in Counters
  BY <1>1, AppendSnapshotType DEF FlushWindow
<1> QED BY <1>2, EmptyWindowType DEF FlushWindow, ResetWindow, CollectorTypeOK

LEMMA FlushFinalType ==
  ASSUME CollectorTypeOK, FlushFinal, UNCHANGED now
  PROVE  CollectorTypeOK'
<1>1. CASE FinalWindowKept
  <2>1. now - windowStart \in Nat \ {0} /\ elapsed + (now - windowStart) \in Nat
    BY <1>1, CollectorAssumption DEF CollectorTypeOK, FinalWindowKept
  <2>2. /\ elapsed' \in Nat
        /\ timeSeries' \in Seq(Snapshots)
        /\ reported' \in Counters
    BY <1>1, <2>1, AppendSnapshotType DEF FlushFinal, FinalTime
  <2> QED BY <2>2 DEF FlushFinal, CollectorTypeOK
<1>2. CASE ~FinalWindowKept
  BY <1>2 DEF FlushFinal, CollectorTypeOK
<1> QED BY <1>1, <1>2

LEMMA RecordOutcomeType ==
  ASSUME CollectorTypeOK, NEW op, RecordOutcome(op), UNCHANGED now
  PROVE  CollectorTypeOK'
<1>1. ASSUME NEW b \in Buckets, RecordSuccess(b) PROVE CollectorTypeOK'
  <2> DEFINE w == [current EXCEPT !.success = @ + 1]
  <2>1. w \in WindowMetrics /\ w.histogram = current.histogram
    BY DEF CollectorTypeOK, WindowMetrics
  <2>2. [current.histogram EXCEPT ![b] = @ + 1] \in [Buckets -> Nat]
    BY DEF CollectorTypeOK, WindowMetrics
  <2>3. current' = [w EXCEPT !.histogram = [current.histogram EXCEPT ![b] = @ + 1]]
    BY <1>1, <2>1 DEF RecordSuccess
  <2> HIDE DEF w
  <2>4. current' \in WindowMetrics
    BY <2>1, <2>2, <2>3 DEF WindowMetrics
  <2> QED BY <1>1, <2>4 DEF RecordSuccess, CollectorTypeOK
<1>2. CASE RecordThrottle
  BY <1>2 DEF RecordThrottle, CollectorTypeOK, WindowMetrics
<1>3. CASE RecordError
  BY <1>3 DEF RecordError, CollectorTypeOK, WindowMetrics
<1> QED BY <1>1, <1>2, <1>3 DEF RecordOutcome

(* Pruning keeps a part of the list; the rest of the tail sets the sleep.  *)
LEMMA PruneAndSleepFacts ==
  ASSUME NEW list, NEW pending, PruneAndSleep(list, pending), now \in Nat
  PROVE  /\ tasks' \subseteq list
         /\ pending \subseteq list => pending \subseteq tasks'
         /\ wakeAt' = now + 1 /\ pc' = "sleep" /\ liveSent' = FALSE
BY DEF PruneAndSleep, Pruned, TickInterval

LEMMA TypeInit == Init => TypeOK
<1> SUFFICES ASSUME Init PROVE TypeOK
  OBVIOUS
<1>1. CollectorTypeOK
  BY EmptyWindowType, TrafficAssumption
  DEF Init, InitCollector, CollectorTypeOK, NoCounts, Counters
<1>2. startTime \in Nat /\ startTime <= now
  BY TrafficAssumption DEF Init
<1>3. /\ acquired \in 0 .. opCounter
      /\ inflight \subseteq 0 .. (acquired - 1)
      /\ rejected \subseteq inflight
      /\ tasks \subseteq Operations
  BY DEF Init
<1>4. /\ pc \in {"loop", "set", "expire", "sleep", "gather", "done"}
      /\ wakeAt \in Nat /\ opCounter \in Nat /\ liveSent \in BOOLEAN
  BY DEF Init
<1> QED BY <1>1, <1>2, <1>3, <1>4 DEF TypeOK

LEMMA TypeStep == TypeOK /\ [Next]_vars => TypeOK'
<1> SUFFICES ASSUME TypeOK, [Next]_vars PROVE TypeOK'
  OBVIOUS
<1> USE DEF TypeOK
<1>1. CASE Tick
  BY <1>1 DEF Tick, collectorVars, opVars, loopVars, CollectorTypeOK, Operations
<1>2. CASE Pass
  <2>1. CollectorTypeOK'
    BY <1>2, FlushWindowType DEF Pass, collectorVars, CollectorTypeOK
  <2>2. now - startTime \in Nat
    BY DEF CollectorTypeOK
  <2>3. opCounter' \in Nat /\ opCounter' > opCounter
    BY <1>2, <2>2, OpsInRange DEF Pass
  <2> DEFINE fired == opCounter .. (opCounter' - 1)
  <2>4. tasks \cup fired \subseteq Operations'
    <3>1. opCounter \in Nat /\ opCounter' \in Nat /\ opCounter <= opCounter'
      BY <2>3
    <3>2. /\ 0 .. (opCounter - 1) \subseteq 0 .. (opCounter' - 1)
          /\ fired \subseteq 0 .. (opCounter' - 1)
      BY <3>1, IntervalsNest
    <3> QED BY <3>2 DEF Operations
  <2>5. /\ tasks' \in SUBSET Operations'
        /\ pc' \in {"set", "sleep"}
        /\ wakeAt' \in Nat /\ liveSent' \in BOOLEAN
    <3>1. CASE FlushDue /\ Reporting
      BY <1>2, <2>4, <3>1 DEF Pass
    <3>2. CASE ~(FlushDue /\ Reporting)
      <4>1. PruneAndSleep(tasks \cup fired, Pending \cup fired)
        BY <1>2, <3>2 DEF Pass
      <4>2. /\ tasks' \subseteq tasks \cup fired
            /\ wakeAt' = now + 1 /\ pc' = "sleep" /\ liveSent' = FALSE
        BY <4>1, PruneAndSleepFacts DEF CollectorTypeOK
      <4>3. tasks' \in SUBSET Operations'
        BY <2>4, <4>2
      <4>4. wakeAt' \in Nat
        BY <4>2 DEF CollectorTypeOK
      <4> QED BY <4>2, <4>3, <4>4
    <3> QED BY <3>1, <3>2
  <2> QED BY <1>2, <2>1, <2>3, <2>5 DEF Pass
<1>3. CASE LiveSetReturned
  BY <1>3 DEF LiveSetReturned, collectorVars, opVars, CollectorTypeOK, Operations
<1>4. CASE SnapshotPublished
  <2>1. tasks' \subseteq tasks /\ wakeAt' = now + 1 /\ pc' = "sleep" /\ liveSent' = FALSE
    BY <1>4, PruneAndSleepFacts DEF SnapshotPublished, CollectorTypeOK
  <2>2. UNCHANGED <<now, collectorVars, opVars, startTime>>
    BY <1>4 DEF SnapshotPublished
  <2>3. CollectorTypeOK' /\ Operations' = Operations
    BY <2>2 DEF collectorVars, opVars, CollectorTypeOK, Operations
  <2>4. tasks' \in SUBSET Operations' /\ wakeAt' \in Nat
    BY <2>1, <2>3 DEF CollectorTypeOK
  <2> QED BY <2>1, <2>2, <2>3, <2>4 DEF opVars
<1>5. CASE Wake
  BY <1>5 DEF Wake, collectorVars, opVars, CollectorTypeOK, Operations
<1>6. CASE StopIssuing
  BY <1>6 DEF StopIssuing, collectorVars, opVars, CollectorTypeOK, Operations
<1>7. CASE Finish
  <2>1. CollectorTypeOK'
    BY <1>7, FlushFinalType DEF Finish
  <2> QED BY <1>7, <2>1 DEF Finish, opVars, Operations
<1>8. CASE StartOp
  BY <1>8 DEF StartOp, collectorVars, loopVars, CollectorTypeOK, Operations
<1>9. ASSUME NEW op \in inflight, FinishOp(op) PROVE TypeOK'
  <2>1. CollectorTypeOK'
    BY <1>9, RecordOutcomeType DEF FinishOp
  <2> QED BY <1>9, <2>1 DEF FinishOp, loopVars, Operations
<1>10. CASE UNCHANGED vars
  BY <1>10 DEF vars, collectorVars, opVars, loopVars, CollectorTypeOK, Operations
<1> QED
  BY <1>1, <1>2, <1>3, <1>4, <1>5, <1>6, <1>7, <1>8, <1>9, <1>10
  DEF Next, LoopStep, Terminated

(* Every reachable state of a worker is well typed; in particular the      *)
(* operations in flight are among those started, those among the issued.   *)
THEOREM TypeCorrect == Spec => []TypeOK
BY TypeInit, TypeStep, PTL DEF Spec

-----------------------------------------------------------------------------
(* gather waits for everything.  A pass adds what it fires to the list, an *)
(* operation that starts stays pending, and pruning drops finished ones.   *)

LEMMA PendingStep ==
  ASSUME TypeOK, Next
  PROVE  \/ Pass /\ Pending' = Pending \cup (opCounter .. (opCounter' - 1))
         \/ ~Pass /\ Pending' \subseteq Pending /\ opCounter' = opCounter
<1> USE DEF TypeOK
<1>1. CASE Tick
  BY <1>1 DEF Tick, opVars, Pending
<1>2. CASE Pass
  <2>0. now - startTime \in Nat
    BY DEF CollectorTypeOK
  <2>1. opCounter' \in Nat /\ opCounter' > opCounter
    BY <1>2, <2>0, OpsInRange DEF Pass
  <2>2. acquired' = acquired /\ inflight' = inflight /\ acquired \in Nat /\ acquired <= opCounter
    BY <1>2 DEF Pass
  <2>3. ASSUME NEW m \in Nat, m > opCounter
        PROVE  acquired .. (m - 1) =
                 (acquired .. (opCounter - 1)) \cup (opCounter .. (m - 1))
    BY <2>2, <2>3
  <2>4. acquired' .. (opCounter' - 1) =
          (acquired .. (opCounter - 1)) \cup (opCounter .. (opCounter' - 1))
    BY <2>1, <2>2, <2>3
  <2> QED BY <1>2, <2>2, <2>4 DEF Pending
<1>3. CASE LiveSetReturned \/ SnapshotPublished \/ Wake \/ StopIssuing \/ Finish
  BY <1>3 DEF LiveSetReturned, SnapshotPublished, Wake, StopIssuing, Finish, opVars, Pending
<1>4. CASE StartOp
  <2>1. acquired \in acquired .. (opCounter - 1)
    BY <1>4 DEF StartOp
  <2>2. acquired' = acquired + 1 /\ opCounter' = opCounter
    BY <1>4 DEF StartOp
  <2>3. acquired' .. (opCounter' - 1) \subseteq acquired .. (opCounter - 1)
    BY <2>2
  <2> QED BY <1>4, <2>1, <2>2, <2>3 DEF StartOp, Pending
<1>5. ASSUME NEW op \in inflight, FinishOp(op)
      PROVE  Pending' \subseteq Pending /\ opCounter' = opCounter
  BY <1>5 DEF FinishOp, Pending
<1>6. CASE Terminated
  BY <1>6 DEF Terminated, vars, opVars, Pending
<1> QED BY <1>1, <1>2, <1>3, <1>4, <1>5, <1>6 DEF Next, LoopStep

GatherInv == TypeOK /\ PruneKeepsPending /\ DoneIsQuiet

LEMMA GatherInit == Init => GatherInv
BY TypeInit DEF Init, GatherInv, PruneKeepsPending, DoneIsQuiet, Pending

LEMMA GatherStep == GatherInv /\ [Next]_vars => GatherInv'
<1> SUFFICES ASSUME GatherInv, [Next]_vars PROVE GatherInv'
  OBVIOUS
<1> USE DEF GatherInv
<1>1. TypeOK'
  BY TypeStep
<1>2. PruneKeepsPending' /\ DoneIsQuiet'
  <2>1. CASE Pass
    <3>1. Pending' = Pending \cup (opCounter .. (opCounter' - 1))
      BY <2>1, PendingStep DEF Next, LoopStep
    <3>2. CASE FlushDue /\ Reporting
      BY <2>1, <3>1, <3>2 DEF Pass, PruneKeepsPending, DoneIsQuiet
    <3>3. CASE ~(FlushDue /\ Reporting)
      <4> DEFINE fired == opCounter .. (opCounter' - 1)
      <4>1. PruneAndSleep(tasks \cup fired, Pending \cup fired)
        BY <2>1, <3>3 DEF Pass
      <4>2. Pending \cup fired \subseteq tasks \cup fired /\ now \in Nat
        BY DEF PruneKeepsPending, TypeOK, CollectorTypeOK
      <4> HIDE DEF fired
      <4>3. Pending \cup fired \subseteq tasks' /\ pc' = "sleep"
        BY <4>1, <4>2 DEF PruneAndSleep, Pruned
      <4>4. Pending' = Pending \cup fired
        BY <3>1 DEF fired
      <4> QED BY <4>3, <4>4 DEF PruneKeepsPending, DoneIsQuiet
    <3> QED BY <3>2, <3>3
  <2>2. CASE SnapshotPublished
    <3>1. Pending' = Pending
      BY <2>2 DEF SnapshotPublished, opVars, Pending
    <3>2. Pending \subseteq tasks' /\ pc' = "sleep"
      BY <2>2, PruneAndSleepFacts
      DEF SnapshotPublished, PruneKeepsPending, TypeOK, CollectorTypeOK
    <3> QED BY <3>1, <3>2 DEF PruneKeepsPending, DoneIsQuiet
  <2>3. CASE Finish
    <3>1. Pending' = Pending /\ tasks' = tasks /\ tasks \cap Pending = {}
      BY <2>3 DEF Finish, Gathered, opVars, Pending
    <3> QED BY <3>1 DEF PruneKeepsPending, DoneIsQuiet
  <2>4. CASE Tick \/ LiveSetReturned \/ Wake \/ StopIssuing \/ Terminated \/ UNCHANGED vars
    BY <2>4 DEF Tick, LiveSetReturned, Wake, StopIssuing, Terminated, vars, opVars,
                loopVars, Pending, PruneKeepsPending, DoneIsQuiet
  <2>5. CASE StartOp \/ \E op \in inflight : FinishOp(op)
    <3>1. Pending' \subseteq Pending
      <4>1. ~Pass
        <5>1. ASSUME Pass PROVE opCounter' # opCounter
          BY <5>1, OpsInRange DEF Pass, TypeOK, CollectorTypeOK
        <5> QED BY <2>5, <5>1 DEF StartOp, FinishOp
      <4> QED BY <2>5, <4>1, PendingStep DEF Next
    <3>2. tasks' = tasks /\ pc' = pc
      BY <2>5 DEF StartOp, FinishOp, loopVars
    <3> QED BY <3>1, <3>2 DEF PruneKeepsPending, DoneIsQuiet
  <2> QED BY <2>1, <2>2, <2>3, <2>4, <2>5 DEF Next, LoopStep
<1> QED BY <1>1, <1>2

(* However the list is pruned while operations start and finish, every     *)
(* unfinished operation is in it, so gather cannot return before them.     *)
THEOREM PendingIsKept == Spec => []PruneKeepsPending
<1>1. Spec => []GatherInv
  BY GatherInit, GatherStep, PTL DEF Spec
<1>2. GatherInv => PruneKeepsPending
  BY DEF GatherInv
<1> QED BY <1>1, <1>2, PTL

-----------------------------------------------------------------------------
(* Counting.  What has been counted changes only when an operation         *)
(* records its outcome, and then by that outcome; a flush moves counts     *)
(* from the window to the report.                                          *)

LEMMA CountedType == TypeOK => Counted \in Counters
BY DEF TypeOK, CollectorTypeOK, Counted, PlusCounts, CountsOf, Counters, WindowMetrics

LEMMA RecordOutcomeCounts ==
  ASSUME TypeOK, NEW op, RecordOutcome(op), pc # "done", pc' = pc
  PROVE  \E outcome \in Ledger!Outcomes : Counted' = Ledger!Add(Counted, outcome)
<1> USE DEF TypeOK, CollectorTypeOK, Counted, PlusCounts, CountsOf, Counters,
            Ledger!Outcomes, Ledger!Add
<1>1. ASSUME NEW b \in Buckets, RecordSuccess(b)
      PROVE  Counted' = Ledger!Add(Counted, [success |-> 1, throttle |-> 0, error |-> 0])
  <2>1. /\ current'.success = current.success + 1
        /\ current'.throttle = current.throttle
        /\ current'.error = current.error
        /\ reported' = reported
    BY <1>1 DEF RecordSuccess, WindowMetrics
  <2> QED BY <2>1 DEF WindowMetrics
<1>2. ASSUME RecordThrottle
      PROVE  Counted' = Ledger!Add(Counted, [success |-> 0, throttle |-> 1, error |-> 0])
  <2>1. /\ current'.success = current.success
        /\ current'.throttle = current.throttle + 1
        /\ current'.error = current.error
        /\ reported' = reported
    BY <1>2 DEF RecordThrottle, WindowMetrics
  <2> QED BY <2>1 DEF WindowMetrics
<1>3. ASSUME RecordError
      PROVE  Counted' = Ledger!Add(Counted, [success |-> 0, throttle |-> 0, error |-> 1])
  <2>1. /\ current'.success = current.success
        /\ current'.throttle = current.throttle
        /\ current'.error = current.error + 1
        /\ reported' = reported
    BY <1>3 DEF RecordError, WindowMetrics
  <2> QED BY <2>1 DEF WindowMetrics
<1> QED BY <1>1, <1>2, <1>3 DEF RecordOutcome

LEMMA FlushWindowKeepsCounts ==
  ASSUME TypeOK, FlushWindow, pc # "done", pc' # "done"
  PROVE  Counted' = Counted /\ reported' = Counted
BY DEF TypeOK, CollectorTypeOK, FlushWindow, ResetWindow, AppendSnapshot, Counted, PlusCounts,
       CountsOf, Counters, WindowMetrics, EmptyWindow

LEMMA FlushFinalKeepsCounts ==
  ASSUME TypeOK, FlushFinal, pc # "done", pc' = "done", UNCHANGED now
  PROVE  Counted' = Counted /\ reported' \in {reported, Counted}
<1>1. FinalWindowKept' <=> FinalWindowKept
  BY DEF FlushFinal, FinalWindowKept
<1> QED BY <1>1 DEF FlushFinal, FinalTime, AppendSnapshot, Counted

(* A step other than a recording leaves the counts alone.                  *)
LEMMA CountedStep ==
  ASSUME TypeOK, Next
  PROVE  \/ \E op \in inflight : FinishOp(op)
         \/ Counted' = Counted
<1>1. CASE Pass
  <2>1. pc # "done" /\ pc' # "done"
    BY <1>1 DEF Pass, PruneAndSleep
  <2>2. CASE FlushDue
    BY <1>1, <2>1, <2>2, FlushWindowKeepsCounts DEF Pass
  <2>3. CASE ~FlushDue
    BY <1>1, <2>1, <2>3 DEF Pass, collectorVars, Counted
  <2> QED BY <2>2, <2>3
<1>2. CASE Finish
  BY <1>2, FlushFinalKeepsCounts DEF Finish
<1>3. CASE Tick \/ LiveSetReturned \/ SnapshotPublished \/ Wake \/ StopIssuing
  BY <1>3 DEF Tick, LiveSetReturned, SnapshotPublished, PruneAndSleep, Wake, StopIssuing,
              collectorVars, loopVars, Counted
<1>4. CASE StartOp
  BY <1>4 DEF StartOp, collectorVars, loopVars, Counted, FinalWindowKept
<1>5. CASE Terminated
  BY <1>5 DEF Terminated, vars, collectorVars, loopVars, Counted, FinalWindowKept
<1> QED BY <1>1, <1>2, <1>3, <1>4, <1>5 DEF Next, LoopStep

CountInv == GatherInv /\ EveryOpCountedOnce

LEMMA InflightIsFinite ==
  TypeOK => IsFiniteSet(inflight) /\ Cardinality(inflight) \in Nat
<1> SUFFICES ASSUME TypeOK PROVE IsFiniteSet(inflight) /\ Cardinality(inflight) \in Nat
  OBVIOUS
<1>1. 0 \in Int /\ acquired - 1 \in Int /\ inflight \subseteq 0 .. (acquired - 1)
  BY DEF TypeOK
<1>2. IsFiniteSet(0 .. (acquired - 1))
  BY <1>1, FS_Interval
<1>3. IsFiniteSet(inflight)
  BY <1>1, <1>2, FS_Subset
<1> QED BY <1>3, FS_CardinalityType

LEMMA CountInit == Init => CountInv
<1> SUFFICES ASSUME Init PROVE EveryOpCountedOnce
  BY GatherInit DEF CountInv
<1>1. Cardinality(inflight) = 0 /\ acquired = 0
  BY FS_EmptySet DEF Init
<1>2. TotalOf(Counted) = 0
  BY DEF Init, InitCollector, Counted, TotalOf, PlusCounts, CountsOf, NoCounts, EmptyWindow
<1> QED BY <1>1, <1>2 DEF EveryOpCountedOnce

(* An operation in flight is counted while the report is still open.       *)
LEMMA FinishOpCounts ==
  ASSUME GatherInv, NEW op \in inflight, FinishOp(op)
  PROVE  /\ pc # "done"
         /\ \E outcome \in Ledger!Outcomes : Counted' = Ledger!Add(Counted, outcome)
<1>1. pc # "done"
  BY DEF GatherInv, DoneIsQuiet, Pending
<1>2. RecordOutcome(op) /\ pc' = pc
  BY DEF FinishOp, loopVars
<1> QED BY <1>1, <1>2, RecordOutcomeCounts DEF GatherInv

LEMMA CountStep == CountInv /\ [Next]_vars => CountInv'
<1> SUFFICES ASSUME CountInv, [Next]_vars PROVE EveryOpCountedOnce'
  BY GatherStep DEF CountInv
<1> USE DEF CountInv
<1>0. TypeOK /\ IsFiniteSet(inflight) /\ Cardinality(inflight) \in Nat
      /\ Counted \in Counters
  BY InflightIsFinite, CountedType DEF GatherInv
<1>1. ASSUME NEW op \in inflight, FinishOp(op) PROVE EveryOpCountedOnce'
  <2>1. PICK outcome \in Ledger!Outcomes : Counted' = Ledger!Add(Counted, outcome)
    BY <1>1, FinishOpCounts
  <2>2. TotalOf(Counted') = TotalOf(Counted) + 1
    BY <1>0, <2>1 DEF Ledger!Outcomes, Ledger!Add, TotalOf, Counters
  <2>3. Cardinality(inflight \ {op}) = Cardinality(inflight) - 1
    BY <1>0, FS_RemoveElement
  <2>4. inflight' = inflight \ {op} /\ acquired' = acquired
    BY <1>1 DEF FinishOp
  <2>5. TotalOf(Counted) \in Nat
    BY <1>0 DEF TotalOf, Counters
  <2> QED BY <1>0, <2>2, <2>3, <2>4, <2>5 DEF EveryOpCountedOnce, TotalOf
<1>2. CASE StartOp
  <2>1. acquired \notin inflight /\ acquired \in Nat
    BY <1>0 DEF TypeOK
  <2>2. Cardinality(inflight \cup {acquired}) = Cardinality(inflight) + 1
    BY <1>0, <2>1, FS_AddElement
  <2>3. inflight' = inflight \cup {acquired} /\ acquired' = acquired + 1
    BY <1>2 DEF StartOp
  <2>4. Counted' = Counted
    BY <1>2 DEF StartOp, collectorVars, loopVars, Counted, FinalWindowKept
  <2>5. TotalOf(Counted) \in Nat
    BY <1>0 DEF TotalOf, Counters
  <2> QED BY <1>0, <2>1, <2>2, <2>3, <2>4, <2>5 DEF EveryOpCountedOnce, TotalOf
<1>3. CASE Tick \/ LoopStep \/ Terminated
  <2>1. inflight' = inflight /\ acquired' = acquired
    BY <1>3 DEF Tick, LoopStep, Terminated, Pass, LiveSetReturned, SnapshotPublished,
                Wake, StopIssuing, Finish, opVars, vars
  <2>2. Counted' = Counted
    <3>1. ASSUME NEW op \in inflight, FinishOp(op) PROVE FALSE
      BY <1>0, <2>1, <3>1 DEF FinishOp
    <3> QED BY <1>0, <1>3, <3>1, CountedStep DEF Next
  <2> QED BY <2>1, <2>2 DEF EveryOpCountedOnce, TotalOf
<1>4. CASE UNCHANGED vars
  BY <1>4 DEF vars, collectorVars, opVars, loopVars, Counted, FinalWindowKept,
              EveryOpCountedOnce, TotalOf
<1> QED BY <1>1, <1>2, <1>3, <1>4 DEF Next

(* Whatever the interleaving of operations, flushes and pruning: an        *)
(* operation that has finished is counted exactly once, and when           *)
(* run_traffic returns every operation it issued has been counted.         *)
THEOREM CountedOnce ==
  Spec => [](EveryOpCountedOnce /\ (pc = "done" => TotalOf(Counted) = opCounter))
<1>1. Spec => []CountInv
  BY CountInit, CountStep, PTL DEF Spec
<1>2. CountInv => EveryOpCountedOnce /\ (pc = "done" => TotalOf(Counted) = opCounter)
  <2> SUFFICES ASSUME CountInv, pc = "done" PROVE TotalOf(Counted) = opCounter
    BY DEF CountInv
  <2>1. inflight = {} /\ acquired .. (opCounter - 1) = {}
    BY DEF CountInv, GatherInv, DoneIsQuiet, Pending
  <2>2. acquired = opCounter
    BY <2>1 DEF CountInv, GatherInv, TypeOK
  <2>3. TotalOf(Counted) + 0 = acquired /\ TotalOf(Counted) \in Nat
    BY <2>1, FS_EmptySet, CountedType
    DEF CountInv, GatherInv, EveryOpCountedOnce, TotalOf, Counters
  <2> QED BY <2>2, <2>3
<1> QED BY <1>1, <1>2, PTL

-----------------------------------------------------------------------------
(* The worker implements the operation ledger.                             *)

LEMMA LedgerInitial == Init => Ledger!LedgerInit
BY DEF Init, InitCollector, Ledger!LedgerInit, Counted, PlusCounts, CountsOf, NoCounts,
       EmptyWindow

LEMMA LedgerStep == CountInv /\ [Next]_vars => [Ledger!LedgerNext]_(Ledger!ledgerVars)
<1> SUFFICES ASSUME CountInv, [Next]_vars
             PROVE  [Ledger!LedgerNext]_(Ledger!ledgerVars)
  OBVIOUS
<1>0. /\ GatherInv /\ TypeOK
      /\ Counted \in Counters /\ TotalOf(Counted) \in Nat
      /\ Cardinality(inflight) \in Nat
  BY InflightIsFinite, CountedType DEF CountInv, GatherInv, TotalOf, Counters
<1>1. ASSUME NEW op \in inflight, FinishOp(op) PROVE Ledger!LedgerNext
  <2>1. PICK outcome \in Ledger!Outcomes : Counted' = Ledger!Add(Counted, outcome)
    BY <1>0, <1>1, FinishOpCounts
  <2>2. Ledger!Total(Counted) < opCounter
    <3>1. Cardinality(inflight) # 0
      BY <1>0, <1>1, InflightIsFinite, FS_EmptySet
    <3> QED BY <1>0, <3>1
         DEF CountInv, EveryOpCountedOnce, TotalOf, Ledger!Total, TypeOK
  <2>3. pc # "done" /\ pc' = pc /\ opCounter' = opCounter /\ reported' = reported
    BY <1>0, <1>1, FinishOpCounts
    DEF FinishOp, RecordOutcome, RecordSuccess, RecordThrottle, RecordError, loopVars
  <2>4. Ledger!Count(outcome)
    BY <2>1, <2>2, <2>3 DEF Ledger!Count
  <2> QED BY <2>4 DEF Ledger!LedgerNext
<1>2. CASE Pass
  <2>1. opCounter' \in Nat /\ opCounter' >= opCounter
    <3>1. now - startTime \in Nat /\ opCounter \in Nat
      BY <1>0 DEF TypeOK, CollectorTypeOK
    <3> QED BY <1>2, <3>1, OpsInRange DEF Pass
  <2>2. pc # "done" /\ pc' # "done"
    BY <1>2 DEF Pass, PruneAndSleep
  <2>3. Counted' = Counted /\ reported' \in {reported, Counted}
    <3>1. CASE FlushDue
      BY <1>0, <1>2, <2>2, <3>1, FlushWindowKeepsCounts DEF Pass
    <3>2. CASE ~FlushDue
      BY <1>2, <2>2, <3>2 DEF Pass, collectorVars, Counted
    <3> QED BY <3>1, <3>2
  <2>4. Ledger!IssueAndPublish
    BY <2>1, <2>2, <2>3 DEF Ledger!IssueAndPublish
  <2> QED BY <2>4 DEF Ledger!LedgerNext
<1>3. CASE Finish
  <2>1. pc # "done" /\ pc' = "done" /\ opCounter' = opCounter
    BY <1>3 DEF Finish, opVars
  <2>2. Counted' = Counted /\ reported' \in {reported, Counted}
    BY <1>0, <1>3, FlushFinalKeepsCounts DEF Finish
  <2>3. Ledger!Total(Counted) = opCounter
    <3>1. inflight = {} /\ acquired .. (opCounter - 1) = {}
      BY <1>0, <1>3 DEF Finish, Gathered, GatherInv, PruneKeepsPending, Pending
    <3>2. acquired = opCounter /\ Cardinality(inflight) = 0
      BY <1>0, <3>1, FS_EmptySet DEF TypeOK
    <3> QED BY <1>0, <3>2 DEF CountInv, EveryOpCountedOnce, TotalOf, Ledger!Total
  <2>4. Ledger!Close
    BY <2>1, <2>2, <2>3 DEF Ledger!Close
  <2> QED BY <2>4 DEF Ledger!LedgerNext
<1>4. CASE Tick \/ LiveSetReturned \/ SnapshotPublished \/ Wake \/ StopIssuing
  BY <1>4 DEF Tick, LiveSetReturned, SnapshotPublished, PruneAndSleep, Wake, StopIssuing,
              collectorVars, opVars, loopVars, Counted, Ledger!ledgerVars
<1>5. CASE StartOp \/ Terminated \/ UNCHANGED vars
  BY <1>5 DEF StartOp, Terminated, vars, collectorVars, opVars, loopVars, Counted,
              FinalWindowKept, Ledger!ledgerVars
<1> QED BY <1>1, <1>2, <1>3, <1>4, <1>5 DEF Next, LoopStep

(* Every behaviour of the worker is one of the ledger: operations are      *)
(* counted one by one, at most as many as were issued, the report is only  *)
(* ever brought up to what is counted, and it is closed with everything    *)
(* issued counted and all or none of the last window in it.                *)
THEOREM WorkerKeepsLedger == Spec => LedgerKept
<1>1. Spec => []CountInv
  BY CountInit, CountStep, PTL DEF Spec
<1> QED BY <1>1, LedgerInitial, LedgerStep, PTL
        DEF Spec, LedgerKept, Ledger!LedgerSpec

-----------------------------------------------------------------------------
(* The collector's timeline.                                               *)

TimelineInv == TypeOK /\ TimelineNeverAhead

LEMMA TimelineStep == TimelineInv /\ [Next]_vars => TimelineInv'
<1> SUFFICES ASSUME TimelineInv, [Next]_vars PROVE TimelineNeverAhead'
  BY TypeStep DEF TimelineInv
<1> USE DEF TimelineInv
<1>0. /\ now \in Nat /\ elapsed \in Nat /\ windowStart \in Nat /\ windowStart <= now
      /\ timeSeries \in Seq(Snapshots) /\ ReportInterval \in Nat
  BY CollectorAssumption DEF TypeOK, CollectorTypeOK
<1>1. CASE Pass
  <2>1. CASE FlushDue
    <3>1. /\ elapsed' = elapsed + ReportInterval
          /\ windowStart' = now /\ now' = now
          /\ Len(timeSeries') = Len(timeSeries) + 1
      BY <1>0, <1>1, <2>1 DEF Pass, FlushWindow, ResetWindow, AppendSnapshot
    <3>2. now - windowStart >= ReportInterval /\ pc # "done"
      BY <1>1, <2>1 DEF Pass, FlushDue
    <3>3. elapsed <= windowStart /\ elapsed = Len(timeSeries) * ReportInterval
      BY <3>2 DEF TimelineNeverAhead
    <3>4. (Len(timeSeries) + 1) * ReportInterval =
            Len(timeSeries) * ReportInterval + ReportInterval
      BY <1>0
    <3> QED BY <1>0, <3>1, <3>2, <3>3, <3>4 DEF TimelineNeverAhead
  <2>2. CASE ~FlushDue
    BY <1>1, <2>2 DEF Pass, collectorVars, TimelineNeverAhead
  <2> QED BY <2>1, <2>2
<1>2. CASE Finish
  <2>1. elapsed <= windowStart /\ pc' = "done" /\ now' = now
    BY <1>2 DEF Finish, TimelineNeverAhead
  <2>2. elapsed' \in {elapsed, elapsed + (now - windowStart)}
    BY <1>2 DEF Finish, FlushFinal, FinalTime, AppendSnapshot
  <2> QED BY <1>0, <2>1, <2>2 DEF TimelineNeverAhead
<1>3. CASE Tick
  BY <1>0, <1>3 DEF Tick, collectorVars, loopVars, TimelineNeverAhead
<1>4. CASE LiveSetReturned \/ SnapshotPublished \/ Wake \/ StopIssuing
  BY <1>4 DEF LiveSetReturned, SnapshotPublished, PruneAndSleep, Wake, StopIssuing,
              collectorVars, TimelineNeverAhead
<1>5. ASSUME NEW op \in inflight, FinishOp(op) PROVE TimelineNeverAhead'
  BY <1>5 DEF FinishOp, RecordOutcome, RecordSuccess, RecordThrottle, RecordError,
              loopVars, TimelineNeverAhead
<1>6. CASE StartOp \/ Terminated \/ UNCHANGED vars
  BY <1>6 DEF StartOp, Terminated, vars, collectorVars, loopVars, TimelineNeverAhead
<1> QED BY <1>1, <1>2, <1>3, <1>4, <1>5, <1>6 DEF Next, LoopStep

(* The timestamps of a report never run ahead of the clock, however late   *)
(* the loop closes its windows.                                            *)
THEOREM ClockNeverAhead == Spec => []TimelineNeverAhead
<1>1. Init => TimelineInv
  <2> SUFFICES ASSUME Init PROVE TimelineNeverAhead
    BY TypeInit DEF TimelineInv
  <2>1. TypeOK /\ Len(timeSeries) = 0
    BY TypeInit DEF Init, InitCollector
  <2> QED BY <2>1, CollectorAssumption
       DEF Init, InitCollector, TimelineNeverAhead, TypeOK, CollectorTypeOK
<1>2. TimelineInv => TimelineNeverAhead
  BY DEF TimelineInv
<1> QED BY <1>1, <1>2, TimelineStep, PTL DEF Spec

-----------------------------------------------------------------------------
(* The time axis.  A window that maybe_flush closes ends a whole number of *)
(* intervals into the run; the one of flush_final ends no earlier than the *)
(* interval before it.                                                     *)

IntervalSeconds == ReportInterval \div SecondUnits

LEMMA IntervalInSeconds ==
  /\ IntervalSeconds \in Nat \ {0}
  /\ ReportInterval = IntervalSeconds * SecondUnits
<1> DEFINE r == ReportInterval  s == SecondUnits  q == IntervalSeconds
<1>1. r \in Nat \ {0} /\ s \in Nat \ {0} /\ r % s = 0
  BY CollectorAssumption
<1>2. q \in Nat
  BY <1>1, DivisionFacts DEF IntervalSeconds
<1>3. r = s * q + (r % s)
  <2> HIDE DEF r, s
  <2>1. ASSUME NEW a \in Nat, NEW b \in Nat \ {0} PROVE a = b * (a \div b) + (a % b)
    BY Z3
  <2>2. q = r \div s
    BY DEF IntervalSeconds, r, s
  <2> QED BY <1>1, <2>1, <2>2
<1>4. r = q * s
  BY <1>1, <1>2, <1>3
<1>5. q # 0
  BY <1>1, <1>2, <1>4
<1> QED BY <1>2, <1>4, <1>5

LEMMA RoundAtLeast ==
  ASSUME NEW a \in Nat, NEW k \in Nat, k * SecondUnits <= a
  PROVE  RoundDiv(a, SecondUnits) >= k
<1> DEFINE q == a \div SecondUnits
<1>1. /\ q \in Nat /\ SecondUnits \in Nat \ {0}
      /\ a < SecondUnits * q + SecondUnits
  BY DivisionFacts, CollectorAssumption
<1> HIDE DEF q
<1>2. SUFFICES ASSUME q + 1 <= k PROVE FALSE
  BY <1>1 DEF RoundDiv, q
<1>3. PICK j \in Nat : k = q + 1 + j
  BY <1>1, <1>2
<1>4. k * SecondUnits = SecondUnits * q + SecondUnits + j * SecondUnits
  BY <1>1, <1>3
<1>5. j * SecondUnits \in Nat /\ SecondUnits * q \in Nat
  BY <1>1
<1> QED BY <1>1, <1>4, <1>5

LEMMA RoundExact ==
  ASSUME NEW k \in Nat
  PROVE  RoundDiv(k * SecondUnits, SecondUnits) = k
<1> DEFINE s == SecondUnits  a == k * s
<1>1. s \in Nat \ {0} /\ a \in Nat
  BY CollectorAssumption
<1>2. ASSUME NEW n \in Nat, NEW b \in Nat \ {0}
      PROVE  (n * b) \div b = n /\ (n * b) % b = 0
  <2> DEFINE p == n * b
  <2>1. p \in Nat
    OBVIOUS
  <2>2. /\ p \div b \in Nat /\ p % b \in Nat
        /\ b * (p \div b) <= p /\ p < b * (p \div b) + b
        /\ p = b * (p \div b) + (p % b)
    <3> HIDE DEF p
    <3> QED BY <2>1, Z3
  <2> DEFINE q == p \div b
  <2>3. q \in Nat /\ b * q <= n * b /\ n * b < b * q + b /\ n * b = b * q + (p % b)
    BY <2>2
  <2> HIDE DEF q, p
  <2>4. ~(q + 1 <= n)
    <3> SUFFICES ASSUME q + 1 <= n PROVE FALSE
      OBVIOUS
    <3>1. PICK j \in Nat : n = q + 1 + j
      BY <2>3
    <3>2. n * b = b * q + b + j * b /\ j * b \in Nat /\ b * q \in Nat
      BY <2>3, <3>1
    <3> QED BY <2>3, <3>2
  <2>5. ~(n + 1 <= q)
    <3> SUFFICES ASSUME n + 1 <= q PROVE FALSE
      OBVIOUS
    <3>1. PICK j \in Nat : q = n + 1 + j
      BY <2>3
    <3>2. b * q = n * b + b + j * b /\ j * b \in Nat /\ n * b \in Nat
      BY <2>3, <3>1
    <3> QED BY <2>3, <3>2
  <2>6. q = n
    BY <2>3, <2>4, <2>5
  <2>7. p % b = 0
    <3>1. b * q = n * b /\ n * b \in Nat /\ p % b \in Nat
      BY <2>2, <2>6 DEF p
    <3> QED BY <2>3, <3>1
  <2> QED BY <2>6, <2>7 DEF p, q
<1>3. a \div s = k /\ a % s = 0
  BY <1>1, <1>2
<1> QED BY <1>1, <1>3 DEF RoundDiv

AxisInv ==
  /\ TimelineInv
  /\ \A i \in DOMAIN timeSeries :
       i < Len(timeSeries) \/ pc # "done" =>
         timeSeries[i].timestamp = i * IntervalSeconds
  /\ pc = "done" /\ timeSeries # <<>> =>
       timeSeries[Len(timeSeries)].timestamp >= (Len(timeSeries) - 1) * IntervalSeconds

LEMMA AppendedTimestamps ==
  ASSUME timeSeries \in Seq(Snapshots), NEW end, NEW length, AppendSnapshot(end, length)
  PROVE  /\ Len(timeSeries') = Len(timeSeries) + 1
         /\ \A i \in DOMAIN timeSeries : timeSeries'[i] = timeSeries[i]
         /\ timeSeries'[Len(timeSeries')].timestamp = RoundDiv(end, SecondUnits)
         /\ DOMAIN timeSeries' = 1 .. (Len(timeSeries) + 1)
BY DEF AppendSnapshot, Snapshot

LEMMA AxisStep == AxisInv /\ [Next]_vars => AxisInv'
<1> SUFFICES ASSUME AxisInv, [Next]_vars PROVE AxisInv'
  OBVIOUS
<1>0. /\ TimelineInv' /\ TimelineInv
      /\ timeSeries \in Seq(Snapshots) /\ Len(timeSeries) \in Nat
      /\ DOMAIN timeSeries = 1 .. Len(timeSeries)
      /\ now \in Nat /\ windowStart \in Nat /\ windowStart <= now /\ elapsed \in Nat
  BY TimelineStep DEF AxisInv, TimelineInv, TypeOK, CollectorTypeOK
<1>q. CASE UNCHANGED timeSeries /\ (pc = "done" <=> pc' = "done")
  BY <1>0, <1>q DEF AxisInv
<1>1. CASE Pass /\ FlushDue
  <2>1. /\ AppendSnapshot(elapsed + ReportInterval, ReportInterval)
        /\ pc # "done" /\ pc' # "done"
    BY <1>1 DEF Pass, FlushWindow, PruneAndSleep
  <2> DEFINE n == Len(timeSeries)
  <2>2. elapsed + ReportInterval = (n + 1) * IntervalSeconds * SecondUnits
    <3>1. elapsed = n * (IntervalSeconds * SecondUnits)
      BY <1>0, <2>1, IntervalInSeconds DEF TimelineInv, TimelineNeverAhead
    <3> QED BY <1>0, <3>1, IntervalInSeconds, CollectorAssumption
  <2>3. (n + 1) * IntervalSeconds \in Nat
    BY <1>0, IntervalInSeconds
  <2>4. timeSeries'[n + 1].timestamp = (n + 1) * IntervalSeconds
    BY <1>0, <2>1, <2>2, <2>3, RoundExact, AppendedTimestamps
  <2>5. \A i \in DOMAIN timeSeries' : timeSeries'[i].timestamp = i * IntervalSeconds
    <3> SUFFICES ASSUME NEW i \in DOMAIN timeSeries'
                 PROVE  timeSeries'[i].timestamp = i * IntervalSeconds
      OBVIOUS
    <3>1. i = n + 1 \/ i \in DOMAIN timeSeries
      BY <1>0, <2>1, AppendedTimestamps
    <3>2. CASE i \in DOMAIN timeSeries
      BY <1>0, <2>1, <3>2, AppendedTimestamps DEF AxisInv
    <3> QED BY <2>4, <3>1, <3>2
  <2> QED BY <1>0, <2>1, <2>5 DEF AxisInv
<1>2. CASE Finish
  <2>1. /\ pc # "done" /\ pc' = "done" /\ now' = now
        /\ IF FinalWindowKept THEN AppendSnapshot(FinalTime, now - windowStart)
                              ELSE UNCHANGED timeSeries
    BY <1>2 DEF Finish, FlushFinal
  <2> DEFINE n == Len(timeSeries)
  <2>2. CASE FinalWindowKept
    <3>1. n * IntervalSeconds \in Nat /\ FinalTime \in Nat
          /\ n * IntervalSeconds * SecondUnits <= FinalTime
      <4>1. elapsed = n * (IntervalSeconds * SecondUnits)
        BY <1>0, <2>1, IntervalInSeconds DEF TimelineInv, TimelineNeverAhead
      <4>2. n * (IntervalSeconds * SecondUnits) = n * IntervalSeconds * SecondUnits
        BY <1>0, IntervalInSeconds, CollectorAssumption
      <4>3. n * IntervalSeconds \in Nat
        BY <1>0, IntervalInSeconds
      <4> QED BY <1>0, <4>1, <4>2, <4>3 DEF FinalTime
    <3>2. timeSeries'[n + 1].timestamp >= n * IntervalSeconds
      BY <1>0, <2>1, <2>2, <3>1, RoundAtLeast, AppendedTimestamps
    <3>3. Len(timeSeries') = n + 1 /\ DOMAIN timeSeries' = 1 .. (n + 1)
      BY <1>0, <2>1, <2>2, AppendedTimestamps
    <3>4. \A i \in DOMAIN timeSeries' :
            i < Len(timeSeries') => timeSeries'[i].timestamp = i * IntervalSeconds
      <4> SUFFICES ASSUME NEW i \in DOMAIN timeSeries', i < n + 1
                   PROVE  timeSeries'[i].timestamp = i * IntervalSeconds
        BY <3>3
      <4>1. i \in DOMAIN timeSeries
        BY <1>0, <3>3
      <4> QED BY <1>0, <2>1, <2>2, <4>1, AppendedTimestamps DEF AxisInv
    <3>5. Len(timeSeries') - 1 = n
      BY <1>0, <3>3
    <3> QED BY <1>0, <2>1, <3>2, <3>3, <3>4, <3>5 DEF AxisInv
  <2>3. CASE ~FinalWindowKept
    <3>1. UNCHANGED timeSeries
      BY <2>1, <2>3
    <3>2. timeSeries # <<>> =>
            timeSeries[n].timestamp >= (n - 1) * IntervalSeconds
      <4> SUFFICES ASSUME timeSeries # <<>>
                   PROVE  timeSeries[n].timestamp >= (n - 1) * IntervalSeconds
        OBVIOUS
      <4>1. n \in DOMAIN timeSeries
        BY <1>0
      <4>2. timeSeries[n].timestamp = n * IntervalSeconds
        BY <2>1, <4>1 DEF AxisInv
      <4>3. n * IntervalSeconds = (n - 1) * IntervalSeconds + IntervalSeconds
        BY <1>0, IntervalInSeconds
      <4>4. (n - 1) * IntervalSeconds \in Int
        BY <1>0, IntervalInSeconds
      <4> QED BY <4>2, <4>3, <4>4, IntervalInSeconds
    <3> QED BY <1>0, <2>1, <3>1, <3>2 DEF AxisInv
  <2> QED BY <2>2, <2>3
<1>3. CASE Pass /\ ~FlushDue
  BY <1>3, <1>q DEF Pass, PruneAndSleep, collectorVars
<1>4. CASE Tick \/ LiveSetReturned \/ SnapshotPublished \/ Wake \/ StopIssuing
  BY <1>4, <1>q DEF Tick, LiveSetReturned, SnapshotPublished, PruneAndSleep, Wake,
                    StopIssuing, collectorVars, loopVars
<1>5. CASE \E op \in inflight : FinishOp(op)
  BY <1>5, <1>q DEF FinishOp, RecordOutcome, RecordSuccess, RecordThrottle, RecordError, loopVars
<1>6. CASE StartOp \/ Terminated \/ UNCHANGED vars
  BY <1>6, <1>q DEF StartOp, Terminated, vars, collectorVars, loopVars
<1> QED BY <1>1, <1>2, <1>3, <1>4, <1>5, <1>6 DEF Next, LoopStep

(* The snapshots of a worker's report are in time order, and at most the   *)
(* last two share a timestamp.                                             *)
THEOREM SnapshotsInOrder == Spec => []TimestampsOrdered
<1>1. Init => AxisInv
  <2> SUFFICES ASSUME Init PROVE AxisInv
    OBVIOUS
  <2>1. TypeOK /\ timeSeries = <<>> /\ pc # "done"
    BY TypeInit DEF Init, InitCollector
  <2>2. TimelineInv
    BY <2>1, CollectorAssumption
    DEF TimelineInv, Init, InitCollector, TimelineNeverAhead, TypeOK, CollectorTypeOK
  <2> QED BY <2>1, <2>2 DEF AxisInv
<1>2. AxisInv => TimestampsOrdered
  <2> SUFFICES ASSUME AxisInv, NEW i \in DOMAIN timeSeries, NEW j \in DOMAIN timeSeries, i < j
               PROVE  \/ timeSeries[i].timestamp < timeSeries[j].timestamp
                      \/ /\ timeSeries[i].timestamp = timeSeries[j].timestamp
                         /\ pc = "done" /\ j = Len(timeSeries) /\ i = j - 1
    BY DEF TimestampsOrdered
  <2> DEFINE n == Len(timeSeries)
  <2>0. /\ timeSeries \in Seq(Snapshots) /\ n \in Nat
        /\ DOMAIN timeSeries = 1 .. n /\ i \in Nat /\ j \in Nat /\ j <= n
        /\ IntervalSeconds \in Nat \ {0}
    BY IntervalInSeconds DEF AxisInv, TimelineInv, TypeOK, CollectorTypeOK
  <2>1. timeSeries[i].timestamp = i * IntervalSeconds
    BY <2>0 DEF AxisInv
  <2>2. ASSUME NEW k \in Nat, i < k
        PROVE  i * IntervalSeconds < k * IntervalSeconds
    <3>1. PICK d \in Nat : k = i + 1 + d
      BY <2>0, <2>2, k - i - 1 \in Nat
    <3>2. /\ k * IntervalSeconds = i * IntervalSeconds + IntervalSeconds + d * IntervalSeconds
          /\ d * IntervalSeconds \in Nat /\ i * IntervalSeconds \in Nat
      BY <2>0, <3>1
    <3> QED BY <2>0, <3>2
  <2>3. CASE j < n \/ pc # "done"
    BY <2>0, <2>1, <2>2, <2>3 DEF AxisInv
  <2>4. CASE j = n /\ pc = "done"
    <3>1. /\ timeSeries[i].timestamp \in Nat /\ timeSeries[j].timestamp \in Nat
          /\ timeSeries[j].timestamp >= (n - 1) * IntervalSeconds
      <4>1. timeSeries[i] \in Snapshots /\ timeSeries[j] \in Snapshots
        BY <2>0
      <4>2. timeSeries # <<>>
        BY <2>0
      <4> QED BY <2>4, <4>1, <4>2 DEF AxisInv, Snapshots
    <3>2. CASE i = n - 1
      BY <2>0, <2>1, <2>4, <3>1, <3>2
    <3>3. CASE i < n - 1
      <4>1. n - 1 \in Nat /\ i * IntervalSeconds < (n - 1) * IntervalSeconds
        BY <2>0, <2>2, <3>3
      <4>2. i * IntervalSeconds \in Nat /\ (n - 1) * IntervalSeconds \in Nat
        BY <2>0, <4>1
      <4> QED BY <2>1, <3>1, <4>1, <4>2
    <3> QED BY <2>0, <2>4, <3>2, <3>3
  <2> QED BY <2>0, <2>3, <2>4
<1> QED BY <1>1, <1>2, AxisStep, PTL DEF Spec

-----------------------------------------------------------------------------
(* The load.  What has been issued is bounded by the time at which the     *)
(* next pass can start.                                                    *)

PlanInv ==
  /\ TypeOK
  /\ pc = "loop" => opCounter <= (now - startTime) * TickShare
  /\ pc = "sleep" => /\ wakeAt <= now + 1
                     /\ startTime <= wakeAt
                     /\ opCounter <= (wakeAt - startTime) * TickShare
  /\ NeverAheadOfPlan

LEMMA TickShareType == TickShare \in Nat \ {0}
BY DivisionFacts, TrafficAssumption, CollectorAssumption DEF TickShare, GreaterOf

LEMMA TimesMonotone ==
  ASSUME NEW m \in Nat, NEW n \in Nat, m <= n
  PROVE  m * TickShare <= n * TickShare /\ (m + 1) * TickShare = m * TickShare + TickShare
<1>1. PICK k \in Nat : n = m + k
  BY n - m \in Nat
<1>2. n * TickShare = m * TickShare + k * TickShare
  BY <1>1, TickShareType
<1> QED BY <1>2, TickShareType

LEMMA PlanStep == PlanInv /\ [Next]_vars => PlanInv'
<1> SUFFICES ASSUME PlanInv, [Next]_vars PROVE PlanInv'
  OBVIOUS
<1> USE DEF PlanInv, NeverAheadOfPlan
<1>0. /\ TypeOK' /\ TickShare \in Nat /\ opCounter \in Nat
      /\ now \in Nat /\ startTime \in Nat /\ startTime <= now /\ wakeAt \in Nat
  BY TypeStep, TickShareType DEF TypeOK, CollectorTypeOK
<1> DEFINE t == now - startTime
<1>t. t \in Nat /\ t * TickShare \in Nat /\ (t + 1) * TickShare = t * TickShare + TickShare
  BY <1>0
<1>1. CASE Tick
  <2>1. now' = now + 1 /\ opCounter' = opCounter /\ startTime' = startTime
        /\ wakeAt' = wakeAt /\ pc' = pc
    BY <1>1 DEF Tick, opVars, loopVars
  <2>2. /\ t * TickShare <= (t + 1) * TickShare
        /\ (t + 1) * TickShare <= (t + 2) * TickShare
    BY <1>t, TimesMonotone
  <2>3. now' - startTime' = t + 1 /\ now' - startTime' + 1 = t + 2
    BY <1>0, <2>1
  <2>4. t * TickShare \in Nat /\ (t + 1) * TickShare \in Nat /\ (t + 2) * TickShare \in Nat
    BY <1>0
  <2>5. opCounter' <= (now' - startTime' + 1) * TickShare
    BY <1>0, <2>1, <2>2, <2>3, <2>4
  <2>6. pc' = "loop" => opCounter' <= (now' - startTime') * TickShare
    BY <1>0, <2>1, <2>2, <2>3, <2>4
  <2> QED BY <1>0, <2>1, <2>5, <2>6
<1>2. CASE Pass
  <2>1. opCounter' \in Nat /\ opCounter' <= opCounter + TickShare
    BY <1>0, <1>2, <1>t, OpsInRange DEF Pass
  <2>2. opCounter <= t * TickShare /\ now' = now /\ startTime' = startTime
    BY <1>2 DEF Pass
  <2>3. opCounter' <= (t + 1) * TickShare
    BY <1>0, <1>t, <2>1, <2>2
  <2>4. \/ pc' = "set"
        \/ pc' = "sleep" /\ wakeAt' = now + 1
    BY <1>2 DEF Pass, PruneAndSleep, TickInterval
  <2>5. now + 1 - startTime = t + 1 /\ now - startTime + 1 = t + 1
    BY <1>0
  <2>6. NeverAheadOfPlan'
    BY <2>2, <2>3, <2>5
  <2>7. pc' = "sleep" => /\ wakeAt' <= now' + 1
                         /\ startTime' <= wakeAt'
                         /\ opCounter' <= (wakeAt' - startTime') * TickShare
    <3> SUFFICES ASSUME pc' = "sleep"
                 PROVE  /\ wakeAt' <= now' + 1 /\ startTime' <= wakeAt'
                        /\ opCounter' <= (wakeAt' - startTime') * TickShare
      OBVIOUS
    <3>1. wakeAt' = now + 1
      BY <2>4
    <3>2. wakeAt' - startTime' = t + 1
      BY <1>0, <2>2, <3>1
    <3>3. opCounter' <= (wakeAt' - startTime') * TickShare
      BY <2>3, <3>2
    <3> QED BY <1>0, <2>2, <3>1, <3>3
  <2> QED BY <1>0, <2>4, <2>6, <2>7
<1>3. CASE SnapshotPublished
  <2>1. /\ opCounter' = opCounter /\ now' = now /\ startTime' = startTime
        /\ pc' = "sleep" /\ wakeAt' = now + 1
    BY <1>3 DEF SnapshotPublished, PruneAndSleep, TickInterval, opVars
  <2>2. now + 1 - startTime = t + 1
    BY <1>0
  <2> QED BY <1>0, <2>1, <2>2
<1>4. CASE Wake
  <2>1. /\ opCounter' = opCounter /\ now' = now /\ startTime' = startTime
        /\ pc' = "loop" /\ wakeAt <= now /\ startTime <= wakeAt
        /\ opCounter <= (wakeAt - startTime) * TickShare
    BY <1>0, <1>4 DEF Wake, opVars
  <2>2. wakeAt - startTime \in Nat /\ wakeAt - startTime <= t
    BY <1>0, <2>1
  <2>3. (wakeAt - startTime) * TickShare <= t * TickShare
    BY <1>t, <2>2, TimesMonotone
  <2>4. (wakeAt - startTime) * TickShare \in Nat
    BY <1>0, <2>2
  <2> QED BY <1>0, <2>1, <2>3, <2>4
<1>5. CASE LiveSetReturned \/ StopIssuing \/ Finish
  BY <1>0, <1>5 DEF LiveSetReturned, StopIssuing, Finish, opVars
<1>6. CASE StartOp \/ \E op \in inflight : FinishOp(op)
  <2>1. /\ now' = now /\ opCounter' = opCounter /\ UNCHANGED loopVars
    BY <1>6 DEF StartOp, FinishOp
  <2> QED BY <1>0, <2>1 DEF loopVars
<1>7. CASE Terminated \/ UNCHANGED vars
  BY <1>0, <1>7 DEF Terminated, vars, opVars, loopVars
<1> QED BY <1>1, <1>2, <1>3, <1>4, <1>5, <1>6, <1>7 DEF Next, LoopStep

(* However the loop is delayed, it never issues more than one tick's share *)
(* of the target per tick of the run.                                      *)
THEOREM LoadNeverAhead == Spec => []NeverAheadOfPlan
<1>1. Init => PlanInv
  <2> SUFFICES ASSUME Init PROVE PlanInv
    OBVIOUS
  <2>1. TypeOK /\ pc = "loop" /\ opCounter = 0 /\ now - startTime = 0
    BY TypeInit DEF Init, TypeOK, CollectorTypeOK
  <2>2. 0 * TickShare = 0 /\ (0 + 1) * TickShare \in Nat
    BY TickShareType
  <2> QED BY <2>1, <2>2 DEF PlanInv, NeverAheadOfPlan
<1>2. PlanInv => NeverAheadOfPlan
  BY DEF PlanInv
<1> QED BY <1>1, <1>2, PlanStep, PTL DEF Spec

-----------------------------------------------------------------------------
(* One client.                                                             *)

RefusalInv ==
  /\ TypeOK
  /\ ~Reporting => pc \notin {"set", "expire"} /\ ~liveSent
  /\ NeverRefused

LEMMA RefusalStep == RefusalInv /\ [Next]_vars => RefusalInv'
<1> SUFFICES ASSUME RefusalInv, [Next]_vars PROVE RefusalInv'
  OBVIOUS
<1> USE DEF RefusalInv
<1>0. TypeOK'
  BY TypeStep
<1>1. (~Reporting => pc \notin {"set", "expire"} /\ ~liveSent)'
  BY DEF Next, LoopStep, Tick, Pass, PruneAndSleep, LiveSetReturned, SnapshotPublished,
         Wake, StopIssuing, Finish, StartOp, FinishOp, Terminated, vars, loopVars
<1>2. NeverRefused'
  <2> SUFFICES ASSUME NumClients = 1, ~Reporting PROVE rejected' = {}
    BY DEF NeverRefused
  <2>1. rejected = {} /\ ~liveSent
    BY DEF NeverRefused
  <2>2. CASE StartOp
    <3>1. acquired \in Nat /\ InflightLimit \in Nat
      BY TrafficAssumption DEF TypeOK
    <3>2. /\ IsFiniteSet(inflight) /\ Cardinality(inflight) \in Nat
          /\ Cardinality(inflight) < InflightLimit
      <4>1. SemaphoreSize <= InflightLimit /\ SemaphoreSize \in Nat
        BY TrafficAssumption DEF SemaphoreSize, LesserOf
      <4> QED BY <2>2, <3>1, <4>1, InflightIsFinite DEF StartOp
    <3> DEFINE c == ClientOf(acquired)
               S == {op \in inflight \ rejected : ClientOf(op) = c}
    <3>3. Cardinality(S) <= Cardinality(inflight) /\ Cardinality(S) \in Nat
      <4>1. S \subseteq inflight
        OBVIOUS
      <4> QED BY <3>2, <4>1, FS_Subset, FS_CardinalityType
    <3>4. CommandsAt(c) = Cardinality(S)
      <4>1. OpsAt(c) = Cardinality(S) /\ Cardinality(S) + 0 = Cardinality(S)
        BY <3>3 DEF OpsAt
      <4> HIDE DEF S, c
      <4> QED BY <2>1, <4>1 DEF CommandsAt
    <3>5. ~(CommandsAt(c) >= InflightLimit)
      BY <3>1, <3>2, <3>3, <3>4
    <3> QED BY <2>1, <2>2, <3>5 DEF StartOp
  <2>3. CASE ~StartOp
    BY <2>1, <2>3 DEF Next, LoopStep, Tick, Pass, LiveSetReturned, SnapshotPublished,
         Wake, StopIssuing, Finish, FinishOp, Terminated, vars, opVars
  <2> QED BY <2>2, <2>3
<1> QED BY <1>0, <1>1, <1>2

(* A single client that only serves operations is never offered more than  *)
(* its limit: the semaphore is the tighter bound.                          *)
THEOREM OneClientNeverRefused == Spec => []NeverRefused
<1>1. Init => RefusalInv
  BY TypeInit DEF Init, RefusalInv, NeverRefused
<1>2. RefusalInv => NeverRefused
  BY DEF RefusalInv
<1> QED BY <1>1, <1>2, RefusalStep, PTL DEF Spec

-----------------------------------------------------------------------------
(* More clients.                                                           *)

(* When every client carries its limit, together they carry the product.   *)
LEMMA FullClientsCarry ==
  ASSUME NEW X, IsFiniteSet(X), NEW limit \in Nat,
         \A op \in X : ClientOf(op) \in 0 .. (NumClients - 1),
         \A c \in 0 .. (NumClients - 1) :
           Cardinality({op \in X : ClientOf(op) = c}) >= limit
  PROVE  Cardinality(X) >= NumClients * limit
<1> DEFINE below == [k \in Nat |-> {op \in X : ClientOf(op) < k}]
           at    == [k \in Nat |-> {op \in X : ClientOf(op) = k}]
           count == [k \in Nat |-> Cardinality(below[k])]
           short == {k \in 0 .. NumClients : count[k] < k * limit}
<1>0. NumClients \in Nat
  BY TrafficAssumption
<1>1. ASSUME NEW k \in Nat
      PROVE  /\ IsFiniteSet(below[k]) /\ count[k] = Cardinality(below[k]) /\ count[k] \in Nat
             /\ IsFiniteSet(at[k]) /\ Cardinality(at[k]) \in Nat
  <2>1. below[k] \in SUBSET X /\ at[k] \in SUBSET X
    OBVIOUS
  <2> HIDE DEF below, at
  <2> QED BY <2>1, FS_Subset, FS_CardinalityType
<1>2. ASSUME NEW k \in Nat, k + 1 <= NumClients, count[k] >= k * limit
      PROVE  count[k + 1] >= (k + 1) * limit
  <2>1. below[k + 1] = below[k] \cup at[k] /\ below[k] \cap at[k] = {}
    BY <1>0, <1>2
  <2>2. Cardinality(at[k]) >= limit
    BY <1>0, <1>2
  <2>3. Cardinality({}) = 0 /\ k + 1 \in Nat
    BY FS_EmptySet
  <2> HIDE DEF below, at, count
  <2>4. /\ count[k] = Cardinality(below[k]) /\ count[k] \in Nat
        /\ count[k + 1] = Cardinality(below[k + 1])
        /\ Cardinality(at[k]) \in Nat
        /\ IsFiniteSet(below[k]) /\ IsFiniteSet(at[k])
    BY <1>1, <2>3
  <2>5. Cardinality(below[k + 1]) = Cardinality(below[k]) + Cardinality(at[k]) - 0
    <3>1. Cardinality(below[k] \cup at[k]) =
            Cardinality(below[k]) + Cardinality(at[k]) - Cardinality(below[k] \cap at[k])
      BY <2>4, FS_Union
    <3> QED BY <2>1, <2>3, <3>1
  <2>6. (k + 1) * limit = k * limit + limit /\ k * limit \in Nat
    OBVIOUS
  <2> QED BY <1>2, <2>2, <2>4, <2>5, <2>6
<1>3. count[NumClients] = Cardinality(X)
  <2>1. below[NumClients] = X
    BY <1>0
  <2> QED BY <1>0, <1>1, <2>1
<1>4. short \in SUBSET Nat /\ \A k \in Nat : k <= NumClients /\ k \notin short => ~(count[k] < k * limit)
  BY <1>0
<1>5. \A k \in short : k \in Nat /\ k <= NumClients /\ count[k] < k * limit
  BY <1>0
<1>6. \A k \in Nat : count[k] \in Nat
  BY <1>1
<1> HIDE DEF below, at, count, short
<1>7. short = {}
  <2> SUFFICES ASSUME short # {} PROVE FALSE
    OBVIOUS
  <2>1. PICK k \in short : \A m \in short : k <= m
    BY <1>4, LeastNatural
  <2>2. k \in Nat /\ k <= NumClients /\ count[k] < k * limit /\ count[k] \in Nat
    BY <1>5, <1>6
  <2>3. k # 0
    BY <2>2
  <2>4. k - 1 \in Nat /\ k - 1 <= NumClients /\ k - 1 \notin short /\ (k - 1) + 1 = k
    BY <1>0, <2>1, <2>2, <2>3
  <2>5. ~(count[k - 1] < (k - 1) * limit) /\ count[k - 1] \in Nat
    BY <1>4, <1>6, <2>4
  <2>6. count[k - 1] >= (k - 1) * limit
    BY <2>4, <2>5
  <2>7. count[(k - 1) + 1] >= ((k - 1) + 1) * limit
    BY <1>2, <2>2, <2>4, <2>6
  <2> QED BY <2>2, <2>4, <2>7
<1>8. ~(count[NumClients] < NumClients * limit) /\ count[NumClients] \in Nat
  BY <1>0, <1>4, <1>6, <1>7
<1> QED BY <1>0, <1>3, <1>8

LEMMA ClientInRange ==
  ASSUME NEW op \in Nat
  PROVE  ClientOf(op) \in 0 .. (NumClients - 1)
BY TrafficAssumption, Z3 DEF ClientOf

(* A step refuses an operation only if a client has room left, or the      *)
(* reporting commands take a place of the first client.                    *)
LEMMA RejectedStep ==
  ASSUME TypeOK, [Next]_vars, rejected' \ rejected # {}
  PROVE  liveSent \/ \E c \in 0 .. (NumClients - 1) : OpsAt(c) < InflightLimit
<1> SUFFICES ASSUME ~liveSent,
                    \A c \in 0 .. (NumClients - 1) : ~(OpsAt(c) < InflightLimit)
             PROVE  FALSE
  OBVIOUS
<1> DEFINE sent == inflight \ rejected
<1>0. /\ NumClients \in Nat /\ InflightLimit \in Nat /\ NumClients * InflightLimit \in Nat
      /\ acquired \in Nat
  BY TrafficAssumption DEF TypeOK
<1>1. StartOp
  <2>1. ASSUME NEW op \in inflight, FinishOp(op) PROVE rejected' \subseteq rejected
    BY <2>1 DEF FinishOp
  <2> QED
    BY <2>1 DEF Next, LoopStep, Tick, Pass, LiveSetReturned, SnapshotPublished, Wake,
       StopIssuing, Finish, Terminated, vars, opVars
<1>2. /\ IsFiniteSet(inflight) /\ IsFiniteSet(sent)
      /\ Cardinality(sent) <= Cardinality(inflight)
      /\ Cardinality(sent) \in Nat /\ Cardinality(inflight) \in Nat
  <2>1. IsFiniteSet(0 .. (acquired - 1))
    BY <1>0, FS_Interval
  <2>2. inflight \in SUBSET (0 .. (acquired - 1))
    BY DEF TypeOK
  <2>3. IsFiniteSet(inflight)
    BY <2>1, <2>2, FS_Subset
  <2> QED BY <2>3, FS_Subset, FS_CardinalityType
<1>3. \A op \in sent : ClientOf(op) \in 0 .. (NumClients - 1)
  BY <1>0, ClientInRange DEF TypeOK
<1>4. \A c \in 0 .. (NumClients - 1) :
        Cardinality({op \in sent : ClientOf(op) = c}) >= InflightLimit
  <2> TAKE c \in 0 .. (NumClients - 1)
  <2> DEFINE mine == {op \in sent : ClientOf(op) = c}
  <2>1. Cardinality(mine) \in Nat
    BY <1>2, FS_Subset, FS_CardinalityType
  <2>2. OpsAt(c) = Cardinality(mine)
    BY DEF OpsAt
  <2> HIDE DEF mine
  <2>3. Cardinality(mine) >= InflightLimit
    BY <1>0, <2>1, <2>2
  <2> QED BY <2>3 DEF mine
<1> HIDE DEF sent
<1>5. Cardinality(sent) >= NumClients * InflightLimit
  BY <1>0, <1>2, <1>3, <1>4, FullClientsCarry
<1>6. Cardinality(inflight) < SemaphoreSize
  BY <1>1 DEF StartOp
<1>7. SemaphoreSize <= NumClients * InflightLimit
  BY <1>0, TrafficAssumption DEF SemaphoreSize, LesserOf
<1>8. SemaphoreSize \in Nat
  BY <1>0, TrafficAssumption DEF SemaphoreSize, LesserOf
<1> QED BY <1>0, <1>2, <1>5, <1>6, <1>7, <1>8

(* The clients refuse an operation only while the load is spread unevenly: *)
(* some client carries less than its limit, or reporting holds a place.    *)
THEOREM RefusalsAreLocal == Spec => RefusedOnlyWhileUnbalanced
<1>1. TypeOK /\ [Next]_vars =>
        [rejected' \ rejected # {} =>
           liveSent \/ \E c \in 0 .. (NumClients - 1) : OpsAt(c) < InflightLimit]_vars
  BY RejectedStep
<1>2. Spec => []TypeOK
  BY TypeInit, TypeStep, PTL DEF Spec
<1> QED BY <1>1, <1>2, PTL DEF Spec, RefusedOnlyWhileUnbalanced

-----------------------------------------------------------------------------
(* The report adds up.                                                     *)

(* The columns of a time series, which build_summary adds up.              *)
Successes(series) == [i \in DOMAIN series |-> series[i].success]
Throttles(series) == [i \in DOMAIN series |-> series[i].throttle]
Errors(series)    == [i \in DOMAIN series |-> series[i].error]

LEMMA SummaryAddsColumns ==
  BuildSummary = [success  |-> SumFunction(Successes(timeSeries)),
                  throttle |-> SumFunction(Throttles(timeSeries)),
                  error    |-> SumFunction(Errors(timeSeries))]
BY DEF BuildSummary, Successes, Throttles, Errors

(* A snapshot more adds its field to a column's sum.                       *)
LEMMA ColumnGrows ==
  ASSUME NEW n \in Nat, NEW f \in [1 .. n -> Nat], NEW e \in [1 .. (n + 1) -> Nat],
         \A i \in 1 .. n : e[i] = f[i]
  PROVE  SumFunction(e) = SumFunction(f) + e[n + 1]
<1>1. DOMAIN f = 1 .. n /\ DOMAIN e = 1 .. (n + 1) /\ n + 1 \in 1 .. (n + 1)
  OBVIOUS
<1>2. e[n + 1] \in Nat /\ \A i \in 1 .. n : f[i] \in Nat
  BY <1>1
<1> QED BY <1>1, <1>2, SumOfLonger DEF SumFunction

LEMMA SummaryGrows ==
  ASSUME CollectorTypeOK, NEW x \in Snapshots,
         timeSeries' = Append(timeSeries, x)
  PROVE  BuildSummary' = PlusCounts(BuildSummary, CountsOf(x))
<1> DEFINE n == Len(timeSeries)
<1>1. /\ n \in Nat /\ timeSeries \in Seq(Snapshots)
      /\ DOMAIN timeSeries = 1 .. n
      /\ DOMAIN timeSeries' = 1 .. (n + 1)
      /\ timeSeries'[n + 1] = x
      /\ \A i \in 1 .. n : timeSeries[i] \in Snapshots /\ timeSeries'[i] = timeSeries[i]
  BY DEF CollectorTypeOK
<1> HIDE DEF n
<1>2. \A i \in 1 .. (n + 1) : i \in 1 .. n \/ i = n + 1
  BY <1>1
<1>3. \A i \in 1 .. (n + 1) : timeSeries'[i] \in Snapshots
  BY <1>1, <1>2
<1>4. SumFunction(Successes(timeSeries')) = SumFunction(Successes(timeSeries)) + x.success
  <2> DEFINE f == Successes(timeSeries)  e == Successes(timeSeries')
  <2>1. f \in [1 .. n -> Nat] /\ e \in [1 .. (n + 1) -> Nat]
    BY <1>1, <1>3 DEF Successes, Snapshots
  <2>2. e[n + 1] = x.success /\ \A i \in 1 .. n : e[i] = f[i]
    BY <1>1 DEF Successes
  <2> HIDE DEF f, e
  <2>3. SumFunction(e) = SumFunction(f) + e[n + 1]
    BY <1>1, <2>1, <2>2, ColumnGrows
  <2> QED BY <2>2, <2>3 DEF f, e
<1>5. SumFunction(Throttles(timeSeries')) = SumFunction(Throttles(timeSeries)) + x.throttle
  <2> DEFINE f == Throttles(timeSeries)  e == Throttles(timeSeries')
  <2>1. f \in [1 .. n -> Nat] /\ e \in [1 .. (n + 1) -> Nat]
    BY <1>1, <1>3 DEF Throttles, Snapshots
  <2>2. e[n + 1] = x.throttle /\ \A i \in 1 .. n : e[i] = f[i]
    BY <1>1 DEF Throttles
  <2> HIDE DEF f, e
  <2>3. SumFunction(e) = SumFunction(f) + e[n + 1]
    BY <1>1, <2>1, <2>2, ColumnGrows
  <2> QED BY <2>2, <2>3 DEF f, e
<1>6. SumFunction(Errors(timeSeries')) = SumFunction(Errors(timeSeries)) + x.error
  <2> DEFINE f == Errors(timeSeries)  e == Errors(timeSeries')
  <2>1. f \in [1 .. n -> Nat] /\ e \in [1 .. (n + 1) -> Nat]
    BY <1>1, <1>3 DEF Errors, Snapshots
  <2>2. e[n + 1] = x.error /\ \A i \in 1 .. n : e[i] = f[i]
    BY <1>1 DEF Errors
  <2> HIDE DEF f, e
  <2>3. SumFunction(e) = SumFunction(f) + e[n + 1]
    BY <1>1, <2>1, <2>2, ColumnGrows
  <2> QED BY <2>2, <2>3 DEF f, e
<1>7. BuildSummary' = [success  |-> SumFunction(Successes(timeSeries')),
                       throttle |-> SumFunction(Throttles(timeSeries')),
                       error    |-> SumFunction(Errors(timeSeries'))]
  BY DEF BuildSummary, Successes, Throttles, Errors
<1> QED BY <1>4, <1>5, <1>6, <1>7, SummaryAddsColumns DEF PlusCounts, CountsOf

(* A window's histogram holds its successes, and so does that of every     *)
(* snapshot; the report's counters are the sums over its snapshots.        *)
Balanced(w) == SumFunction(w.histogram) = w.success
SumInv == TypeOK /\ ReportAddsUp /\ Balanced(current)

LEMMA EmptyIsBalanced == Balanced(EmptyWindow)
<1> DEFINE zeros == [b \in Buckets |-> 0]
<1>1. EmptyWindow.histogram = zeros /\ EmptyWindow.success = 0
  BY DEF EmptyWindow
<1>2. DOMAIN zeros = Buckets /\ \A b \in Buckets : zeros[b] = 0
  OBVIOUS
<1> HIDE DEF zeros
<1>3. SumFunctionOnSet(zeros, Buckets) = 0
  BY <1>2, CollectorAssumption, SumOfZeros
<1> QED BY <1>1, <1>2, <1>3 DEF Balanced, SumFunction

LEMMA SumInit == Init => SumInv
<1> SUFFICES ASSUME Init PROVE SumInv
  OBVIOUS
<1>1. timeSeries = <<>> /\ current = EmptyWindow /\ reported = NoCounts
  BY DEF Init, InitCollector
<1>2. DOMAIN timeSeries = {}
  BY <1>1
<1>3. /\ SumFunction(Successes(timeSeries)) = 0
      /\ SumFunction(Throttles(timeSeries)) = 0
      /\ SumFunction(Errors(timeSeries)) = 0
  BY <1>2, SumOverNothing DEF SumFunction, Successes, Throttles, Errors
<1>4. ReportAddsUp
  BY <1>1, <1>2, <1>3, SummaryAddsColumns DEF ReportAddsUp, NoCounts
<1> QED BY <1>1, <1>4, TypeInit, EmptyIsBalanced DEF SumInv

LEMMA AppendBalances ==
  ASSUME SumInv, NEW end \in Nat, NEW length \in Nat \ {0}, AppendSnapshot(end, length)
  PROVE  ReportAddsUp'
<1> DEFINE x == Snapshot(current, end, length)
<1>1. /\ x \in Snapshots
      /\ CountsOf(x) = CountsOf(current)
      /\ x.histogram = current.histogram /\ x.success = current.success
  BY SnapshotType DEF SumInv, TypeOK, CollectorTypeOK, Snapshot, CountsOf
<1>2. timeSeries' = Append(timeSeries, x) /\ reported' = PlusCounts(reported, CountsOf(current))
  BY DEF AppendSnapshot
<1> HIDE DEF x
<1>3. BuildSummary' = reported'
  BY <1>1, <1>2, SummaryGrows DEF SumInv, TypeOK, ReportAddsUp
<1>4. ASSUME NEW i \in DOMAIN timeSeries'
      PROVE  SumFunction(timeSeries'[i].histogram) = timeSeries'[i].success
  <2>1. /\ i \in DOMAIN timeSeries /\ timeSeries'[i] = timeSeries[i]
        \/ timeSeries'[i] = x
    BY <1>1, <1>2, <1>4 DEF SumInv, TypeOK, CollectorTypeOK
  <2> QED BY <1>1, <2>1 DEF SumInv, ReportAddsUp, Balanced
<1> QED BY <1>3, <1>4 DEF ReportAddsUp

LEMMA RecordBalances ==
  ASSUME SumInv, NEW op, RecordOutcome(op)
  PROVE  ReportAddsUp' /\ Balanced(current)'
<1>1. UNCHANGED <<timeSeries, reported>>
  BY DEF RecordOutcome, RecordSuccess, RecordThrottle, RecordError
<1>2. ReportAddsUp'
  BY <1>1 DEF SumInv, ReportAddsUp, BuildSummary
<1>3. ASSUME NEW b \in Buckets, RecordSuccess(b) PROVE Balanced(current)'
  <2> DEFINE h == current.histogram
  <2>1. h \in [Buckets -> Nat] /\ current.success \in Nat /\ current \in WindowMetrics
    BY DEF SumInv, TypeOK, CollectorTypeOK, WindowMetrics
  <2>2. /\ current'.histogram = [h EXCEPT ![b] = @ + 1]
        /\ current'.success = current.success + 1
    BY <1>3, <2>1 DEF RecordSuccess, WindowMetrics
  <2>3. DOMAIN [h EXCEPT ![b] = @ + 1] = Buckets /\ DOMAIN h = Buckets
    BY <2>1
  <2>4. SumFunctionOnSet([h EXCEPT ![b] = @ + 1], Buckets) = SumFunctionOnSet(h, Buckets) + 1
    BY <2>1, CollectorAssumption, SumOfIncrement
  <2>5. SumFunctionOnSet(h, Buckets) = current.success
    BY <2>3 DEF SumInv, Balanced, SumFunction
  <2> HIDE DEF h
  <2> QED BY <2>2, <2>3, <2>4, <2>5 DEF Balanced, SumFunction
<1>4. CASE RecordThrottle \/ RecordError
  <2>1. current \in WindowMetrics
    BY DEF SumInv, TypeOK, CollectorTypeOK
  <2>2. current'.histogram = current.histogram /\ current'.success = current.success
    BY <1>4, <2>1 DEF RecordThrottle, RecordError, WindowMetrics
  <2> QED BY <1>2, <2>2 DEF SumInv, Balanced
<1> QED BY <1>2, <1>3, <1>4 DEF RecordOutcome

LEMMA SumStep == SumInv /\ [Next]_vars => SumInv'
<1> SUFFICES ASSUME SumInv, [Next]_vars PROVE ReportAddsUp' /\ Balanced(current)'
  BY TypeStep DEF SumInv
<1>1. ASSUME UNCHANGED collectorVars PROVE ReportAddsUp' /\ Balanced(current)'
  BY <1>1 DEF collectorVars, SumInv, ReportAddsUp, BuildSummary, Balanced
<1>2. CASE FlushWindow
  <2>1. elapsed + ReportInterval \in Nat /\ ReportInterval \in Nat \ {0}
    BY CollectorAssumption DEF SumInv, TypeOK, CollectorTypeOK
  <2>2. ReportAddsUp'
    BY <1>2, <2>1, AppendBalances DEF FlushWindow
  <2>3. current' = EmptyWindow
    BY <1>2 DEF FlushWindow, ResetWindow
  <2> QED BY <2>2, <2>3, EmptyIsBalanced DEF Balanced
<1>3. CASE FlushFinal
  <2>1. CASE FinalWindowKept
    <3>1. elapsed + (now - windowStart) \in Nat /\ now - windowStart \in Nat \ {0}
      BY <2>1, CollectorAssumption DEF SumInv, TypeOK, CollectorTypeOK, FinalWindowKept
    <3>2. ReportAddsUp'
      BY <1>3, <2>1, <3>1, AppendBalances DEF FlushFinal, FinalTime
    <3> QED BY <1>3, <3>2 DEF FlushFinal, SumInv, Balanced
  <2>2. CASE ~FinalWindowKept
    BY <1>1, <1>3, <2>2 DEF FlushFinal, collectorVars
  <2> QED BY <2>1, <2>2
<1>4. ASSUME NEW op \in inflight, FinishOp(op) PROVE ReportAddsUp' /\ Balanced(current)'
  BY <1>4, RecordBalances DEF FinishOp
<1>5. CASE Pass
  BY <1>1, <1>2, <1>5 DEF Pass
<1>6. CASE Finish
  BY <1>3, <1>6 DEF Finish
<1>7. CASE Tick \/ LiveSetReturned \/ SnapshotPublished \/ Wake \/ StopIssuing \/ StartOp
           \/ UNCHANGED vars
  BY <1>1, <1>7
  DEF Tick, LiveSetReturned, SnapshotPublished, Wake, StopIssuing, StartOp, vars
<1> QED BY <1>4, <1>5, <1>6, <1>7 DEF Next, LoopStep, Terminated

(* The report of a worker adds up: its summary is what the snapshots of    *)
(* its windows reported, and each snapshot's histogram holds its successes.*)
THEOREM ReportAdds == Spec => []ReportAddsUp
<1>1. SumInv => ReportAddsUp
  BY DEF SumInv
<1> QED BY <1>1, SumInit, SumStep, PTL DEF Spec
=============================================================================
