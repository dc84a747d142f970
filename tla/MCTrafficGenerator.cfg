SPECIFICATION FairSpec
CONSTANTS
  Buckets = {1, 2}
  SecondUnits = 3
  ReportInterval = 3
  MinFinalWindow = 1
  NumClients = 2
  InflightLimit = 1
  SemaphoreCap = 3
  Duration = 4
  MaxRps = 3
  Pattern = "step"
  PruneThreshold = 1
  Reporting = TRUE
  MaxSetup = 1
  MaxNow = 6
INVARIANTS
  EveryOpCountedOnce
  PruneKeepsPending
  TimestampsOrdered
  ReportAddsUp
  NeverAheadOfPlan
PROPERTIES
  RefusedOnlyWhileUnbalanced
  LedgerKept
  RunEnds
