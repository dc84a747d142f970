SPECIFICATION Spec
CONSTANTS
  NumBuckets = 3
  W1 = w1
  W2 = w2
  Workers = {w1, w2}
  EcpuPerRequest = 1
  ClientsPerWorker = 1
  BoundMs <- SmallBounds
  TiesUp = {}
  Windows <- SmallWindows
  MaxWindows <- SeriesBounds
INVARIANTS
  SummaryAgreesWithSeries
  PercentilesAreRanks
  LiveAgreesWithReport
  ResolutionsFollowStarts
CHECK_DEADLOCK FALSE
