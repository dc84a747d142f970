SPECIFICATION Spec
CONSTANTS
  NumWorkers = 2
  MaxWindows <- TwoWindowsAndOne
  MaxFailures = 1
  Failing = {"connected", "live"}
  Retries = 1
  ReadBound = 3
INVARIANTS
  NoKeyForever
  WholeFleetIsCounted
  AnswersAreFresh
  CountedWorkersAreTraced
