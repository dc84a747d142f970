SPECIFICATION FairSpec
CONSTANTS
  MaxRuns = 2
  MaxInFlight <- InFlightBound
  Scenarios = {s1, s2}
  Boot = s1
INVARIANTS
  OutcomesAreTrue
  ButtonNotStuck
  OnePoller
  OneTestShown
PROPERTIES
  PatientPolls
  RunningEnds
