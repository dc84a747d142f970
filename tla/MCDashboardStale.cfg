SPECIFICATION Spec
CONSTANTS
  MaxRuns = 2
  MaxInFlight <- InFlightBound
  Scenarios = {s1, s2}
  Boot = s1
PROPERTIES
  PollsForCompletion
