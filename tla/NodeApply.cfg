SPECIFICATION Spec
CONSTANTS
  Handler = {h1, h2}
  MaxIndex = 3
  Threshold = 1
  Keep = 1
  Refused = {2, 4}
  MaxCrashes = 1
  MaxFaults = 1
INVARIANTS
  StateIsPrefix
  MarkerCovered
PROPERTIES
  IndexesNeverFall
  CommittedApplied
  LogGetsCompacted
CHECK_DEADLOCK FALSE
