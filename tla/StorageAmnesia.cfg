SPECIFICATION Spec
CONSTANTS
  PerSegment = 2
  MaxTerm = 2
  MaxIndex = 2
  MaxSaves = 4
  MaxFaults = 0
  MaxCrashes = 1
  MaxTorn = 0
  MaxKept = 0
  Former = {}
INVARIANTS
  HardStateKept
CHECK_DEADLOCK FALSE
