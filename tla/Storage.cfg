SPECIFICATION Spec
CONSTANTS
  PerSegment = 2
  MaxTerm = 2
  MaxIndex = 3
  MaxSaves = 5
  MaxFaults = 2
  MaxCrashes = 2
  MaxTorn = 1
  MaxKept = 1
  Former <- FormerStates
CONSTRAINT TwoMishaps
INVARIANTS
  TypeOK
  SavedIsLoaded
  CommittedSurvives
  CommittedOnDisk
CHECK_DEADLOCK FALSE
