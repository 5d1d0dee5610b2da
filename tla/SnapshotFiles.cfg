SPECIFICATION Spec
CONSTANTS
  worker = worker
  h1 = h1
  h2 = h2
  Saver = {worker, h1, h2}
  Handler = {h1, h2}
  Offered <- SharedIndexes
  Keep = 1
  MaxKills = 1
  MaxLosses = 1
  MaxFailures = 1
  MaxSaves = 3
  Absent = Absent
  Broken = Broken
  Torn = Torn
VIEW View
SYMMETRY Symmetry
INVARIANTS
  LogCovered
  RightContent
CHECK_DEADLOCK FALSE
