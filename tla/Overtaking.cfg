SPECIFICATION Spec
CONSTANTS
  n1 = n1
  n2 = n2
  n3 = n3
  v1 = v1
  v2 = v2
  Node = {n1, n2, n3}
  Value = {v1, v2}
  Link <- ViaN3
  Submitted <- NoClients
  NoOp = NoOp
  Nil = Nil
  Electable <- Overtaking
  MaxTerm = 4
  MaxLog = 2
  MaxApplied <- NoneApplied
  Faulty = {n3}
  MaxBatch = 1
  MaxRpcs = 1
  MaxLate = 1
  MaxFaults = 0
  MaxCrashes = 1
  MaxSnapshots = 0
VIEW View
CONSTRAINT LateOrCrash
INVARIANTS
  ElectionSafety
  LeaderCompleteness
  LogMatching
  MatchIndexTruth
  CommittedDurable
CHECK_DEADLOCK FALSE
