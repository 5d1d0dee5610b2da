SPECIFICATION Spec
CONSTANTS
  n1 = n1
  n2 = n2
  n3 = n3
  v1 = v1
  v2 = v2
  Node = {n1, n2, n3}
  Value = {v1, v2}
  Link <- ViaN1
  Submitted <- AskN1
  NoOp = NoOp
  Nil = Nil
  Electable <- Alternating
  MaxTerm = 2
  MaxLog = 2
  MaxApplied <- N1Applies
  Faulty = {n2}
  MaxBatch = 1
  MaxRpcs = 1
  MaxLate = 0
  MaxFaults = 1
  MaxCrashes = 1
  MaxSnapshots = 1
VIEW View
CONSTRAINT OneDisturbance
INVARIANTS
  TypeOK
  PromiseKept
  SnapshotCoversLog
  IndexOrder
  StateMachineSafety
  AckSafety
PROPERTIES
  ImplementsElection
CHECK_DEADLOCK FALSE
