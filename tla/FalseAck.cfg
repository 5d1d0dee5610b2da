SPECIFICATION Spec
CONSTANTS
  n1 = n1
  n2 = n2
  n3 = n3
  v1 = v1
  v2 = v2
  Node = {n1, n2, n3}
  Value = {v1, v2}
  Link <- ViaN2
  Submitted <- AskN1
  NoOp = NoOp
  Nil = Nil
  Electable <- Alternating
  MaxTerm = 3
  MaxLog = 1
  MaxApplied <- N1Applies
  Faulty = {}
  MaxBatch = 1
  MaxRpcs = 1
  MaxLate = 0
  MaxFaults = 0
  MaxCrashes = 0
  MaxSnapshots = 0
VIEW View
INVARIANTS
  AckedImpliesChosen
CHECK_DEADLOCK FALSE
