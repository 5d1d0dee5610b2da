SPECIFICATION Spec
CONSTANTS
  n1 = n1
  n2 = n2
  n3 = n3
  n4 = n4
  n5 = n5
  v1 = v1
  Node = {n1, n2, n3, n4, n5}
  Value = {v1}
  Link <- Links
  Submitted <- AskN1
  NoOp = NoOp
  Nil = Nil
  Electable <- TwoLeaders
  MaxTerm = 2
  MaxLog = 2
  MaxApplied <- NoneApplied
  Faulty = {n5}
  MaxBatch = 1
  MaxRpcs = 1
  MaxLate = 0
  MaxFaults = 1
  MaxCrashes = 1
  MaxSnapshots = 0
CONSTRAINT InOrder
INVARIANTS
  AppliedConsistently
CHECK_DEADLOCK FALSE
