SPECIFICATION CatchUpSpec
CONSTANTS
  n1 = n1
  n2 = n2
  n3 = n3
  v1 = v1
  v2 = v2
  Node = {n1, n2, n3}
  Value = {v1, v2}
  Link <- ViaN2
  Submitted <- NoClients
  NoOp = NoOp
  Nil = Nil
  Electable <- Nobody
  MaxTerm = 3
  MaxLog = 4
  MaxApplied <- NoneApplied
  Faulty = {}
  MaxBatch = 1
  MaxRpcs = 2
  MaxLate = 0
  MaxFaults = 0
  MaxCrashes = 0
  MaxSnapshots = 0
PROPERTIES
  FollowersCatchUp
CHECK_DEADLOCK FALSE
