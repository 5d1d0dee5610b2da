SPECIFICATION Spec
CONSTANTS
  n1 = n1
  n2 = n2
  c1 = c1
  c2 = c2
  Node = {n1, n2}
  Writer = {c1}
  Reader = {c2}
  Nil = Nil
  Empty = Empty
  Long = Long
  Malformed = Malformed
  Key <- Keys
  Val <- Vals
  MaxReigns = 2
  MaxEntries = 3
  MaxRestarts = 1
  MaxUnsaved = 1
VIEW View
SYMMETRY Symmetry
INVARIANTS
  StateIsExpected
  ReadsOwnAcks
  SettledLeaderIsCurrent
CHECK_DEADLOCK FALSE
