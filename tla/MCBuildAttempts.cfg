SPECIFICATION Spec
CONSTANTS
  n1 = n1
  n2 = n2
  b1 = b1
  b2 = b2
  None = None
  Artifacts = {a1, a2}
  MaxGeneration = 1
  Nodes = {n1, n2}
  Builds = {b1, b2}
  NodeOf <- MCNodeOf
  MaxCrashes = 1
INVARIANTS EndedWellIsServable
PROPERTIES EndedStays ImplementsLife
CHECK_DEADLOCK FALSE
SYMMETRY MCSymmetry
