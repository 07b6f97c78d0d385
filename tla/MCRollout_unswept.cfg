\* A replica restarts while the datastore serves the scope.
CONSTANTS
  Versions = {v1}
  Nodes = {n1}
  Operators = {o1}
  None = None
  MaxGeneration = 1
  MaxFaults = 1
SPECIFICATION Spec
INVARIANTS AdmitsOnlySwept
