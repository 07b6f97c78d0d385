\* One replica, one operator and two versions, with a fault.
CONSTANTS
  Versions = {v1, v2}
  Nodes = {n1}
  Operators = {o1}
  None = None
  MaxGeneration = 2
  MaxFaults = 1
SPECIFICATION FairSpec
INVARIANTS  BlockersWereActive ReadyMeansOpen
PROPERTIES EventuallyAdmits
