SPECIFICATION FairSpec
CONSTANTS
  Sources = {s1, s2}
  Contents = {a}
  Uploads = {u1}
  Readers = {q1}
  Servers = {n1, n2}
  None = None
  SweepLimit = 1
  MaxOwners = 2
  MaxChanges = 3
  MaxFailures = 1
INVARIANTS
  ErasedStaysErased
  ReadsRespectDenial
PROPERTIES
  ProtectedBytesStay
  DeniedGainsNothing
  EveryErasureEnds
CHECK_DEADLOCK FALSE
