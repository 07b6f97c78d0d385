\* Four calls under one key, sent before and after the activation.
CONSTANTS
  Requests = {r1, r2, r3, r4}
  Keys = {k1}
  Operations = {o1, o2}
  Hashes = {h1, h2}
SPECIFICATION Spec
SYMMETRY Interchangeable
INVARIANTS
  TypeOK
  OneGuardedExecution
  UnresolvedStays
  ReplayBindsRequest
PROPERTIES
  CompletedIsReplayed
CHECK_DEADLOCK FALSE
