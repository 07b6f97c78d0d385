\* A parent is written while a command on its child is gated.
CONSTANTS
  Versions = {v1, v2}
  Keys = {k}
  Values = {a, b}
  PromiseKeys = {}
  CounterKeys = {}
  Commands = {c1}
  MaxSeq = 2
  MaxAttempts = 1
  MaxBatch = 1
  MaxCount = 0
  Growth = "any"
SPECIFICATION Spec
INVARIANTS
  SnapshotFresh
CHECK_DEADLOCK FALSE
