\* Gated commands, with batches and retries, among every kind of direct
\* write along a line of versions.
CONSTANTS
  Versions = {v1, v2, v3}
  Keys = {k}
  Values = {a, b}
  PromiseKeys = {p}
  CounterKeys = {n}
  Commands = {c1}
  MaxSeq = 2
  MaxAttempts = 2
  MaxBatch = 2
  MaxCount = 0
  Growth = "line"
SPECIFICATION Spec
SYMMETRY Interchangeable
CONSTRAINT OneLineage
INVARIANTS
  TypeOK
  AcceptedRespectsCanon
  DisputeExplained
  OneTickPerWrite
PROPERTIES
  PinnedPromisesStable
CHECK_DEADLOCK FALSE
