\* A gated command racing direct writes over a growing tree of versions.
CONSTANTS
  Versions = {v1, v2, v3}
  Keys = {k}
  Values = {a}
  PromiseKeys = {}
  CounterKeys = {}
  Commands = {c1}
  MaxSeq = 2
  MaxAttempts = 2
  MaxBatch = 1
  MaxCount = 0
  Growth = "tree"
SPECIFICATION Spec
SYMMETRY Interchangeable
INVARIANTS
  SnapshotFresh
PROPERTIES
  PinnedFactsStable
  PinnedAnchorsStable
CONSTRAINT OneLineage
