\* The reservations of one call, corrected by racing operators.
CONSTANTS
  Calls = {c1}
  Tiers = {fast}
  TierLimit = {2}
  TotalLimit = {2}
  MaxUnits = 2
  MaxAttempts = 1
  Days = 1
  Corrections = {k1, k2}
SPECIFICATION Spec
SYMMETRY Interchangeable
INVARIANTS
  NeverUndercounted
  CorrectionsChain
CHECK_DEADLOCK FALSE
