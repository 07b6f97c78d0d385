\* Two calls with retries against the caps of a tier and of the config, over midnight.
CONSTANTS
  Calls = {c1, c2}
  Tiers = {fast}
  TierLimit = {1}
  TotalLimit = {2}
  MaxUnits = 1
  MaxAttempts = 2
  Days = 2
  Corrections = {}
SPECIFICATION Spec
SYMMETRY Interchangeable
INVARIANTS
  TypeOK
  WithinLimit
  SpentNeverFree
PROPERTIES
  FirstSettlementWins
CHECK_DEADLOCK FALSE
