\* Three builders, two jobs, and one loss less than there are attempts.
CONSTANTS
  Jobs = {j1, j2}
  Targets = {t1, t2}
  Builders = {b1, b2, b3}
  MaxAttempts = 3
  MaxLosses = 2
SPECIFICATION FairSpec
INVARIANTS
  TypeOK
  OutcomeOfLastClaim
PROPERTIES
  EndsAreFinal
  EveryJobEnds
CHECK_DEADLOCK FALSE
