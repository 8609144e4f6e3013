SPECIFICATION Spec
CONSTANTS
  MaxSeq = 4
  MAX_ATTEMPTS = 3
INVARIANTS
  TypeOK
  HoldsAtFirstHole
  AttemptsMatchFailures
