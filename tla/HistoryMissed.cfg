SPECIFICATION Spec
CONSTANTS
  d1 = d1
  d2 = d2
  a = a
  b = b
  m1 = m1
  m2 = m2
  Device = {d1, d2}
  Op = {a, b}
  Message = {m1, m2}
  KindOf <- Kinds
  Inputs <- Both
  Scenes <- OneCompactor
  kRejectRetries = 1
  MaxFaults = 0
  MaxSeq = 5
  MaxRecords = 5
  PAGE_ITEMS = 2
INVARIANT
  NothingMissed
CHECK_DEADLOCK FALSE
