SPECIFICATION Spec
CONSTANTS
  d1 = d1
  d2 = d2
  a = a
  b = b
  m1 = m1
  m2 = m2
  Device = {d1, d2}
  Op = {a, b}
  Message = {m1, m2}
  KindOf <- Kinds
  Inputs <- Happenings
  Scenes <- Troubles
  kRejectRetries = 1
  MaxFaults = 1
  MaxSeq = 5
  MaxRecords = 4
  PAGE_ITEMS = 1
INVARIANTS
  TypeOK
  NothingCompactedAway
  CheckpointAlive
  OwnNeverLost
  IncomingQueued
  CompactorCovers
PROPERTY
  ImplementsShared
CHECK_DEADLOCK FALSE
