SPECIFICATION Spec
CONSTANTS
  Host = "desktop"
  Arrives = {"sealed", "service"}
  Opens <- OpensAny
  MaxSeq = 2
  MaxRecords = 1
  TtlHorizon = 1
  MayHide = {1}
  MAX_ATTEMPTS = 2
  SYNC_SCAN = 2
  MaxPages = 2
  MaxCrashes = 1
  MaxDiskFaults = 1
INVARIANTS
  TypeOK
  CounterCoversLog
  UnackedWithinQuota
  CursorPassesOnlyHandled
  AckBehindDisk
  NoSilentLoss
  ShownOncePerLife
