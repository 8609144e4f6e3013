SPECIFICATION FairSpec
CONSTANTS
  Host = "web"
  Arrives = {"sealed", "group", "service"}
  Opens <- OpensNoHold
  MaxSeq = 2
  MaxRecords = 2
  TtlHorizon = 0
  MayHide = {}
  MAX_ATTEMPTS = 2
  SYNC_SCAN = 2
  MaxPages = 1
  MaxCrashes = 1
  MaxDiskFaults = 0
INVARIANTS
  CursorPassesOnlyHandled
  AckBehindDisk
  NoSilentLoss
  ShownOncePerLife
PROPERTY CursorCatchesUp
