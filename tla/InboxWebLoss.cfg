SPECIFICATION Spec
CONSTANTS
  Host = "web"
  Arrives = {"sealed"}
  Opens <- OpensAll
  MaxSeq = 2
  MaxRecords = 2
  TtlHorizon = 0
  MayHide = {}
  MAX_ATTEMPTS = 3
  SYNC_SCAN = 2
  MaxPages = 2
  MaxCrashes = 1
  MaxDiskFaults = 0
INVARIANT NothingLost
