SPECIFICATION FairSpec
CONSTANTS
  Host = "web"
  Arrives = {"sealed"}
  Opens <- OpensAll
  MaxSeq = 3
  MaxRecords = 3
  TtlHorizon = 1
  MayHide = {}
  MAX_ATTEMPTS = 3
  SYNC_SCAN = 1
  MaxPages = 1
  MaxCrashes = 0
  MaxDiskFaults = 0
PROPERTY StoredRecordsAreRead
