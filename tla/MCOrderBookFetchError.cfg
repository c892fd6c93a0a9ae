\* The REST call may fail: does a desynced book still ask for a snapshot?
CONSTANTS
  Levels = {l1}
  Qty = {1}
  FetchSnapshots = TRUE
  FetchMayFail = TRUE
  PuOptional = FALSE
  SnapshotLag = 0
  SnapshotDepth = 1
  ChannelCapacity = 1
  MaxUpdates = 4
  MaxSnapshots = 0
SPECIFICATION Spec
CHECK_DEADLOCK FALSE
PROPERTY DesyncedBookResyncs
