\* A replayed recording: snapshots arrive in the event stream, in any position.
CONSTANTS
  Levels = {l1, l2}
  Qty = {1}
  FetchSnapshots = FALSE
  FetchMayFail = FALSE
  PuOptional = TRUE
  SnapshotLag = 2
  SnapshotDepth = 1
  ChannelCapacity = 1
  MaxUpdates = 4
  MaxSnapshots = 2
SPECIFICATION Spec
SYMMETRY LevelSymmetry
CHECK_DEADLOCK FALSE
INVARIANT PublishedBookIsReal
PROPERTY PublishedBookAdvances
