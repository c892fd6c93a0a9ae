\* A live engine: snapshots are fetched over REST, and the call may fail.
\* One level suffices for gaps and resyncs; the replay run has two.
CONSTANTS
  Levels = {l1}
  Qty = {1}
  FetchSnapshots = TRUE
  FetchMayFail = TRUE
  PuOptional = FALSE
  SnapshotLag = 2
  SnapshotDepth = 1
  ChannelCapacity = 1
  MaxUpdates = 5
  MaxSnapshots = 0
SPECIFICATION Spec
CHECK_DEADLOCK FALSE
INVARIANTS
  TypeOK
  ResyncsAnswerGaps
  NothingLeftPending
PROPERTY MirrorsTheExchange
