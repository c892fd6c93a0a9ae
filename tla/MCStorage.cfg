\* Two runs in different seconds, crashes and failing flushes anywhere.
CONSTANTS
  Batch = 2
  ChannelCapacity = 2
  Seconds = {s1, s2}
  FreshDirs = TRUE
  MaxEvents = 5
  MaxRuns = 2
SPECIFICATION FairSpec
CHECK_DEADLOCK FALSE
INVARIANTS
  TypeOK
  RecordingIsComplete
  CountedIsKept
  OnlyTheLastFileIsUnreadable
PROPERTY EventuallyStored
