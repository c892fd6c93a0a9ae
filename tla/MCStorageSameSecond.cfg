\* Two runs started in the same second share a directory.
CONSTANTS
  Batch = 1
  ChannelCapacity = 1
  Seconds = {s1}
  FreshDirs = FALSE
  MaxEvents = 2
  MaxRuns = 2
SPECIFICATION Spec
CHECK_DEADLOCK FALSE
INVARIANT CountedIsKept
