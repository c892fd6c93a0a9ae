\* The disk may stall: do trades still reach the order flow engine?
CONSTANTS
  Sources <- OneStream
  Emits <- DepthAndTrades
  Engines = {"orderflow"}
  Capacity = 1
  MaxSnapshots = 1
SPECIFICATION FairSpec
CHECK_DEADLOCK FALSE
PROPERTY HotPathKeepsMoving
