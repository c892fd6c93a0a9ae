\* Imports that are refused, killed and repeated, then the research on what
\* they left, or on a recording.
CONSTANTS
  Histories <- Walks
  Recordings <- Live
  EndTime = 23
  PageLimit = 3
  MaxAttempts = 2
  FileBatch = 5
  MaxImports = 2
  Jitter = 0
  Windows = {1}
  MaxWindow = 2
  MaxSamples = 3
  FootprintBucket = 2
  FootprintBin = 1
  PriceBin = 1
  TpoInterval = 1
  Session = 8
  ValueAreaPct = 70
  NearTopLevels = 1
  EventHistory = 2
  HeatmapVenues = {"binance", "mexc"}
  FlowWindow = 1
  ObiLevels = 1
  RollingWindow = 3
  RollingMin = 2
  SnapshotInterval = 0
  Risk = 1
  Horizon = 2
  EarlyReturns = {1}
  SampleLag = 1
  Thresholds <- Levels
  TrainSize = 2
  TestSize = 2
  Scale = 10
  TrendMove = 1
  LowVol = 1
  HighVol = 2
  ScanWindow = 3
  ScanStep = 2
  Gates <- SmallGates
SPECIFICATION FairSpec
INVARIANTS
  ImportIsComplete
  LabelsLookOnlyAhead
  ReportIsSound
PROPERTY BacktestEnds
