\* The live engines on short histories of every kind of event, out of order
\* by one tick at most.  Calls and puts have opposite signs so that gamma can flip.
CONSTANTS
  Feeds <- LiveFeeds
  Jitter = 1
  Windows = {1, 3}
  MaxWindow = 4
  MaxSamples = 3
  FootprintBucket = 2
  FootprintBin = 2
  PriceBin = 1
  TpoInterval = 2
  Session = 4
  ValueAreaPct = 70
  CallSign = 1
  PutSign <- MinusOne
  GexStaleAfter = 2
  HiddenWindow = 1
  RecentEvents = 3
  StopPoolHistory = 2
  IcebergMultiple = 2
  LargePull = 5
  RoundNumber = 4
  PriceUnit = 2
  NearTopLevels = 1
  EventHistory = 2
  HeatmapVenues = {"binance"}
SPECIFICATION Spec
CHECK_DEADLOCK FALSE
INVARIANTS
  TypeOK
  OrderflowIsTheTape
  ValueAreaIsTight
  ProfileIsTheSession
  ExposureIsOfTheLastGreeks
  GexFlagsAreTrue
  SpoofPullsAreReal
  HeatmapIsTheLastWrite
