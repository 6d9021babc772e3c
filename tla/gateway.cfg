SPECIFICATION FairGatewaySpec
CONSTANTS
  Targets <- MCTargets
  ValidTargets <- MCValidTargets
  Headers <- MCHeaders
  defaultScrapeTimeout = 4
  timeoutOffset = 1
  minScrapeTimeout = 2
  ShutdownGrace = 2
  MaxRequests = 3
  LastArrival = 1
  MaxTime = 6
CHECK_DEADLOCK FALSE
INVARIANTS
  OneCollectionPerTarget
  WaitsDoNotAdd
  LateOnlyBehindLonger
  ShutdownSpares
PROPERTY EveryScrapeAnswered
