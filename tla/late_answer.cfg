SPECIFICATION GatewaySpec
CONSTANTS
  Targets <- MCTargets
  ValidTargets <- MCValidTargets
  Headers <- PrometheusHeaders
  defaultScrapeTimeout = 20
  timeoutOffset = 1
  minScrapeTimeout = 2
  ShutdownGrace = 10
  MaxRequests = 2
  LastArrival = 1
  MaxTime = 30
CHECK_DEADLOCK FALSE
INVARIANT ServedInTime
