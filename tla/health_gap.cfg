SPECIFICATION ScrapeSpec
CONSTANTS
  isKubernetes = FALSE
  includePodLabels = FALSE
  Responses <- MCResponses
  Metrics <- OnlyHealth
  Inventories <- ReadyOrFaulty
  MaxFailures = 1
  WarnAfter = 1
INVARIANT HealthZeroMeansReady
