SPECIFICATION ScrapeSpec
CONSTANTS
  isKubernetes = FALSE
  includePodLabels = FALSE
  Responses <- MCResponses
  Metrics <- MCMetrics
  Inventories <- MCInventories
  MaxFailures = 1
  WarnAfter = 2
INVARIANT ScrapeNotStale
INVARIANT UpTruthful
INVARIANT OutageEdges
PROPERTY LogOrder
PROPERTY ImplementsExposure
