SPECIFICATION Spec
CONSTANTS
  isKubernetes = TRUE
  includePodLabels = TRUE
  Responses <- TwoResponses
  Metrics <- TwoMetrics
  Inventories <- OneCard
  MaxFailures = 1
  WarnAfter = 1
INVARIANT OneClaimantPerDevice
