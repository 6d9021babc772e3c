SPECIFICATION FairSpec
CONSTANTS
  isKubernetes = TRUE
  includePodLabels = TRUE
  Responses <- MixedResponses
  Metrics <- TwoMetrics
  Inventories <- OneCard
  MaxFailures = 1
  WarnAfter = 1
INVARIANT TypeOK
INVARIANT Settled
INVARIANT TriggerNotLost
INVARIANT SharedLogCurrent
PROPERTY RecoversWithDaemon
PROPERTY AttributionConverges
PROPERTY StopsOnShutdown
