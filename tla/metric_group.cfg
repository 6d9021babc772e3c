SPECIFICATION FairSpec
CONSTANTS
  Names <- NoSet
  Buses <- NoSet
  GroupIds <- Ids
  Tokens <- OneToken
  NonNumbers <- NoSet
  Nil = Nil
  e1 = e1
  e2 = e2
  e3 = e3
  Exporters <- AllExporters
  Creators <- TwoCreators
  MetricGroupID = "ours"
  AdminGroups <- Puts
  MaxChanges = 1
INVARIANT SamplesWantedGroup
PROPERTY GroupsNotModified
PROPERTY FailsOnlyForCause
PROPERTY GroupIsRestored
