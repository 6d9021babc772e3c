SPECIFICATION FairSpec
CONSTANTS
  Names <- ThreeNames
  Buses <- OneBus
  GroupIds <- OneGroup
  Tokens <- Offsets
  NonNumbers <- NoSet
  Nil = Nil
  Clients <- OneClient
  MetricGroupID = "g"
  AllContents <- Changing
  Failing <- Flaky
  PageSizes <- AnySize
  MaxFaults = 2
PROPERTY ListingsFaithful
PROPERTY ConvergesToContents
