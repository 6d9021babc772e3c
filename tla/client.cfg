SPECIFICATION FairSpec
CONSTANTS
  Names <- TwoNames
  Buses <- TwoBuses
  GroupIds <- NoSet
  Tokens <- TwoTokens
  NaN = NaN
  Inf = Inf
  NonNumbers <- NotNumbers
  Nil = Nil
  Gib = 4
  Modulus = 400
  Versions <- AllVersions
  DevicePages <- DevicesReplies
  TopologyPages <- TopologyReplies
  SampleReplies <- SomeSampled
  LegacyLists <- OldLists
  LegacyInfos <- OldInfos
  LegacyTopologies <- OldTopologies
  MemoryReplies <- Sizes
  Errors = {"NotFound", "PermissionDenied"}
  PCIDevicesPath = TRUE
  SysfsDrivers <- Drivers
  SysfsParents <- Unset
  SysfsCounts <- Uncut
INVARIANT OutcomePerDevice
INVARIANT StateSource
INVARIANT LogTellsTransitions
INVARIANT NoNeedlessDowngrade
INVARIANT LastGoodSampleWins
INVARIANT ApisAgree
PROPERTY GivesUpForDaemonOnly
PROPERTY ReturnsToV1
PROPERTY CallReturns
