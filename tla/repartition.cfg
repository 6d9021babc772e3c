SPECIFICATION Spec
CONSTANTS
  Names <- DeviceNames
  Buses <- Functions
  GroupIds <- NoSet
  Tokens <- NoSet
  NonNumbers <- NoSet
  Nil = Nil
  PCIDevicesPath = TRUE
  PFs <- Cards
  ParentOf <- Owner
  IndexOf <- Ordinal
  Counts <- Cuts
  Drivers <- AllDrivers
  Listings <- V1Listings
  LegacyListings <- V0Listings
INVARIANT ProfileNotOld
INVARIANT ForeignNeverPublished
INVARIANT NoDoubleCount
