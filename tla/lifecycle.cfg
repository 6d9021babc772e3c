SPECIFICATION FairSpec
CONSTANTS
  Nil = Nil
  Typo = Typo
  Second = 100
  Width = 65536
  Environments <- Variables
  CommandLines <- Arguments
  LogLevels <- SomeLevels
  LogFormats <- SomeFormats
INVARIANT ServingIsUsable
INVARIANT ExitCodeTruthful
PROPERTY EndsWhenTold
CHECK_DEADLOCK FALSE
