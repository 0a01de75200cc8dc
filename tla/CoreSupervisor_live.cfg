SPECIFICATION FairSpec
CONSTANTS
  Profiles = {p1}
  NoProfile = none
  GiveUpAfter = 2
  HasPrivilegeProbe = FALSE
  MaxFaults = 2
  MaxRequests = 1
  MaxQueued = 1
PROPERTY OnlyFaultsCount
PROPERTY Recovers
PROPERTY ExitCompletes
CHECK_DEADLOCK FALSE
