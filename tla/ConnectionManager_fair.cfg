SPECIFICATION FairSpec
CONSTANTS
  Profiles = {p1, p2}
  NoProfile = NoProfile
  TunRequired = TRUE
  MaxSerial = 2
  MaxEvents = 1
INVARIANT OnePlace
INVARIANT OneCoreCall
INVARIANT BootWantsTun
PROPERTY EveryRequestAnswered
CHECK_DEADLOCK FALSE
