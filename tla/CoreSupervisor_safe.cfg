SPECIFICATION Spec
CONSTANTS
  Profiles = {p1}
  NoProfile = none
  GiveUpAfter = 2
  HasPrivilegeProbe = TRUE
  MaxFaults = 1
  MaxRequests = 2
  MaxQueued = 1
INVARIANT NotStranded
PROPERTY NoStartOnceDeclined
CHECK_DEADLOCK FALSE
