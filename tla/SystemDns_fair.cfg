SPECIFICATION FairSpec
CONSTANTS
  Services = {s1, s2}
  NoService = NoService
  MaxCores = 3
  Overlap = FALSE
  MaxFaults = 2
  MaxMoves = 2
  MaxStarts = 2
INVARIANT OnRecord
INVARIANT CleanAtRest
PROPERTY NoLateFollow
PROPERTY Follows
PROPERTY BootRepairs
CHECK_DEADLOCK FALSE
