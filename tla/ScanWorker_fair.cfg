SPECIFICATION FairSpec
CONSTANTS
  N = 3
  Ipv6 = {3}
  ChunkSize = 2
  SubBatch = 1
  Retries = 1
  StopAfter = 2
  MaxRuns = 2
  MaxScanFaults = 1
INVARIANT NothingSkipped
PROPERTY RemovalConfirmed
PROPERTY EveryRunEnds
CHECK_DEADLOCK FALSE
