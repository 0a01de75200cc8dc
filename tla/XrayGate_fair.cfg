SPECIFICATION FairSpec
CONSTANTS
  Conns = {c1, c2}
  Sweeps = TRUE
  MaxRecycles = 1
INVARIANT OneOwner
INVARIANT LiveTarget
INVARIANT NobodyMissed
PROPERTY Drains
PROPERTY RetiredRelaysEnd
CHECK_DEADLOCK FALSE
