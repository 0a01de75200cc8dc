SPECIFICATION FairSpec
CONSTANTS
  Configs = {c1, c2}
  Waiters = {w1}
  MaxFaults = 2
  MaxRequests = 2
INVARIANT StateIsTrue
INVARIANT NoForgottenWaiter
INVARIANT SettingsReachGuard
PROPERTY NoGap
PROPERTY ClosedGuardsEnd
PROPERTY Settles
CHECK_DEADLOCK FALSE
