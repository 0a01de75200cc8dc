SPECIFICATION Spec
CONSTANTS
  Calls = {c1, c2, c3}
  NoCall = NoCall
  MaxCores = 2
  MaxFails = 1
SYMMETRY CallPermutations
INVARIANT SlotsAgree
INVARIANT FreshSocket
PROPERTY Implements
CHECK_DEADLOCK FALSE
