SPECIFICATION FairSpec
CONSTANTS
  Platform = "darwin"
  Extras = {TRUE, FALSE}
  Xrays = {"none", "lazy", "eager"}
  Fulls = {TRUE, FALSE}
  Tuns = {"none", "tun"}
  TimesOut = {"start", "stop"}
  MayPanic = TRUE
  MaxCalls = 2
INVARIANT NothingLeftBehind
INVARIANT ResolverHasListener
INVARIANT ClientIsRight
PROPERTY StoppedExtraGoes
CHECK_DEADLOCK FALSE
