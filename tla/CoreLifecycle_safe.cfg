SPECIFICATION Spec
CONSTANTS
  Platform = "linux"
  Extras = {TRUE, FALSE}
  Xrays = {"none", "eager"}
  Fulls = {TRUE}
  Tuns = {"redirect"}
  TimesOut = {"stop"}
  MayPanic = FALSE
  MaxCalls = 4
INVARIANT SlotsTellTrue
INVARIANT ProbesEscape
CHECK_DEADLOCK FALSE
