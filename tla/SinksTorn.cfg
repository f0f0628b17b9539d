\* One report process, one crash, which may come in the middle of a write.
SPECIFICATION SinkSpec
CONSTANTS
  e1 = e1
  e2 = e2
  e3 = e3
  p1 = p1
  p2 = p2
  NoEvent = NoEvent
  Events = {e1, e2}
  Procs = {p1}
  Mode = "html"
  MaxPending = 1
  MaxAttempts = 2
  MaxCrashes = 1
  Tears = TRUE
  Stalls = FALSE
PROPERTY StartsAgain
\* Deliveries end.
CHECK_DEADLOCK FALSE
