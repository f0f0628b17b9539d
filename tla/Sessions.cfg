\* The parts and their settings are in MCSessions.
SPECIFICATION MCSpec
CONSTANTS
  Urls <- MCUrls
  Authority <- MCAuthority
  Configs <- MCConfigs
  MaxLoaders = 2
  MaxRequests = 3
  MaxHistory = 1
  home = home
  other = other
  Blank = Blank
  e1 = e1
  e2 = e2
  e3 = e3
  p1 = p1
  p2 = p2
  NoEvent = NoEvent
  Events = {e1, e2, e3}
  Procs = {p1}
  Mode = "html"
  MaxPending = 1
  MaxAttempts = 2
  MaxCrashes = 3
  Tears = FALSE
  Stalls = FALSE
  Off = Off
  MaxQueries = 2
INVARIANTS
  ImageIsOfTheChain
  CompletedCanBeRead
  ServesItsTask
PROPERTIES
  QuietPageIsTaken
  DeliveredAndReleased
\* Sessions, servers and deliveries end.
CHECK_DEADLOCK FALSE
