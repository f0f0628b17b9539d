\* The parts and their settings are in MCTools.
SPECIFICATION MCSpec
CONSTANTS
  a = a
  b = b
  c = c
  d = d
  e = e
  x = x
  y = y
  ip1 = ip1
  ip2 = ip2
  Unbound = Unbound
  Blank = Blank
  None = None
  Urls <- MCUrls
  IPs <- MCIPs
  Links <- MCLinks
  Literal <- MCLiteral
  Backends <- MCBackends
  Origin <- MCOrigin
  Document <- MCDocument
  MaxRedirects = 2
  Seeds <- MCSeeds
  Overrun = 1
  Inputs <- MCInputs
  Profiles <- MCProfiles
  Scanners <- MCScanners
  Addresses <- MCIPs
  Resolves <- MCResolves
  Ports = {1, 2}
  MaxRequests = 2
  MaxHits = 1
INVARIANTS
  ChainHasOneBudget
  EndpointsAnswered
  OutcomeIsWhatWasSeen
  CompletedWasScanned
  FindingsAreKept
  OnlySharedFaultsPause
\* Tasks and scans end.
CHECK_DEADLOCK FALSE
