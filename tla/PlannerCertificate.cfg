\* Two observations, one of them a certificate that mentions a name at its address.
SPECIFICATION PlanSpec
CONSTANTS
  discover = "discover"
  quick = "quick"
  resolve = "resolve"
  report = "report"
  none = none
  Tool = {"discover", "quick", "resolve", "report", "absent"}
  Profile = {}
  NoProfile = none
  Accepts <- MCAccepts
  BoundRole = {"dns_a", "requested"}
  NoHost = "none"
  NoRole = "none"
  Teams <- MCTeams
  Sightings <- MCCertificate
  MaxObservations = 2
INVARIANTS
  EveryBoundAddressIsReported
\* The observations run out.
CHECK_DEADLOCK FALSE
