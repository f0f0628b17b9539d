\* The settings are in MCCoverage.
SPECIFICATION MCSpec
CONSTANTS
  discover = "discover"
  quick = "quick"
  resolve = "resolve"
  report = "report"
  none = none
  Tool <- MCTool
  Profile = {}
  NoProfile = none
  Accepts <- MCAccepts
  BoundRole = {"dns_a", "requested"}
  NoHost = "none"
  NoRole = "none"
  Contract <- MCContract
  Observations <- MCObservations
  Runs = {1}
  Scopes = {1, 2}
  Deployments <- MCDeployments
  NoInventory = NoInventory
  Gone = Gone
  MaxChanges = 5
  Teams <- MCTeams
  Sightings <- MCSightings
  MaxObservations = 8
INVARIANTS
  CompleteWasTrue
  QuietReportIsExact
  PlanIsOfTheSet
\* A snapshot ends with its report, and the observations run out.
CHECK_DEADLOCK FALSE
