\* The parts and their settings are in MCMeaning.
SPECIFICATION MCSpec
CONSTANTS
  Off = Off
  None = None
  Nil = Nil
  NoField = NoField
  Empty = Empty
  a = a
  b = b
  bad = bad
  ip1 = ip1
  ip2 = ip2
  IPs = {ip1, ip2}
  Words = {a, b, bad}
  Bases = {a, b}
  MaxPort = 3
  Raw <- MCRaw
  host = host
  alive = alive
  other = other
  x = x
  y = y
  Absent = Absent
  Sites <- MCSites
  TopPorts = {80}
  ScanArgs = {"tcp"}
  MaxFailures = 1
  n = n
  m = m
  h1 = h1
  h2 = h2
INVARIANTS
  ReadersAgree
  TargetIsStated
  RuleHasOneMeaning
  NothingIsMissed
  OnlyWhatIsThere
\* Nothing is left to make canonical, to register or to do.
CHECK_DEADLOCK FALSE
