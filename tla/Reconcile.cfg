\* Five reports, two attempts, two executions at a time.
SPECIFICATION Spec
CONSTANTS
  reconcile = reconcile
  httpx = httpx
  nuclei = nuclei
  web = web
  full = full
  none = none
  h1 = h1
  h2 = h2
  a = a
  b = b
  Tool <- MCTool
  Profile <- MCProfile
  NoProfile = none
  Replicas = 2
  Name = {n1}
  Port = {p1}
  Place = {h1, h2}
  Subject = {a, b}
  Given <- MCGiven
  Reconciler = reconcile
  MaxAttempts = 2
INVARIANTS
  NoPairIsLost
  GatesAreIntersected
\* Every event is done in the end.
CHECK_DEADLOCK FALSE
