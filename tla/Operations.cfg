\* The parts and their settings are in MCOperations.
SPECIFICATION MCSpec
CONSTANTS
  None = None
  r1 = r1
  r2 = r2
  c1 = c1
  c2 = c2
  l1 = l1
  l2 = l2
  p1 = p1
  p2 = p2
  x = x
  y = y
  h1 = h1
  Worker <- MCWorker
  Services <- MCServices
  Contract = {c1, c2}
  Limits = {l1, l2}
  Replica = {r1, r2}
  Provisioning = {p1, p2}
  NoTask = NoTask
  Replicas = {r1, r2}
  Tasks = {t1, t2, t3}
  MaxAttempts = 2
  MaxFaults = 3
  Instances = {r1, r2}
  Targets <- MCTargets
  NoTarget = NoTarget
  MaxExecutions = 2
  MaxCrashes = 2
INVARIANTS
  ListensAsRegistered
  InventoryIsTrue
  PauseStopsReplicas
  RowsAreTrue
PROPERTIES
  ReplacesWhatItRead
  PausedTasksEnd
  RowsEnd
\* Inputs are bounded, and runs, tasks and rows end.
CHECK_DEADLOCK FALSE
