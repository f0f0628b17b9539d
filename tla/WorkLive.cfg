\* Liveness under FairSpec, with an outbox that may be damaged once a replica
\* has failed: only r1 is sure to ask for messages forever.
SPECIFICATION FairSpec
CONSTANTS
  r1 = r1
  r2 = r2
  m1 = m1
  m2 = m2
  m3 = m3
  Replica = {r1, r2}
  Msg = {m1}
  Rejected = {}
  MaxAttempts = 2
  MaxPublishAttempts = 1
  MaxOut = 1
  MaxFaults = 1
  DamageAt = {1}
  ClockStraddle = FALSE
  Survivor = r1
INVARIANTS
  SettledIsTerminal
PROPERTIES
  RerunOnlyAfterPublishing
  EveryMessageSettles
\* The replicas rest once every message is settled.
CHECK_DEADLOCK FALSE
