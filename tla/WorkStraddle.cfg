\* An instant passes between the two clock readings of claim; no other fault.
SPECIFICATION Spec
CONSTANTS
  r1 = r1
  r2 = r2
  m1 = m1
  m2 = m2
  m3 = m3
  Replica = {r1, r2}
  Msg = {m1}
  Rejected = {}
  MaxAttempts = 2
  MaxPublishAttempts = 1
  MaxOut = 1
  MaxFaults = 0
  DamageAt = {}
  ClockStraddle = TRUE
  Survivor = r1
SYMMETRY Symmetry
INVARIANTS
  SettledIsTerminal
\* The replicas rest once every message is settled.
CHECK_DEADLOCK FALSE
