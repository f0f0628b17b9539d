\* Two replicas over one message and one that is rejected, two attempts, batches of
\* up to two events, one fault anywhere (crash, stall, lost reply, failed call, shutdown).
SPECIFICATION Spec
CONSTANTS
  r1 = r1
  r2 = r2
  m1 = m1
  m2 = m2
  m3 = m3
  Replica = {r1, r2}
  Msg = {m1, m3}
  Rejected = {m3}
  MaxAttempts = 2
  MaxPublishAttempts = 1
  MaxOut = 2
  MaxFaults = 1
  DamageAt = {}
  ClockStraddle = TRUE
  Survivor = r1
SYMMETRY Symmetry
INVARIANTS
  TypeOK
  ExecutionsAreCounted
  OneWriter
  PublishedWasSaved
  IndexIsPublished
  EvidenceIsCounted
  CompletedIsPublished
PROPERTIES
  TerminalIsFinal
  KeepsTheLedger
\* The replicas rest once every message is settled.
CHECK_DEADLOCK FALSE
