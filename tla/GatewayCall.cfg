CONSTANTS
  t1 = t1  t2 = t2  t3 = t3
  c1 = c1  c2 = c2
  Targets = {t1, t2, t3}
  Connections = {c1, c2}
  Credentials = {1, 2, 3}
  ConnectionOf <- MCConnectionOf
  Weight <- MCWeight
  Priority <- MCPriority
  maxAttempts = 3
  None = None
  z1 = z1  z2 = z2
  Zones = {z1, z2}
  FirstZone = z1
  NoZone = NoZone
SPECIFICATION FairSpec
INVARIANTS NoFreeWork AtMostOneExecution RecordFaithful ReplayedOnlyIdle NeverRetried
PROPERTIES EveryCallRecorded UsesCallFacts
CHECK_DEADLOCK FALSE
