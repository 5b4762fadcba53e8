SPECIFICATION Spec
CONSTANTS
  u1 = u1
  u2 = u2
  f1 = f1
  f2 = f2
  s1 = s1
  s2 = s2
  x1 = x1
  None = None
  Users <- MCUsers
  FirstAdmin = u1
  Subjects = {x1}
  Flows <- MCFlows
  SessionIds <- MCSessionIds
  Names <- MCNames
  Deployments <- MCDeployments
  AttemptLimit = 1
VIEW View
INVARIANTS
  EverySessionJustified
  FactorRequired
  NoRevival
CHECK_DEADLOCK FALSE
