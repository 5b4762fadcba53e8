SPECIFICATION Spec
CONSTANTS
  A = A
  B = B
  p1 = p1
  p2 = p2
  None = None
  Keys <- MCKeys
  FirstKey = A
  Processes <- MCProcesses
  FirstProcess = p1
  PageSize = 2
  Deployments <- MCDeployments
INVARIANTS NoRowNeedsRetiredKey
PROPERTIES
  DrainedAtRetirement
  ReadersReopen
  RotationSettles
