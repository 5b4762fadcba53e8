CONSTANTS
  Processes = {p1, p2}
  Commands = {c1, c2}
  MaxUsers = 1
  None = None
SPECIFICATION Spec
SYMMETRY Symmetry
INVARIANTS
  NoUserOfDestroyed
  OneDestruction
CHECK_DEADLOCK FALSE
