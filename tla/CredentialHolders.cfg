CONSTANTS
  Objects = {o1, o2}
  Users = {u1, u2, u3}
  Closers = {c1}
  Capacity = 1
SPECIFICATION Spec
INVARIANTS
  DrainIsReal
PROPERTIES
  DenialDrains
  ImplementsGate
CHECK_DEADLOCK FALSE
