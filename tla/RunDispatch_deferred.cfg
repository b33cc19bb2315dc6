SPECIFICATION Spec
CONSTANTS
  Messages = {m1, m2}
  MaxOps = 3
  MaxOrder = 2
  Cleanups = 0
  MaxGen = 5
INVARIANTS
  SteeringReachesNextCall
CHECK_DEADLOCK FALSE
