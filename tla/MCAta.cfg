SPECIFICATION Spec
CONSTANTS
  Ops = {"read", "write"}
  LBAs = {0, 5}
  Counts = {0, 1, 2, 3}
  Faults = {"drq", "no drq"}
INVARIANT SuccessIsHonest
PROPERTIES RegistersRespected RequestReturns
CHECK_DEADLOCK FALSE
