SPECIFICATION Spec
CONSTANTS
  Ops = {"read"}
  LBAs = {0}
  Counts = {1}
  Faults = {"drq", "no drq"}
PROPERTY FailureIsReported
CHECK_DEADLOCK FALSE
