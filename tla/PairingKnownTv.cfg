SPECIFICATION Spec
CONSTANTS
  Device = {"tv1", "tv2"}
  Pairs = 1
  Instances = 3
  Hosted = FALSE
  Faults = {}
INVARIANTS
  NotPairedIsTrue
CHECK_DEADLOCK FALSE
