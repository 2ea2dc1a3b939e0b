SPECIFICATION Spec
CONSTANTS
  Device = {"tv1", "tv2"}
  Pairs = 2
  Instances = 3
  Hosted = FALSE
  Faults = {"abandon", "crash", "port taken", "late pairing"}
INVARIANTS
  PairedTvIsKnown
  OneCredentialPerTv
  LoadedIsReachable
CHECK_DEADLOCK FALSE
