SPECIFICATION ControlSpec
CONSTANTS
  N = 1
  Colours = {red}
  Dark = {}
  Bodies = {}
  Services = {"pause", "release"}
  Faults = {}
  Overlap = {"draining", "restoring"}
  Callers = {w1, w2, q1}
  Tasks = {d1, d2}
  None = None
  Users = {tv}
  Dogs = {w1, w2}
  Stops = {q1}
SYMMETRY Symmetry
INVARIANTS
  TimersHeld
  ReleaseHasResolver
  SensorFresh
  SnapshotHasSession
  ApiAgreesWithEngine
  OneWatchdog
PROPERTIES
  KeepsContract
