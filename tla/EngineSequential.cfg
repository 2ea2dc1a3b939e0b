SPECIFICATION Spec
CONSTANTS
  N = 1
  Colours = {red}
  Dark = {}
  Bodies = {"on", "off", "tweak", "ignored"}
  Services = {"pause", "release"}
  Faults = {"call fails", "unavailable", "restore fails"}
  Overlap = {"restoring"}
  Callers = {r1}
  Tasks = {d1, d2}
  None = None
SYMMETRY Symmetry
INVARIANTS
  DrainRunningIsHonest
  OneCallAtATime
PROPERTIES
  NoSendBeginsWhileSuppressed
