SPECIFICATION ControlFairSpec
CONSTANTS
  N = 1
  Colours = {}
  Dark = {}
  Bodies = {"on"}
  Services = {"pause", "release"}
  Faults = {}
  Overlap = {}
  Callers = {w1, w2, q1}
  Tasks = {d1, d2}
  None = None
  Users = {tv}
  Dogs = {w1, w2}
  Stops = {q1}
INVARIANTS
  SessionIsWatched
PROPERTIES
  ReleaseEnds
  SilentStreamEnds
  TeardownReturns
  ClassicDrainEnds
