SPECIFICATION FairSpec
CONSTANTS
  N = 2
  Colours = {red, black}
  Dark = {black}
  Bodies = {}
  Services = {"pause", "resume"}
  Faults = {}
  Overlap = {}
  Callers = {r1}
  Tasks = {d1, d2}
  None = None
INVARIANTS
  NoLostWakeup
  LightsComeBack
  LightsShowFreshest
PROPERTIES
  EveryLightGetsItsTurn
