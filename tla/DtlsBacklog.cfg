SPECIFICATION Spec
CONSTANTS
  Faults = {}
  Backlog = 3
INVARIANT
  NoBacklog
