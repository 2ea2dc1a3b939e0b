SPECIFICATION Spec
CONSTANTS
  FrameTimeout = 5
  WatchdogInterval = 2
  DefaultYield = 2
  Seconds = {0, 3, 7}
INVARIANTS
  SilenceBounded
  ReleaseBounded
PROPERTY
  NoFalseTimeout
