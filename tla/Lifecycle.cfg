SPECIFICATION FairLifecycle
CONSTANTS
  Faults = {"bind fails", "handshake fails"}
  Backlog = 3
  Overlap = FALSE
  Hosted = FALSE
INVARIANTS
  NothingOutlivesEntry
  InputsStopFirst
  ThreadEndsWithStop
  
  ContextOutlivesUse
  FlagMeansDelivery
PROPERTIES
  BridgeComesUp
  StopReturns
  ReconnectIsServed
