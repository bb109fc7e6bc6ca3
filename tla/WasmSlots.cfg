SPECIFICATION Spec
CONSTANTS
  Slots = 1
  Requests <- EveryRequest
  Exports <- FrameOrBoth
  FaultLimit = 3
  ErrorLimit = 3
  MaxUploads = 3
  MaxInits = 2
INVARIANTS RunawayStops   OneEarlyCall
CHECK_DEADLOCK FALSE
