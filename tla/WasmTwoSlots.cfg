SPECIFICATION Spec
CONSTANTS
  Slots = 2
  Requests <- UploadsOnly
  Exports <- BothFunctions
  FaultLimit = 2
  ErrorLimit = 2
  MaxUploads = 2
  MaxInits = 1
INVARIANTS EventsLandInTheirSlot
CHECK_DEADLOCK FALSE
