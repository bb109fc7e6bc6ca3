SPECIFICATION FairSpec
CONSTANTS
  Slots = 3
  MaxFrames = 7
INVARIANTS NoSharedSlot
PROPERTIES ImplementsQueue EveryFrameDelivered
CHECK_DEADLOCK FALSE
