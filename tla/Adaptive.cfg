CONSTANTS
  Energies <- QuietAndBusy
  MotionThreshold = 20
  WindowTicks = 2
  EmitEvery = 2
  MaxEpoch = 4
SPECIFICATION Spec
INVARIANTS
  ProfileFollowsState
  YieldIsNoticed
PROPERTIES
  AnomalyClosesItsEpoch
