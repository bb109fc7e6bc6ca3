CONSTANTS
  ClearFrames = 3
  PersistFrames = 2
  ConsecMin = 2
  CountMax = 3
  MaxPersons = 2
  FallHistory = 1
  MotionHistory = 2
  Cooldown = 1
  Interval = 1
  MaxGap = 1
SPECIFICATION Spec
INVARIANTS
  SustainedAbsenceClears
  LastingCountWins
PROPERTIES
  AbsenceIsSustained
  CountIsPersistent
  AlertHasOwnEvidence
