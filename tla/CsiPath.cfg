SPECIFICATION FairPathSpec
CONSTANTS
  Bulk <- TwoCallers
  Callback = "csi"
  MaxShift = 1
  CapCooldown = 2
  MaxStreak = 3
  Interval = 2
  SyncEvery = 2
  SequenceWidth = 5
  MaxOwed = 2
INVARIANTS OnlyLateCalls SkipsAreSingle FramesArePlaced
PROPERTIES BackoffNeverShrinks StreamResumes
CHECK_DEADLOCK FALSE
