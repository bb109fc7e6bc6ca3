SPECIFICATION FairSpec
CONSTANTS
  MaxRetry = 2
  Builds <- TwoBuilds
  Junk = "junk"
  Size = 2
  MaxLength = 3
  MaxUploads = 2
  MaxResets = 2
INVARIANTS OneAttempt GivingUpIsFinal IdentityFromFlash RunningImageIntact
PROPERTIES ImplementsAtomicUpdate EveryBootEnds
CHECK_DEADLOCK FALSE
