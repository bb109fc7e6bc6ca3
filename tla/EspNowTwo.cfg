SPECIFICATION FairSpec
CONSTANTS
  Ids <- Two
  Timeout = 1
  EmaDiv = 2
  MaxDelay = 1
  MaxClock = 2
  MaxBoots <- OneReset
  MaxUptime = 0
INVARIANTS LowestIdWins SyncAccuracy FollowsWhatItMeasured
PROPERTIES NoSecondReign ImplementsElection Agreement
CHECK_DEADLOCK FALSE
