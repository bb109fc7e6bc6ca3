SPECIFICATION FairSpec
CONSTANTS
  Boards = {b1, b2}
  Window = 2
  MaxBoots = 2
INVARIANTS ValidFollowerWasLed SilenceIsShort
PROPERTY RivalsSettle
CHECK_DEADLOCK FALSE
