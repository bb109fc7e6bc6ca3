SPECIFICATION ProvisionSpec
CONSTANTS
  Offered <- FewSettings
  ApChannel = 1
  MaxFlags = 2
  MaxCalls = 3
INVARIANTS NodeHoldsWhatWasAsked  HopTableIsWhole
CHECK_DEADLOCK FALSE
