SPECIFICATION ProvisionSpec
CONSTANTS
  Offered <- FewSettings
  ApChannel = 1
  MaxFlags = 3
  MaxCalls = 2
INVARIANT DwellFallsBack
CHECK_DEADLOCK FALSE
