SPECIFICATION SensorSpec
CONSTANTS
  Mr60Payloads = {0, 1, 4, 8, 30}
  LdPayloads = {13, 35}
INVARIANT SettlesInTime
PROPERTY FramesAreWhole
CHECK_DEADLOCK FALSE
