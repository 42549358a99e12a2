CONSTANTS
  Versions = {"v1", "v2", "broken"}
  Broken = {"broken"}
  MaxLoads = 4
  MaxFlips = 2
SPECIFICATION Spec
INVARIANTS SettledVersion
CHECK_DEADLOCK FALSE
