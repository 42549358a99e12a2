CONSTANTS
  Versions = {"v1", "v2", "broken"}
  Broken = {"broken"}
  MaxLoads = 4
  MaxFlips = 2
SPECIFICATION Spec
INVARIANTS CallUndisturbed
CHECK_DEADLOCK FALSE
