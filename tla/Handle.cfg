CONSTANTS
  Versions = {"v1", "v2", "broken"}
  Broken = {"broken"}
  MaxLoads = 4
  MaxFlips = 2
SPECIFICATION FairSpec
INVARIANTS TypeOK RefAlive NoOrphans CallsCurrent ActiveIsCallable
PROPERTIES WithdrawalCompletes RollbackServes
CHECK_DEADLOCK FALSE
