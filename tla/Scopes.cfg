CONSTANTS
  Contexts <- MCContexts
  Top = "root"
  Parent <- MCParent
  FiberContexts = {"job"}
  Dependent = "job"
  RootRealm = "base"
  Realms = {"inner"}
  Names = {"tool"}
  Threads = {"g1", "g2"}
  Waiters = {}
  WaitsAt <- NoWaiters
  Menu <- ScopesMenu
  MaxEffects = 3
SPECIFICATION FairSpec
INVARIANTS TypeOK NothingLost NewestRegistrationShown
PROPERTIES ChildrenFirst ReleaseReturns
CHECK_DEADLOCK FALSE
