CONSTANTS
  Contexts <- NoticesContexts
  Top = "root"
  Parent <- NoticesParent
  FiberContexts = {"job"}
  Dependent = "job"
  RootRealm = "base"
  Realms = {"inner"}
  Names = {}
  Threads = {"g1", "g2"}
  Waiters = {"w"}
  WaitsAt <- ZoneWaits
  Menu <- NoticesMenu
  MaxEffects = 3
SPECIFICATION Spec
INVARIANTS NoLostWakeup DependencyFollowed
CHECK_DEADLOCK FALSE
