CONSTANTS
  Users = {"u1"}
  Fibers = {"f1", "f2"}
  Keys = {"a", "b"}
  Root = "root"
  Free = "free"
  Procs <- MCProcs
  InboxCap = 4
  Inject <- DuelInject
  Offers <- DuelOffers
  Readers = {"f2"}
  Flaky = {"f2"}
  LateKeys = {"b"}
  Manual = {"root", "f1"}
  RootKeys = {"a"}
  MaxOps = 2
SPECIFICATION Spec
INVARIANTS OneFiberProvider ActiveDelivers HeldOnlyWhileLive QuietMeansSettled ExitedClean
PROPERTIES UndoneInReverse KeepsPromise
CHECK_DEADLOCK FALSE
