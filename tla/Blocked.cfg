CONSTANTS
  Users = {"u1"}
  Fibers = {"f1", "f2"}
  Keys = {"a", "b"}
  Root = "root"
  Free = "free"
  Procs <- MCProcs
  InboxCap = 2
  Inject <- ChainInject
  Offers <- ChainOffers
  Readers = {}
  Flaky = {}
  LateKeys = {}
  Manual = {"root"}
  RootKeys = {"a"}
  MaxOps = 2
SPECIFICATION Spec
INVARIANT LoopNeverBlocks
CHECK_DEADLOCK FALSE
