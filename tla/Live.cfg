CONSTANTS
  Users = {"u1"}
  Fibers = {"f1", "f2"}
  Keys = {"a", "b"}
  Root = "root"
  Free = "free"
  Procs <- MCProcs
  InboxCap = 12
  Inject <- ChainInject
  Offers <- ChainOffers
  Readers = {}
  Flaky = {}
  LateKeys = {}
  Manual = {"root"}
  RootKeys = {"a"}
  MaxOps = 2
SPECIFICATION FairSpec
PROPERTIES CloseCompletes DisposeCompletes ComesToRest
CHECK_DEADLOCK FALSE
