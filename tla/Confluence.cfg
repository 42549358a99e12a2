CONSTANTS
  Users = {"u1"}
  Fibers = {"f1", "f2"}
  Keys = {"a", "b"}
  Root = "root"
  Free = "free"
  Procs <- MCProcs
  InboxCap = 12
  Inject <- ChainInject
  Offers <- ChainOffers
  Readers = {"f1"}
  Flaky = {}
  LateKeys = {}
  Manual = {"root"}
  RootKeys = {"a"}
  MaxOps = 3
SPECIFICATION Spec
INVARIANT ConfluentEnd
CHECK_DEADLOCK FALSE
