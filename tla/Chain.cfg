CONSTANTS
  Users = {"u1", "u2"}
  Fibers = {"f1", "f2"}
  Keys = {"a", "b"}
  Root = "root"
  Free = "free"
  Procs <- MCProcs
  InboxCap = 1
  Inject <- ChainInject
  Offers <- ChainOffers
  Readers = {}
  Flaky = {}
  LateKeys = {}
  Manual = {"root"}
  RootKeys = {"a"}
  MaxOps = 2
SPECIFICATION Spec
INVARIANTS TypeOK Inductive Accounting Delivery OneReport CountersExact QuietMeansSettled ExitedClean NeverStranded ConfluentEnd
CHECK_DEADLOCK FALSE
