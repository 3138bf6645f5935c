\* A chain of operations from callbacks can be longer than a pump may deliver.
CONSTANTS
  Threads = {main, t1, t2}
  DefaultThread = main
  Shared = Shared
  DrainLimit = 2
  MaxOps = 4
SPECIFICATION FairSpec
INVARIANTS
  DeliveredInOrder
  KeptWhileConfined
  DrainedOnReturn
PROPERTIES
  EveryCallbackRuns
