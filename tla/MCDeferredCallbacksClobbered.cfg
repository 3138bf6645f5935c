\* One property, violated: a callback switches threads.
CONSTANTS
  Threads = {main, t1, t2}
  DefaultThread = main
  Shared = Shared
  DrainLimit = 2
  MaxOps = 4
SPECIFICATION Spec
INVARIANT
  CallerRegistersKept
