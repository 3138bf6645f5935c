\* Host stacks are allocated, refused and reused: a stack may be spare while a
\* re-created thread's old one is still there.
CONSTANTS
  main = main
  t1 = t1
  t2 = t2
  t3 = t3
  sched = sched
  h1 = h1
  h2 = h2
  h3 = h3
  Threads = {main, t1, t2}
  DefaultThread = main
  NoThread = NoThread
  Hosts = {sched, h1, h2, h3}
  SchedulerHost = sched
  MaxFibers = 3
  AllocationMayFail = TRUE
  MaxWork = 2
  MaxDepth = 2
  NoRecord = NoRecord
SPECIFICATION Spec
SYMMETRY Symmetry
INVARIANTS
  OwnStacksRunAsThemselves
  HostsOwned
  InterruptFlagMirrored
PROPERTIES
  ImplementsCoroutines
