\* One property, violated: host stacks are refused and the records run out; SelectThread falls back on
\* OSLoadContext, on whatever stack is current.
CONSTANTS
  main = main
  t1 = t1
  t2 = t2
  t3 = t3
  sched = sched
  h1 = h1
  h2 = h2
  h3 = h3
  Threads = {main, t1, t2}
  DefaultThread = main
  NoThread = NoThread
  Hosts = {sched, h1, h2, h3}
  SchedulerHost = sched
  MaxFibers = 2
  AllocationMayFail = TRUE
  MaxWork = 1
  MaxDepth = 3
  NoRecord = NoRecord
SPECIFICATION Spec
INVARIANT
  RunsAsItself
