CONSTANTS
  t1 = t1
  t2 = t2
  t3 = t3
  Threads = {t1, t2, t3}
  DefaultThread = t1
  WaitQueues = {q1, q2}
  NumPriorities = 3
  MaxSuspend = 2
  MaxDisable = 1
  NoThread = NoThread
  NoQueue = NoQueue
  ExceptionContext = ExceptionContext
SPECIFICATION Spec
SYMMETRY Symmetry
INVARIANTS
  TypeOK
  LinkedOnce
  QueueContents
  PendingExact
  NoThreadLost
  RunningExecutes
  NoMissedReschedule
  WaitQueueSorted
  ThreadListExact
PROPERTIES
  SelectsMostUrgent
  PreemptsOnlyForMoreUrgent
  FifoWithinPriority
