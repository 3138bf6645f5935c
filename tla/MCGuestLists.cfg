SPECIFICATION ListsSpec
CONSTANTS
  t1 = t1
  t2 = t2
  t3 = t3
  t4 = t4
  q1 = q1
  o1 = o1
  o2 = o2
  o3 = o3
  m1 = m1
  m2 = m2
  m3 = m3
  QueuedThreads = {t1, t2, t3, t4}
  WaitQueues = {q1}
  NumPriorities = 2
  NoQueue = NoQueue
  Threads = {o1, o2, o3}
  Mutexes = {m1, m2, m3}
  DefaultThread = o1
  MaxCount = 2
  Null = Null
SYMMETRY Symmetry
INVARIANTS
  LinksRepresentLists
  HeldListsRepresent
  OwnersExact
