\* Two threads and two positions, two frames per pool, two descriptors.
SPECIFICATION Spec
CONSTANTS
  t1 = t1
  t2 = t2
  Threads = {t1, t2}
  MaxThreads = 2
  PoolSize = 2
  Fds = {3, 4}
  MaxPages = 2
  Values = {0, 1}
  Zero = 0
  None = None
  Spent = {1, 2}
  Assigned <- FirstAssigned
INVARIANTS NoOrphanPages
PROPERTIES NewFileIsEmpty OnlyWritesChange
