\* Two threads, three references, two frames, one file of up to three pages.
SPECIFICATION FairSpec
CONSTANTS
  t1 = t1
  t2 = t2
  a1 = a1
  a2 = a2
  b1 = b1
  Threads = {t1, t2}
  Handles = {a1, a2, b1}
  Owner <- TwoThreads
  Files = {"leaf"}
  MaxPages = 3
  PoolSize = 2
  Values = {0, 1}
  Zero = 0
  MaxUsage = 1
  None = None
INVARIANTS TypeOK MapExact PinsExact CleanIsOnDisk CallsExact
PROPERTIES StoreSpec GetPageReturns
