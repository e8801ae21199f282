\* One thread that appends two pages in a row.
SPECIFICATION Spec
CONSTANTS
  t1 = t1
  t2 = t2
  a1 = a1
  a2 = a2
  b1 = b1
  Threads = {t1}
  Handles = {a1, a2}
  Owner <- OneThread
  Files = {"leaf"}
  MaxPages = 3
  PoolSize = 2
  Values = {0, 1}
  Zero = 0
  MaxUsage = 1
  None = None
PROPERTY AppendReturnsZeros
