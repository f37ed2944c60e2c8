SPECIFICATION Spec
CONSTANTS
  Threads = {t1}
  Prefetchers = {p1}
  Expirers = {e1}
  BufferMax = 1
  PrefetchTimes = 0
  MaxBlock = 2
  MaxReadLen = 2
  MaxWriteLen = 1
  MaxFileBufs = 1
  MaxWrites = 1
  MaxReads = 2
INVARIANT ReadNoPanic
