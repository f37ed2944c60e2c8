SPECIFICATION Spec
CONSTANTS
  Threads = {t1, t2}
  Prefetchers = {p1}
  Expirers = {e1}
  BufferMax = 1
  PrefetchTimes = 1
  MaxBlock = 1
  MaxReadLen = 2
  MaxWriteLen = 2
  MaxFileBufs = 2
  MaxWrites = 2
  MaxReads = 2
SYMMETRY Symmetry
INVARIANTS ReadFresh
