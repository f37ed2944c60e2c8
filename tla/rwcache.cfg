SPECIFICATION FairSpec
CONSTANTS
  Threads = {t1, t2}
  Prefetchers = {p1}
  Expirers = {e1}
  BufferMax = 1
  PrefetchTimes = 1
  MaxBlock = 1
  MaxReadLen = 1
  MaxWriteLen = 1
  MaxFileBufs = 2
  MaxWrites = 1
  MaxReads = 2
INVARIANTS
  ReadNoPanic
  ReadBufferConservation
  CleanedAfterWrite
  DirectReadFresh
PROPERTY ReadsReturn
