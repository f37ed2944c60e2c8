SPECIFICATION Spec
CONSTANTS
  Threads = {t1, t2, t3}
  Ids = {i1, i2}
  NoEntry = NoEntry
  fileEntryVecSize = 3
INVARIANTS
  TypeOK
  IndexIsLeastFree
  ReferCountsHandles
  HandlesOwned
  SingleCacheCloser
