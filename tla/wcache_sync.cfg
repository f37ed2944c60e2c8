SPECIFICATION FairSpec
CONSTANTS
  Files = {f1}
  NoFile = NoFile
  Blocks = {0, 1}
  BlockSize = 2
  Clients = {c1}
  FlushIds = {1, 2}
  Expirers = {e1}
  Syncers = {}
  Buffers = {b1, b2}
  NoBuf = NoBuf
  MaxFileBufs = 1
  MaxVer = 2
  Unlinks = {f1}
  OpenDuringLastClose = FALSE
  AllocBeforeUnlock = TRUE
CHECK_DEADLOCK FALSE
INVARIANTS
  BufferConservation
  ReadComplete
PROPERTIES
  KeepsPromise
  EventuallyDurable
