SPECIFICATION MountSpec
CONSTANTS
  Files = {f1}
  NoFile = NoFile
  Blocks = {0, 1}
  BlockSize = 1
  Clients = {c1, closer}
  Closer = closer
  FlushIds = {1}
  Expirers = {e1}
  Syncers = {s1}
  Buffers = {b1, b2}
  NoBuf = NoBuf
  MaxFileBufs = 1
  MaxVer = 2
  Unlinks = {}
  OpenDuringLastClose = FALSE
  AllocBeforeUnlock = FALSE
  UnmountFails = FALSE
CHECK_DEADLOCK FALSE
INVARIANTS
  NoPanic
  NoSendOnClosed
  CleanShutdown
PROPERTIES
  CallsReturn
  DelMountReturns
  KeepsPromise
