SPECIFICATION Spec
CONSTANTS
  Files = {f1}
  NoFile = NoFile
  Blocks = {0, 1}
  BlockSize = 2
  Clients = {c1}
  FlushIds = {1}
  Expirers = {e1}
  Syncers = {s1}
  Buffers = {b1}
  NoBuf = NoBuf
  MaxFileBufs = 1
  MaxVer = 3
  Unlinks = {}
  OpenDuringLastClose = FALSE
  AllocBeforeUnlock = TRUE
INVARIANT NoPanic
