SPECIFICATION Spec
CONSTANTS
  Files = {f1}
  NoFile = NoFile
  Blocks = {0}
  BlockSize = 2
  Clients = {c1}
  FlushIds = {1}
  Expirers = {e1}
  Syncers = {}
  Buffers = {b1}
  NoBuf = NoBuf
  MaxFileBufs = 2
  MaxVer = 2
  Unlinks = {}
  OpenDuringLastClose = FALSE
  AllocBeforeUnlock = TRUE
INVARIANT FsyncDurable
