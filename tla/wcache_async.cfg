SPECIFICATION Spec
CONSTANTS
  Files = {f1}
  NoFile = NoFile
  Blocks = {0}
  BlockSize = 2
  Clients = {c1, c2}
  FlushIds = {1}
  Expirers = {e1}
  Syncers = {s1}
  Buffers = {b1}
  NoBuf = NoBuf
  MaxFileBufs = 2
  MaxVer = 3
  Unlinks = {}
  OpenDuringLastClose = FALSE
  AllocBeforeUnlock = TRUE
SYMMETRY Symmetry
INVARIANTS
  TypeOK
  NoPanic
  Coherent
  FlushDurable
  NoForgottenBuffer
PROPERTY DiskMonotonic
