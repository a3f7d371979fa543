SPECIFICATION Spec
CONSTANTS
  Clients = {r, w}
  Readers = {r}
  Blocks = 3
  OldBlocks = 1
  BlkMod = 3
  Limit = 0
  MaxRetries = 1
  MaxNet = 2
  MaxExtra = 1
  None = None
  r = r
  w = w
INVARIANTS
  TypeOK
  UploadIntact
  DownloadIntact
  Watched
PROPERTIES
  HandleReleased
CHECK_DEADLOCK FALSE
