SPECIFICATION FairSpec
CONSTANTS
  c1 = c1
  c2 = c2
  Conns = {c1, c2}
  NoConn = NoConn
  Fds = {3, 4}
  Backlog = 1
  MaxMsgs = 1
  MaxLen = 1
  Lens = {1}
  SelectTicks = 1
  RxTicks = 1
  TxTicks = 1
  BeatTicks = 2
  RxAgeCap = 2
  FastTicks = 1
  SlowTicks = 1
  HandlerTicks = 0
  BpcEnabled = FALSE
  MaxWfms = 0
PROPERTIES
  PendingServed
  SilentDropped
