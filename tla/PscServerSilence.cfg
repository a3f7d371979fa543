SPECIFICATION Spec
CONSTANTS
  c1 = c1
  Conns = {c1}
  NoConn = NoConn
  Fds = {3}
  Backlog = 1
  MaxMsgs = 1
  MaxLen = 2
  Lens = {2}
  SelectTicks = 1
  RxTicks = 2
  TxTicks = 1
  BeatTicks = 2
  RxAgeCap = 5
  FastTicks = 9
  SlowTicks = 2
  HandlerTicks = 1
  BpcEnabled = TRUE
  MaxWfms = 1
INVARIANTS
  ClosedAfterSilence
