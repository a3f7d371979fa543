SPECIFICATION Spec
CONSTANTS
  c1 = c1
  c2 = c2
  Conns = {c1, c2}
  NoConn = NoConn
  Fds = {3, 4}
  Backlog = 1
  MaxMsgs = 2
  MaxLen = 2
  Lens = {2}
  SelectTicks = 1
  RxTicks = 1
  TxTicks = 1
  BeatTicks = 2
  RxAgeCap = 2
  FastTicks = 1
  SlowTicks = 1
  HandlerTicks = 1
  BpcEnabled = FALSE
  MaxWfms = 0
SYMMETRY Symmetry
INVARIANTS
  TypeOK
  OneOpenSocket
  ReadsSelected
  OutFraming
  InFraming
PROPERTIES
  HeartbeatSparesTalker
  ImplementsSession
