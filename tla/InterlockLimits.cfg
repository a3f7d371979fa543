SPECIFICATION Spec
CONSTANTS
  Chans = {1}
  Bits = {7}
  Unipolar = {1}
  Modes = {TRUE, FALSE}
  CntMod = 2
  OnCntMod = 2
  Limits = {0, 1}
  DcctLimit = 0
  Commands = {"on1", "clear", "enable", "cntlim"}
INVARIANTS
  TypeOK
  TripsInTime
  NoFalseTrip
PROPERTIES
  StaysTripped
