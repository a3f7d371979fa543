SPECIFICATION Spec
CONSTANTS
  Chans = {1, 2}
  Bits = {3}
  Unipolar = {}
  Modes = {FALSE}
  CntMod = 2
  OnCntMod = 3
  Limits = {1}
  DcctLimit = 0
  Commands = {"park"}
PROPERTIES
  ParkIgnoresError
