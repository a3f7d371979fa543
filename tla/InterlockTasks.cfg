SPECIFICATION Spec
CONSTANTS
  Chans = {1, 2}
  Bits = {}
  Unipolar = {}
  Modes = {TRUE, FALSE}
  CntMod = 1
  OnCntMod = 1
  Limits = {0}
  DcctLimit = 0
  Commands = {"park", "clear", "console"}
INVARIANTS
  DipoleInStep
