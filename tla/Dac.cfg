SPECIFICATION Spec
CONSTANTS
  Chans = {1}
  Amps <- MCAmps
  FofbInputs = {0}
  Tables <- MCTables
  MaxTable = 3
  AddrMod = 5
  Lengths = {6}
  Factor <- MCFactor
  Conv = 1
  MaxVolts = 5
  Rate = 1
  Percent = 25
  MinPts = 0
  Polarity = {}
  GainUnit = 64
  Gains = {48}
  Offsets = {0, 2}
  HighRes = TRUE
  Half = 32
  Frac = 16
  Signif = 128
  LoMod = 8
  DyMax = 2
  MaxCommands = 4
INVARIANTS
  TypeOK
  RampLands
  TableLands
PROPERTIES
  RampSmooth
