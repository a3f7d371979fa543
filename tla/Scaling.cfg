SPECIFICATION Spec
CONSTANTS
  Kinds = {"gain", "offset", "thresh16", "cntlim", "fofb", "flavor"}
  Bytes = {"resolution", "polarity", "dual", "ramptype", "percent"}
  Values <- MCValues
  Factors <- MCFactors
  Polarities = {0, 5}
  Percents = {4, 300}
  Conv18 = 2
  Conv20 = 8
  Conv16 = 5
  GainOne = 7
  SampleRate = 3
  FullScale = 7
  DacRange = 12
  AdcRange = 24
  GainRange = 40
  Word = 80
  Unit = 2
  Ulps = 4
  CntRange = 16
  None = None
INVARIANTS
  TypeOK
  FlavorFresh
  ReadBack
  FofbScaleCurrent
