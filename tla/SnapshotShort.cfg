SPECIFICATION Spec
CONSTANTS
  Trigs = {0}
  N = 27
  NoAddr = NoAddr
  Pts = 8
  InjPts = 4
  InjSent = 4
  PtsPerPoll = 4
  SMin = 3
  SMax = 3
INVARIANTS
  SnapshotComplete
