SPECIFICATION FairSpec
CONSTANTS
  Trigs = {0, 3}
  N = 11
  NoAddr = NoAddr
  Pts = 2
  InjPts = 2
  InjSent = 2
  PtsPerPoll = 2
  SMin = 1
  SMax = 2
INVARIANTS
  TypeOK
  SnapshotIntact
PROPERTIES
  LatestReported
