SPECIFICATION Spec
CONSTANTS
  Chans = {c1, c2}
  Fields = {f1}
  Values = {0, 1}
  NoChan = NoChan
  Blank = Blank
  Junk = Junk
SYMMETRY Symmetry
INVARIANTS
  TypeOK
PROPERTIES
  SavedSurvives
  SaveTransparent
