SPECIFICATION Spec
CONSTANTS
  Jobs = {j1}
  Texts = {t1, t2}
  NoText = none
  Imports = {i1, i2, i3}
  Closings = {k1, k2}
SYMMETRY Symmetry
INVARIANTS TypeOK HistoryIsTrue RunsTellTheTruth
CHECK_DEADLOCK FALSE
