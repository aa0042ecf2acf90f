CONSTANTS
  Record = {1, 2}
  Worker = {w1, w2}
  PageSize = 1
  BatchSize = 1
  Margin = 3
  Skew = 1
  MaxBatch = 1
  MaxSeq = 3
  MaxTime = 4
  MaxRebuilds = 1
SYMMETRY WorkerSymmetry
SPECIFICATION Spec
PROPERTY CurrentRowSurvives
PROPERTY NoResurrection
PROPERTY RebuildRestores
CHECK_DEADLOCK FALSE
