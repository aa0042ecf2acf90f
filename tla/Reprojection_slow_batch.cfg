CONSTANTS
  Record = {1, 2}
  Worker = {w1, w2}
  PageSize = 1
  BatchSize = 2
  Margin = 1
  Skew = 0
  MaxBatch = 2
  MaxSeq = 3
  MaxTime = 3
  MaxRebuilds = 1
SYMMETRY WorkerSymmetry
SPECIFICATION Spec
PROPERTY CurrentRowSurvives
CHECK_DEADLOCK FALSE
