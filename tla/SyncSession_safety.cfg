CONSTANTS
  r1 = r1
  r2 = r2
  write = write
  removal = removal
  Record = {r1, r2}
  Change = {write}
  EditOf <- MCEditOf
  PageSize = 1
  MaxChangesPerPush = 2
  Resets = TRUE
  MaxSeq = 3
  MaxGeneration = 3
  MaxCloses = 2
SPECIFICATION Spec
INVARIANTS TypeOK CheckpointHonest QuietMeansSettled
CHECK_DEADLOCK FALSE
