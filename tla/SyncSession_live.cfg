CONSTANTS
  r1 = r1
  r2 = r2
  write = write
  removal = removal
  Record = {r1}
  Change = {write, removal}
  EditOf <- MCEditOf
  PageSize = 1
  MaxChangesPerPush = 1
  Resets = TRUE
  MaxSeq = 2
  MaxGeneration = 2
  MaxCloses = 1
SPECIFICATION LiveSpec
INVARIANT NotSentTwice
PROPERTY EveryEditAnswered
PROPERTY CatchesUp
CHECK_DEADLOCK FALSE
