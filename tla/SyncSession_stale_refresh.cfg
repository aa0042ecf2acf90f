CONSTANTS
  r1 = r1
  r2 = r2
  write = write
  removal = removal
  Record = {r1, r2}
  Change = {write, removal}
  EditOf <- MCEditOf
  PageSize = 1
  MaxChangesPerPush = 1
  Resets = FALSE
  MaxSeq = 2
  MaxGeneration = 3
  MaxCloses = 1
SPECIFICATION Spec
INVARIANT OpenIsNotClosed
CHECK_DEADLOCK FALSE
