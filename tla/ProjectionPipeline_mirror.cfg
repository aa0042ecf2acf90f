CONSTANTS
  Post = post
  Photo = photo
  Record = {post}
  AssetsOf <- MCAssetsOf
  Request = {q1}
  Alarm = alarm
  DrainLimit = 1
  MaxSeq = 2
  Worker = {w1, w2}
  MaxParked = 1
SPECIFICATION PipelineFairSpec
INVARIANT LagHasJob
INVARIANT DerivedMatchesRow
PROPERTY ImplementsMirror
PROPERTY EventuallyShown
CHECK_DEADLOCK FALSE
