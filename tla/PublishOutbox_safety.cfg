CONSTANTS
  Post = post
  Photo = photo
  Record = {post, photo}
  AssetsOf <- MCAssetsOf
  Request = {q1, q2}
  Alarm = alarm
  DrainLimit = 1
  MaxSeq = 3
  Reservations = {v1, v2}
  Writers = {q1, q2}
  Sweeper = alarm
  MaxEvents = 2
SYMMETRY MCSymmetry
SPECIFICATION MCSpec
INVARIANT TypeOK
INVARIANT NoJobLost
INVARIANT NoStrandedRow
INVARIANT SnapshotIsLatestJob
INVARIANT NotedOrOnItsWay
PROPERTY SeqNeverReused
CHECK_DEADLOCK FALSE
