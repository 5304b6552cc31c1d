SPECIFICATION Spec
CONSTANTS
  TaskID = {1, 2, 3, 4}
  UniqueKey = {}
  NoKey = NoKey
  NoMsg = NoMsg
  NoTask = NoTask
  LeaseDuration = 1
  MaxArchiveSize = 3
  ArchiveTTL = 1
  ForwardLimit = 2
  BatchSize = 1
  UnpackLimit = 1
  Second = 1
  Time = {0, 1}
  MaxRetried = 0
INVARIANT ArchiveBounded
