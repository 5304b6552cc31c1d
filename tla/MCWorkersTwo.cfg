SPECIFICATION WorkersSpec
CONSTANTS
  TaskID = {1}
  UniqueKey = {}
  NoKey = NoKey
  NoMsg = NoMsg
  NoTask = NoTask
  LeaseDuration = 1
  MaxArchiveSize = 2
  ArchiveTTL = 9
  ForwardLimit = 2
  BatchSize = 1
  UnpackLimit = 2
  Second = 2
  Time <- MCTime
  MaxRetried = 0
  Server = {1, 2}
  Slot = {1}
  Skew <- OneFast
  Spread = 1
  Grace = 4
  Transit = 0
  Delay = 1
  RetryDelay = 0
  MaxNow = 3
INVARIANTS
  LeaseCovers
  LeasesEnd
PROPERTY ListsOnlyAbandoned
