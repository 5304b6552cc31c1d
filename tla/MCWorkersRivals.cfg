SPECIFICATION WorkersSpec
CONSTANTS
  TaskID = {1}
  UniqueKey = {}
  NoKey = NoKey
  NoMsg = NoMsg
  NoTask = NoTask
  LeaseDuration = 2
  MaxArchiveSize = 2
  ArchiveTTL = 9
  ForwardLimit = 2
  BatchSize = 1
  UnpackLimit = 2
  Second = 1
  Time <- MCTime
  MaxRetried = 1
  Server = {1, 2}
  Slot = {1}
  Skew <- NoSkew
  Spread = 0
  Grace = 2
  Transit = 1
  Delay = 0
  RetryDelay = 1
  MaxNow = 6
PROPERTY RecoversOnlyAbandoned
