SPECIFICATION DeliverySpec
CONSTANTS
  TaskID = {1}
  UniqueKey = {}
  NoKey = NoKey
  NoMsg = NoMsg
  NoTask = NoTask
  LeaseDuration = 1
  MaxArchiveSize = 2
  ArchiveTTL = 1
  ForwardLimit = 1
  BatchSize = 1
  UnpackLimit = 2
  Second = 2
  Time <- MCTime
  MaxRetried = 1
  Server = {1}
  Slot = {1}
  Skew <- NoSkew
  Spread = 0
  Grace = 2
  Transit = 0
  Delay = 0
  RetryDelay = 1
  MaxNow = 1
  Floor = 3
  MaxStops = 1
INVARIANTS
  SyncerCanRetry
