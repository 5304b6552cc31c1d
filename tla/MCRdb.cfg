SPECIFICATION Spec
CONSTANTS
  TaskID = {1, 2, 3}
  UniqueKey = {k}
  NoKey = NoKey
  NoMsg = NoMsg
  NoTask = NoTask
  LeaseDuration = 1
  MaxArchiveSize = 2
  ArchiveTTL = 1
  ForwardLimit = 2
  BatchSize = 1
  UnpackLimit = 2
  Second = 1
  Time = {0, 1}
  MaxRetried = 0
INVARIANTS
  TypeOK
  ListedIsStored
  StoredIsListed
  PendingOnce
  LeasedIffActive
PROPERTIES
  LifecycleSpec
  LockKept
