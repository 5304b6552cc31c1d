\* Two callers, so that any two of the methods overlap; a token.
CONSTANTS
  Caller = {c1, c2}
  Slot = {1}
  Waking = {"syncer"}
SPECIFICATION FairSpec
INVARIANTS TypeOK QuietWhenDown ReceiversLive
PROPERTIES NoneStartedAfterStop CallsEnd
