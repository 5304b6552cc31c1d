\* Two calls, so that locks and IDs meet; room for one more option in the task's
\* array, which all calls that use it want for the same one.
CONSTANTS
  Queue = {1, 2}
  Caller = {c1, c2}
  TaskOpts <- MCTaskOpts
  Choices <- MCChoices
  Spare = 1
  DefaultTimeout = 6
  DefaultMaxRetry = 25
  MaxNow = 6
SPECIFICATION Spec
INVARIANTS TypeOK LastOverrides InTime NotEarly UniqueApart
