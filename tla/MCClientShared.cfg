\* Two calls with one option each, and room for it in the task's array.
CONSTANTS
  Queue = {1, 2}
  Caller = {c1, c2}
  TaskOpts <- MCTaskOpts
  Choices <- RaceChoices
  Spare = 1
  DefaultTimeout = 6
  DefaultMaxRetry = 25
  MaxNow = 2
SPECIFICATION Spec
INVARIANT LastOverrides
