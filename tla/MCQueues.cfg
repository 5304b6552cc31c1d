SPECIFICATION QueuesSpec
CONSTANTS
  Server = {1}
  Queue = {"high", "mid", "low", " "}
  Blank = {" "}
  Default = "low"
  Configs <- Given
  MaxTasks = 2
  Pausable = {"high", "low"}
INVARIANTS
  QueuesTypeOK
  Normalised
  StrictOrder
  SleepsWhenEmpty
PROPERTIES
  Served
