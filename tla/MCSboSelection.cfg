SPECIFICATION FairSelectionSpec
CONSTANTS
  Associations = {a, b}
  Commands = {on, test}
  TestCommands = {test}
  None = None
  Enhanced = TRUE
  Hosts = {"threads", "loop"}
  Timeout = 1
  MaxAttempts = 2
  TimeMax = 1
INVARIANTS ClosedReleases OneOperatePerSelect GrantHonoured LoopSelectionTimesOut
PROPERTIES SelectAnswered
CHECK_DEADLOCK FALSE
