SPECIFICATION LinkSpec
CONSTANTS
  Streams = {s1, s2}
  Watched = s1
  Values = {v1, v2, bad}
  Initial = v1
  Unrepresentable = bad
  MinTime = 2
  MaxTime = 3
  DefaultMinTime = 3
  DefaultMaxTime = 7
  IntMax = 7
  StMax = 5
  SqMax = 3
  InitialState = 4
  Capacity = 2
  PollJitter = 0
  ChangesMax = 2
  StartsMax = 2
  NetDelay = 1
  HoldMax = 2
  FaultMax = 0
  CountMod = 2
  None = None
INVARIANT NotificationsCollapsed
CHECK_DEADLOCK FALSE
