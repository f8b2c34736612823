SPECIFICATION LinkSpec
CONSTANTS
  Streams = {s1, s2}
  Watched = s1
  Values = {v1, v2, bad}
  Initial = v1
  Unrepresentable = bad
  MinTime = 3
  MaxTime = 8
  DefaultMinTime = 3
  DefaultMaxTime = 8
  IntMax = 8
  StMax = 5
  SqMax = 3
  InitialState = 4
  Capacity = 1
  PollJitter = 1
  ChangesMax = 2
  StartsMax = 1
  NetDelay = 1
  HoldMax = 2
  FaultMax = 2
  CountMod = 2
  None = None
INVARIANTS ValidityAhead ExpiryCountedOnce NoFalseTimeout
PROPERTIES NoSilentSkip Converges SilenceNoticed
CHECK_DEADLOCK FALSE
