SPECIFICATION ServerSpec
CONSTANTS
  a1 = a1
  b1 = b1
  A = A
  B = B
  None = None
  Associations = {a1, b1}
  OwnerOf <- TwoOwners
  FrameLimit <- Limits
  Watched = A
  Breakable = {a1}
  ResvSeconds = {0}
  Second = 1
  Capacity = 2
  SlotSize <- UnequalSlots
  ReportSizes <- EventSizes
  Members = {m1}
  EventReasons = {"data_change"}
  EntryMax = 3
  SqMod = 1
  DropMod = 1
  TimeMax = 1
  BufferTime = 0
  MinIntegrity = 1
  TriggerSettings <- EventOnly
  IntegrityPeriods = {0}
  OptionalSettings = {o1}
INVARIANTS EnabledHasLiveOwner
PROPERTIES NoSilentSkip
CHECK_DEADLOCK FALSE
