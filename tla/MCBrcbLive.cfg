SPECIFICATION FairServerSpec
CONSTANTS
  a1 = a1
  b1 = b1
  A = A
  B = B
  None = None
  Associations = {a1, b1}
  OwnerOf <- TwoOwners
  FrameLimit <- Limits
  Watched = None
  Breakable = {}
  ResvSeconds = {0, 1}
  Second = 1
  Capacity = 1
  SlotSize <- OneSlot
  ReportSizes <- Sizes
  Members = {m1}
  EventReasons = {"data_change"}
  EntryMax = 2
  SqMod = 1
  DropMod = 1
  TimeMax = 1
  BufferTime = 0
  MinIntegrity = 1
  TriggerSettings <- AllTriggers
  IntegrityPeriods = {1}
  OptionalSettings = {o1}
PROPERTIES ReservationHonoured FrontProgresses ReservationEnds InterrogationAnswered
CHECK_DEADLOCK FALSE
