SPECIFICATION PersistenceSpec
CONSTANTS
  NoImage = NoImage
  Capacity = 2
  SlotSize <- UnequalSlots
  ReportSizes <- EventSizes
  Members = {m1}
  EventReasons = {"data_change"}
  EntryMax = 3
  SqMod = 1
  DropMod = 1
  TimeMax = 1
  BufferTime = 0
  MinIntegrity = 1
  TriggerSettings <- EventOnly
  IntegrityPeriods = {0, 1}
  OptionalSettings = {o1}
INVARIANTS EncodedRestorable
PROPERTIES RecoveredAsSaved
CHECK_DEADLOCK FALSE
