SPECIFICATION RuntimeSpec
CONSTANTS
  Capacity = 2
  SlotSize <- UnequalSlots
  ReportSizes <- Sizes
  Members = {m1, m2}
  EventReasons = {"data_change"}
  EntryMax = 3
  SqMod = 3
  DropMod = 2
  TimeMax = 2
  BufferTime = 1
  MinIntegrity = 2
  TriggerSettings <- ScheduleTriggers
  IntegrityPeriods = {1}
  OptionalSettings = {o1, o2}
SYMMETRY DataSymmetry
INVARIANTS TypeOK RetainedConsecutive EntryIdsUnique
PROPERTIES NoSilentOverwrite RefinesReportLog AcceptedEventsSurvive CaptureIsDue
CHECK_DEADLOCK FALSE
