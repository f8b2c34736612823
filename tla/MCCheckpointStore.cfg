SPECIFICATION StoreSpec
CONSTANTS
  Images = {i1, i2, i3}
  NoImage = NoImage
  GenMax = 5
  FaultPoints = {"erase", "sync_erase", "header", "payload", "sync_image"}
SYMMETRY ImageSymmetry
INVARIANTS CommittedRecoverable FallbackKept
CHECK_DEADLOCK FALSE
