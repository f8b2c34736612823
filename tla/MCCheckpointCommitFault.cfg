SPECIFICATION StoreSpec
CONSTANTS
  Images = {i1, i2, i3}
  NoImage = NoImage
  GenMax = 5
  FaultPoints = {"sync_commit"}
SYMMETRY ImageSymmetry
INVARIANTS CommittedRecoverable
CHECK_DEADLOCK FALSE
