SPECIFICATION SelectionSpec
CONSTANTS
  Associations = {a, b}
  Commands = {on}
  TestCommands = {}
  None = None
  Enhanced = FALSE
  Hosts = {"threads"}
  Timeout = 1
  MaxAttempts = 4
  TimeMax = 2
SYMMETRY AssociationSymmetry
INVARIANTS SelectionTimesOut
CHECK_DEADLOCK FALSE
