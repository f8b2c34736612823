SPECIFICATION ControlLinkSpec
CONSTANTS
  None = None
  Values = {on, off}
  CtlNumMax = 2
  ReportQueueMax = 2
  WireMax = 2
  Authorizations = {TRUE, FALSE}
SYMMETRY ValueSymmetry
INVARIANTS ControlTypeOK OperatesWhatWasAsked OperatesTheSelection PlannerAgrees
PROPERTIES CompletedByOwnReport
