SPECIFICATION BankSpec
CONSTANTS
  Readers = {publisher, diagnostics}
  Fields = {frequency, channels}
  Requests = {s0, s1}
  Default = s0
  BankCount = 4
  MaxGeneration = 4
  None = None
SYMMETRY ReaderSymmetry
INVARIANTS WholeSnapshot
PROPERTIES PublishSucceeds ImplementsRegister
