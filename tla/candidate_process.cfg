SPECIFICATION Spec
CONSTANTS
  Outputs <- MCOutputs
  MaxBytes = 7
  MaxDepth = 2
  PipeCapacity = 2
  ExitCodes <- MCExitCodes
INVARIANTS
  ReadsOneWholeDocument
  JudgesWholeOutput
PROPERTIES
  SeenStays
  InvocationReturns
