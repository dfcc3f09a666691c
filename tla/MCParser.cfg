CONSTANTS
  Inputs <- MCInputs
  Files <- MCFiles
SPECIFICATION Spec
INVARIANTS
  ParseInvertsPrint
  AcceptedReadsBack
PROPERTY
  ParseReturns
