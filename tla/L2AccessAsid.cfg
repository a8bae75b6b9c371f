SPECIFICATION Spec
CONSTANTS
  InvLast = 1
  Cp0Ops = {}
  DtlbDepth = 1
INVARIANTS
  AsidScansEverySet
