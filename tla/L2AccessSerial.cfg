SPECIFICATION Spec
CONSTANTS
  InvLast = 1
  Cp0Ops = {"tlbp"}
  DtlbDepth = 1
INVARIANTS
  OneOperAtATime
