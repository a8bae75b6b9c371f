SPECIFICATION FairSpec
CONSTANTS
  InvLast = 2
  Cp0Ops = {"tlbp", "all"}
  DtlbDepth = 1
PROPERTIES
  ImplementsWalkService
  LsuInvDone
