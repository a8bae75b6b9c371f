SPECIFICATION Spec
CONSTANTS
  InvLast = 1
  Cp0Ops = {"tlbwi", "tlbwr", "invasid", "invall", "tlbr"}
  DtlbDepth = 1
INVARIANTS
  TypeOK
  NoOrphanedMiss
  OneWalkPerMiss
  OneOperAtATime
  WriteFollowsItsRead
  OperExcludesRefill
  OperReleasesArbiter
PROPERTIES
  Cp0DoneIsDone
