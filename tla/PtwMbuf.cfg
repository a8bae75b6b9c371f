SPECIFICATION FairSpec
CONSTANTS
  N = 2
  DtlbJobs = {d1, d2, d3}
  ItlbJobs = {i1}
  NoJob = NoJob
  NoData = NoData
INVARIANTS
  TypeOK
  OutstandingTracked
  ResponseReachesItsWalk
  NoLostWalk
PROPERTIES
  RequestStable
  ImplementsPteReads
  DrainEnds
