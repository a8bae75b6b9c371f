SPECIFICATION Spec
CONSTANTS
  MbDepth = 2
  CreditMax = 2
  QueDepth = 2
  Loads = {1, 3}
  Stores = {2}
  Page <- MCPage
  PageOf <- MCPageOf
  Flushes = {FALSE, TRUE}
INVARIANTS
  TypeOK
  OneRequestPerMiss
  NoDuplicateMiss
  FaultTracked
  CreditsMatch
  ResultOfItsRequest
