SPECIFICATION FairSpec
CONSTANTS
  MbDepth = 2
  CreditMax = 1
  QueDepth = 1
  Loads = {1}
  Stores = {2}
  Page <- MCPage
  PageOf <- MCPageOf
  Flushes = {FALSE, TRUE}
PROPERTIES
  SleeperWakes
CHECK_DEADLOCK FALSE
