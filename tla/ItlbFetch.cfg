SPECIFICATION FairSpec
CONSTANTS
  Fast = {0}
  Slow = {1}
  Vpn <- MCVpn
  Low <- MCLow
  Invs = {"none", "all", "p"}
INVARIANTS
  OneRequest
  NoDuplicateEntry
PROPERTIES
  InvClears
  ImplementsPageMisses
  FetchAnswered
