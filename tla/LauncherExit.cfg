SPECIFICATION FairSpec
CONSTANTS
  Hosts <- MCHosts
  Handled = {"SIGINT", "SIGTERM", "SIGHUP"}
  Fatal = {"SIGKILL"}
  Codes = {0, 1, 2}
INVARIANT MirrorsEverySignal
CHECK_DEADLOCK FALSE
