SPECIFICATION FairSpec
CONSTANTS
  Hosts <- MCHosts
  Handled = {"SIGINT", "SIGTERM", "SIGHUP"}
  Fatal = {"SIGKILL"}
  Codes = {0, 1, 2}
INVARIANTS OneScriptAtATime StatusMirrored  OwnToolsFirst
PROPERTIES NoScriptAfterExit OrphanOnlyByFatal LauncherEnds
CHECK_DEADLOCK FALSE
