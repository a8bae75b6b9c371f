SPECIFICATION FairSpec
CONSTANTS
  Poll = 5
  Timeout = 8
  Anchors = {"footer"}
  MaxPolls = 3
INVARIANTS WaitingIsTimed PendingBounded
PROPERTIES BackByOneAtMost RefreshSettles
