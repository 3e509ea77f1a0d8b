SPECIFICATION FairSpec
CHECK_DEADLOCK FALSE
CONSTANTS
  amy = amy
  bob = bob
  Users = {bob}
  Kinds = {"text", "block", "unblock", "list", "clear", "blank", "exit"}
  Forms = {"chat", "short"}
  Holds = {1, 2}
  MaxLines = 2
  MaxTexts = 2
  Slow = TRUE
  Resets = TRUE
INVARIANTS ClientTypeOK InOrderOnce ShownInOrder NoZombie
PROPERTIES NoLostEdge ServerGoneEndsParent OrphanEnds QuietExitDisconnects
