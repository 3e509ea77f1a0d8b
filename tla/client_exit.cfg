SPECIFICATION FairSpec
CHECK_DEADLOCK FALSE
CONSTANTS
  amy = amy
  bob = bob
  Users = {bob}
  Kinds = {"text", "exit"}
  Forms = {"chat"}
  Holds = {3}
  MaxLines = 2
  MaxTexts = 0
  Slow = FALSE
  Resets = FALSE
PROPERTY ExitDisconnects
