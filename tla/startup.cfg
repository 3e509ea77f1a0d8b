SPECIFICATION Spec
CHECK_DEADLOCK FALSE
CONSTANTS
  Arguments <- Typed
  MaxArgs = 3
  IntOf <- Ints
  Cores = "3"
  MaxAddrs = 2
INVARIANTS StartupTypeOK ParsedAsMeant NothingUnknown OneSocket ReadyBeforeUse
PROPERTY StartsOrEnds
