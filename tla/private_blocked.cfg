SPECIFICATION Spec
CHECK_DEADLOCK FALSE
CONSTANTS
  Lines <- OneWord
  Nicks <- SenderNicks
  Online <- OnlineNicks
  Granule = 16
INVARIANT BlockHolds
