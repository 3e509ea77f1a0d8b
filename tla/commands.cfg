SPECIFICATION Spec
CHECK_DEADLOCK FALSE
CONSTANTS
  Lines <- AllLines
  Nicks <- SenderNicks
  Online <- OnlineNicks
  Granule = 3
INVARIANTS RouteByFirst ChatVerbatim BlockAsTold PrivateWord FilterExact
