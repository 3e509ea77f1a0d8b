SPECIFICATION Spec
CHECK_DEADLOCK FALSE
CONSTANTS
  c1 = c1
  c2 = c2
  c3 = c3
  w1 = w1
  Workers = {w1}
  Conns = {c1, c2}
  MaxFd = 2
  Listenq = 2
  MaxSent <- Talk21
  Speaks <- OneCommands
  Slow = {}
  EPOLL_SIZE = 1
  Interrupts = FALSE
  None = None
  Listener = Listener
  Garbage = Garbage
  Idle = Idle
INVARIANTS RegistryExact SpokenByOwner OnlineOnly KnownEnds
PROPERTIES  ImplementsRoom
