SPECIFICATION Spec
CHECK_DEADLOCK FALSE
CONSTANTS
  c1 = c1
  c2 = c2
  c3 = c3
  w1 = w1
  Workers = {w1}
  Conns = {c1, c2, c3}
  MaxFd = 3
  Listenq = 2
  MaxSent <- Talk20
  Speaks <- AllWords
  Slow = {}
  EPOLL_SIZE = 2
  Interrupts = FALSE
  None = None
  Listener = Listener
  Garbage = Garbage
  Idle = Idle
SYMMETRY AlikeClients
INVARIANT TypeOK
PROPERTY BroadcastReachesAll
