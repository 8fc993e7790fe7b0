\* Callbacks may close their connection.
CONSTANTS
  Clients = {c1, c2, c3, c4}
  NReactors = 2
  MaxFd = 5
  MaxSends = 1
  MaxStops = 1
  MaxResets = 0
  AppCloses = TRUE
  OnConnectSet = TRUE
  None = none
  Spare = spare
SPECIFICATION Spec
SYMMETRY Symmetry
\* An idle server waits in epoll_wait for clients that need not come.
CHECK_DEADLOCK FALSE
INVARIANTS TypeOK CallbackOwnsConnection NoOrphanStream
PROPERTIES LiveConnectionsNeverThrow
