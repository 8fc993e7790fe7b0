CONSTANTS
  Clients = {c1, c2, c3}
  NReactors = 2
  MaxFd = 5
  MaxSends = 1
  MaxStops = 1
  MaxResets = 1
  AppCloses = FALSE
  OnConnectSet = FALSE
  None = none
  Spare = spare
SPECIFICATION FairSpec
CHECK_DEADLOCK FALSE
INVARIANTS CapacityIsHalved
PROPERTIES InputIsRead
