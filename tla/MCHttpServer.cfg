CONSTANTS
  Clients = {c1, c2}
  NReactors = 2
  MaxFd = 6
  MaxSends = 1
  MaxStops = 0
  MaxResets = 0
  AppCloses = FALSE
  OnConnectSet = TRUE
  None = none
  Spare = spare
SPECIFICATION Spec
CHECK_DEADLOCK FALSE
INVARIANT RequestsAreSurvived
