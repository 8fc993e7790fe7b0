\* Reopen on a file system that never fails.
CONSTANTS
  r1 = r1
  r2 = r2
  r3 = r3
  Producers = {p1}
  Owner = owner
  Records = {r1, r2, r3}
  LevelOf <- MCLevelOf
  LoggerLevel = 1
  Levels = {0}
  MaxQueue = 1
  DiskMayFail = FALSE
  MaxReopens = 1
  Pill = pill
  LogStart = logstart
  LogEnd = logend
  NoRecord = none
SPECIFICATION Spec
PROPERTY ReopenRestores
