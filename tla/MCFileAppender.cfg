\* Three threads log three records through a queue of one.
CONSTANTS
  r1 = r1
  r2 = r2
  r3 = r3
  Producers = {p1, p2, p3}
  Owner = owner
  Records = {r1, r2, r3}
  LevelOf <- MCLevelOf
  LoggerLevel = 1
  Levels = {0, 3}
  MaxQueue = 1
  DiskMayFail = TRUE
  MaxReopens = 1
  Pill = pill
  LogStart = logstart
  LogEnd = logend
  NoRecord = none
SPECIFICATION FairSpec
INVARIANTS TypeOK ConsumedInOrder SleepersJustified WriterSleepsOnEmpty DrainedAtDestruction FileIsOneStretch
PROPERTIES ImplementsService LogReturns DestructorReturns
