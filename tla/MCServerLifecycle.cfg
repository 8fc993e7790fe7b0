\* Three cores: three workers and three sub reactors.
CONSTANTS
  Workers = {w1, w2, w3}
  Owner = owner
  NoTask = none
  NReactors = 3
SPECIFICATION Spec
\* The Server has been destroyed, the process has fallen, or all loops wait.
CHECK_DEADLOCK FALSE
INVARIANTS TypeOK
PROPERTIES UseIsConfined EveryLoopStarts ShutdownReturns
