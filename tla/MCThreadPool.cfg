\* Three workers; one of the three tasks is an event loop, which never returns.
CONSTANTS
  Workers = {w1, w2, w3}
  Owner = owner
  Tasks = {l1, t2, t3}
  Endless = {l1}
  NoTask = none
SPECIFICATION FairSpec
INVARIANTS TypeOK TakenInOrder BacklogCovered NoSleeperAtJoin NoBrokenPromise
PROPERTIES ImplementsService FutureSetOnce AcceptedStarts DestructorReturns
