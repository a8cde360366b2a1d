SPECIFICATION FairSpec
\* A destroyed pool stops.
CHECK_DEADLOCK FALSE
CONSTANTS
  Tasks = {t1, t2}
  NoTask = NoTask
  InitialThreads <- MCInitialThreads
  MaxThreads = 3
  MaxTasks = 2
INVARIANTS
  TypeOK
  IdleExact
PROPERTIES
  DestructorReturns
