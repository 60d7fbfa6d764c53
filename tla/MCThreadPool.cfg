\* Tasks end.  Two core threads and five tasks: up to three threads beyond the
\* core time out at every possible moment; one pthread_create may fail.
SPECIFICATION FairSpecTasksEnd
CONSTANTS
  Threads = {1, 2, 3, 4, 5}
  Tasks = {1, 2, 3, 4, 5}
  NoTask = NoTask
  CORE_POOL_SIZE = 2
  MaxSpawnFailures = 1
ACTION_CONSTRAINT LeastFirst
INVARIANT TaskHasTaker
PROPERTIES ImplementsService EveryTaskRuns AcceptLoopLives
