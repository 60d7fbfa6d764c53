\* The pool as built: three core threads busy, a fourth that idles out while
\* the fifth task is posted, and a sixth connection behind it.
SPECIFICATION FairSpec
CONSTANTS
  Threads = {1, 2, 3, 4, 5, 6}
  Tasks = {1, 2, 3, 4, 5, 6}
  NoTask = NoTask
  CORE_POOL_SIZE = 3
  MaxSpawnFailures = 0
ACTION_CONSTRAINT LeastFirst
PROPERTY AcceptLoopLives
