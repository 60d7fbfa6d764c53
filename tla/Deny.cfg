\* Two packages that may share an app id, two threads, three requests, while apps come
\* and go twice; or two processes on the list and one soft reboot; or one process with
\* Zygisk in it, two modules and two descriptors of theirs.
SPECIFICATION DenySpec
CONSTANTS
  Pkgs = {"a", "b"}
  Isolated = "isolated"
  Procs = {"main"}
  AllProcs = ""
  AppIds = {1, 2}
  Threads = {1, 2}
  MaxRequests = 3
  MaxMoves = 2
  Apps = {1, 2}
  Denied = {1, 2}
  MaxReboots = 1
  Modules = {m1, m2}
  Fds = {x, y}
  MayMiss <- mc_MayMiss
  ForkFails = FALSE
CONSTRAINT Untorn
CHECK_DEADLOCK FALSE
INVARIANTS MapsAgree  ZygoteNsKept UnmapClean FdsSanitized DenyRespected
           
 
