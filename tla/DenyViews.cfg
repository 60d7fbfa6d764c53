\* An app is uninstalled and then taken off the list.
SPECIFICATION Spec
CONSTANTS
  Pkgs = {"a", "b"}
  Isolated = "isolated"
  Procs = {"main"}
  AllProcs = ""
  AppIds = {1}
  Threads = {1}
  MaxRequests = 2
  MaxMoves = 1
CHECK_DEADLOCK FALSE
INVARIANT ViewsPointToKeys
