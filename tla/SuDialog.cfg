\* The manager may not open the FIFO of one dialog in time.
SPECIFICATION AnsweredSpec
CONSTANTS
  Reqs = {1, 2, 3, 4}
  ReqUid <- Callers
  NoReq = 0
  InitPolicies <- NoRows
  Managers <- OwnerManager
  NewRows = {}
  NewAccess = {}
  Ignored = {1}
  MaxChanges = 0
ACTION_CONSTRAINTS SeenExpiry SeenChange RootFirst
CHECK_DEADLOCK FALSE
PROPERTY DialogEnds
