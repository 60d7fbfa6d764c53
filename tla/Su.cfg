\* Every setting for an app, the shell and the manager of two users; or one request of
\* an app whose dialog is ignored, two of an app whose dialogs are answered, and one of
\* root; or two su commands, the second of which is run by the first one's shell; or
\* a database of every version and two crashes.
SPECIFICATION SuSpec
CONSTANTS
  AppIds = {10001}
  ManagerAppId = 10002
  SecondUser = 10
  Reqs = {1, 2, 3, 4}
  ReqUid <- Callers
  NoReq = 0
  InitPolicies <- NoRows
  Managers <- OwnerManager
  NewRows <- JustDeny
  NewAccess = {"Disabled"}
  Ignored = {1}
  MaxChanges = 1
  MaxSessions = 2
  OptLists <- mc_OptLists
  MntNsModes = {"Global", "Requester", "Isolate"}
  CanFail = {"fork", "pty"}
  PolicyUids = {1, 2}
  Versions = {0, 7, 8, 9, 10, 11, 12, 13}
  MaxCrashes = 2
ACTION_CONSTRAINTS SeenExpiry SeenChange RootFirst LocalFirst Nested
CHECK_DEADLOCK FALSE
INVARIANTS ReportedIsReal OwnInfo RestrictedStays OpenIsCurrent
PROPERTIES AnswerStands OthersServed ClientReturns 
