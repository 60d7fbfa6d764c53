\* Two modules, one fault and two requests of the user; or two scripts of the
\* stage and three of modules, any of which may hang.
SPECIFICATION ModulesSpec
CONSTANTS
  Modules = {a, b}
  Absent = Absent
  Packages <- TwoPackages
  ZygiskEnabled = FALSE
  MaxFaults = 1
  MaxRequests = 2
  CommonScripts = 2
  ModuleScripts = 3
  Stages = {"post-fs-data", "service"}
INVARIANTS NothingLost
PROPERTIES  UpgradesArrive StageProceeds
