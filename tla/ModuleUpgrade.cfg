\* The daemon dies once while a disabled module is upgraded.
SPECIFICATION Spec
CONSTANTS
  Modules = {a}
  Absent = Absent
  Packages <- TwoPackages
  ZygiskEnabled = FALSE
  MaxFaults = 1
  MaxRequests = 2
PROPERTY NewOneDisabledToo
