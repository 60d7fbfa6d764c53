\* A device with a native bridge, one boot.
SPECIFICATION Spec
CONSTANTS
  ZYGISKLDR = "libzygisk.so"
  NoBridge = "0"
  BridgeLib = "libbridge.so"
  OrigBridge <- HasBridge
  Modules = {"plain", "zygisk"}
  ZygiskModules = {"zygisk"}
  IsEmulator = TRUE
  Unset = Unset
  Overrun = FALSE
  MaxBoots = 1
  MaxFaults = 0
  MaxRestarts = 5
  MaxStops = 1
CHECK_DEADLOCK FALSE
INVARIANT BridgeRestored
