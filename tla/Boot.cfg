\* Up to five boots, each of which may end at any step, and one storage operation
\* that fails; or two boots with five restarts of zygote and a daemon that stops or
\* dies; or one boot of every kind of device, any hijack of which may fail.
SPECIFICATION BootSpec
CONSTANTS
  ZYGISKLDR = "libzygisk.so"
  NoBridge = "0"
  BridgeLib = "libbridge.so"
  OrigBridge <- HasBridge
  Modules = {"plain", "zygisk"}
  ZygiskModules = {"zygisk"}
  IsEmulator = TRUE
  Unset = Unset
  Overrun = TRUE
  MaxBoots = 5
  MaxFaults = 1
  MaxRestarts = 5
  MaxStops = 1
  Prompt = TRUE
  SetupFails = TRUE
  Devices <- mc_Devices
  Stock = {"a.rc", "f"}
  SbinFiles = {"adbd", "ueventd"}
  RcNames = {"init.rc", "init.zygote.rc", "a.rc", "b.rc"}
ACTION_CONSTRAINT Focus
CHECK_DEADLOCK FALSE
INVARIANTS NeverStacked  BootloopBounded SafeModeSticks
           RootPatchedOnce  BlockedUntilLoaded
 
