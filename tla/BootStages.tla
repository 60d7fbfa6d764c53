----------------------------- MODULE BootStages -----------------------------
(***************************************************************************)
(* The boot of a device under magiskd, core/bootstages.rs: the stages init *)
(* asks for, safe mode, the bootloop counter, and what the stages do to    *)
(* modules and to zygisk.  Several boots follow one another; a boot may    *)
(* end at any step, and the daemon may be stopped or die within a boot.    *)
(*                                                                         *)
(* The handlers of the three stages run on threads of the pool and take    *)
(* boot_stage_lock for their whole run, so at most one is between steps;   *)
(* the handlers of ZYGOTE_RESTART and STOP_DAEMON do not take it.          *)
(***************************************************************************)
EXTENDS ZygiskProp, FiniteSets

CONSTANTS
  Modules,            \* directories under MODULEROOT
  ZygiskModules,      \* those with a zygisk folder
  IsEmulator,         \* MagiskD.is_emulator, the default of ZygiskConfig
  Unset,              \* MagiskD.module_list before it is set
  Overrun,            \* post-fs-data may outlast POST_FS_DATA_WAIT_TIME
  MaxBoots,           \* bound: boots
  MaxFaults,          \* bound: storage operations that fail
  MaxRestarts,        \* bound: restarts of zygote in one boot
  MaxStops            \* bound: how often the daemon stops or dies

ASSUME ModulesAssumption ==
  ZygiskModules \subseteq Modules /\ \A ms \in SUBSET Modules : ms # Unset
ASSUME FlagsAssumption == IsEmulator \in BOOLEAN /\ Overrun \in BOOLEAN
ASSUME BoundsAssumption ==
  MaxBoots \in Nat /\ MaxFaults \in Nat /\ MaxRestarts \in Nat /\ MaxStops \in Nat

VARIABLES
  \* storage, which survives a boot
  bootloop,           \* DbEntryKey::BootloopCount
  zygisk_config,      \* DbEntryKey::ZygiskConfig
  disabled,           \* modules with a "disable" file
  \* init and zygote
  requested,          \* the stages init has asked for in this boot
  restarts,           \* restarts of zygote in this boot
  \* the daemon
  waiting,            \* stage handlers that wait for boot_stage_lock
  step,               \* what the holder of boot_stage_lock does next
  state,              \* BootState
  zygisk_enabled,     \* MagiskD.zygisk_enabled
  module_list,        \* MagiskD.module_list
  \* history
  unfinished,         \* boots in a row that loaded modules, none completed
  clean,              \* safe mode disabled everything, nothing was enabled since
  ran,                \* the kinds of scripts that ran in this boot
  boots, faults, stops

storage == <<bootloop, zygisk_config, disabled>>
device == <<requested, restarts>>
daemon == <<waiting, step, state, zygisk_enabled, module_list>>
bridge == <<nbprop, zygisk>>
history == <<unfinished, clean, ran, boots, stops>>
vars == <<storage, device, daemon, bridge, history, faults>>

Stages == {"POST_FS_DATA", "LATE_START", "BOOT_COMPLETE"}
Flags == {"PostFsDataDone", "LateStartDone", "BootComplete", "SafeMode"}
Steps == {"free", "count", "disableModules", "disableZygisk", "scripts",
          "modules", "lateStart", "resetCount", "resetZygisk"}

FreshDaemon ==
  /\ waiting = {} /\ step = "free" /\ state = {}
  /\ zygisk_enabled = FALSE /\ module_list = Unset
  /\ FreshState

Init ==
  /\ bootloop = 0 /\ zygisk_config \in BOOLEAN /\ disabled = {}
  /\ requested = {} /\ restarts = 0
  /\ FreshDaemon
  /\ nbprop = OrigBridge
  /\ unfinished = 0 /\ clean = FALSE /\ ran = {}
  /\ boots = 1 /\ faults = 0 /\ stops = 0

-----------------------------------------------------------------------------
PostFsData == {"count", "disableModules", "disableZygisk", "scripts", "modules"}

\* init runs "magisk --post-fs-data" and waits for the client, which waits for
\* the handler, but no longer than POST_FS_DATA_WAIT_TIME.
PostFsDataReturned ==
  /\ "POST_FS_DATA" \in requested
  /\ Overrun \/ ("POST_FS_DATA" \notin waiting /\ step \notin PostFsData)

\* The stages of init.rc in their order.  The triggers may fire again: of
\* LATE_START when vold restarts the framework, of BOOT_COMPLETE each time
\* the framework has come up.
Request(stage) ==
  /\ CASE stage = "POST_FS_DATA" -> stage \notin requested
       [] stage = "LATE_START" -> PostFsDataReturned
       [] stage = "BOOT_COMPLETE" -> "LATE_START" \in requested /\ stage \notin requested
  /\ requested' = requested \cup {stage}
  /\ waiting' = waiting \cup {stage}
  /\ UNCHANGED <<storage, restarts, step, state, zygisk_enabled, module_list,
                 bridge, history, faults>>

\* A stage handler gets boot_stage_lock and looks at BootState.
Acquire(stage) ==
  /\ step = "free"
  /\ stage \in waiting
  /\ waiting' = waiting \ {stage}

\* check_data() fails: /data is not there yet.  init asks again when it is.
PostFsDataEarly ==
  /\ Acquire("POST_FS_DATA")
  /\ requested' = requested \ {"POST_FS_DATA"}
  /\ UNCHANGED <<storage, restarts, step, state, zygisk_enabled, module_list,
                 bridge, history, faults>>

EnterPostFsData ==
  /\ Acquire("POST_FS_DATA")
  /\ step' = IF "PostFsDataDone" \in state THEN "free" ELSE "count"
  /\ UNCHANGED <<storage, device, state, zygisk_enabled, module_list, bridge,
                 history, faults>>

EnterLateStart ==
  /\ Acquire("LATE_START")
  /\ step' = IF "PostFsDataDone" \in state /\ "SafeMode" \notin state
               THEN "lateStart" ELSE "free"
  /\ UNCHANGED <<storage, device, state, zygisk_enabled, module_list, bridge,
                 history, faults>>

EnterBootComplete ==
  /\ Acquire("BOOT_COMPLETE")
  /\ IF "PostFsDataDone" \in state
       THEN state' = state \cup {"BootComplete"} /\ step' = "resetCount"
       ELSE UNCHANGED <<state, step>>
  /\ UNCHANGED <<storage, device, zygisk_enabled, module_list, bridge, history,
                 faults>>
-----------------------------------------------------------------------------
\* The operations of a step that fail, out of n: each one is a fault.
Failing(n) == {k \in 0 .. n : faults + k <= MaxFaults}

\* post_fs_data returns: true sets SafeMode.
ReturnPostFsData(safe_mode) ==
  /\ step' = "free"
  /\ state' = state \cup {"PostFsDataDone"}
                    \cup IF safe_mode THEN {"SafeMode"} ELSE {}

\* SECURE_DIR is missing, or setup_magisk_env finds no busybox.
AbortPostFsData ==
  /\ step = "count"
  /\ ReturnPostFsData(TRUE)
  /\ UNCHANGED <<storage, device, waiting, zygisk_enabled, module_list, bridge,
                 history, faults>>

\* Fault: one more boot is let through.
CountBoot_Late ==
  /\ step = "count"
  /\ \E readFails, writeFails \in {0, 1}, asked \in BOOLEAN :
       LET boot_cnt == IF readFails = 1 THEN 0 ELSE bootloop IN
       /\ readFails + writeFails \in Failing(2)
       /\ faults' = faults + readFails + writeFails
       /\ bootloop' = IF writeFails = 1 THEN bootloop ELSE boot_cnt + 1
       /\ step' = IF boot_cnt > 2 \/ asked THEN "disableModules" ELSE "scripts"
  /\ UNCHANGED <<zygisk_config, disabled, device, waiting, state,
                 zygisk_enabled, module_list, bridge, history>>

\* "Check safe mode": read the counter, store it plus one, look at it, at the
\* safe-mode properties and at the volume key.  A failed read gives 0.
CountBoot ==
  /\ step = "count"
  /\ \E readFails, writeFails \in {0, 1}, asked \in BOOLEAN :
       LET boot_cnt == IF readFails = 1 THEN 0 ELSE bootloop IN
       /\ readFails + writeFails \in Failing(2)
       /\ faults' = faults + readFails + writeFails
       /\ bootloop' = IF writeFails = 1 THEN bootloop ELSE boot_cnt + 1
       /\ step' = IF boot_cnt >= 2 \/ asked THEN "disableModules" ELSE "scripts"
  /\ UNCHANGED <<zygisk_config, disabled, device, waiting, state,
                 zygisk_enabled, module_list, bridge, history>>

\* disable_modules: an error on one module leaves out the ones after it.
DisableModules ==
  /\ step = "disableModules"
  /\ \E fails \in Failing(1) :
       /\ faults' = faults + fails
       /\ \E reached \in IF fails = 1 THEN SUBSET Modules ELSE {Modules} :
            disabled' = disabled \cup reached
  /\ step' = "disableZygisk"
  /\ UNCHANGED <<bootloop, zygisk_config, device, waiting, state,
                 zygisk_enabled, module_list, bridge, history>>

\* set_db_setting(ZygiskConfig, 0), and the end of a safe-mode post_fs_data.
DisableZygisk ==
  /\ step = "disableZygisk"
  /\ \E fails \in Failing(1) :
       /\ faults' = faults + fails
       /\ zygisk_config' = (zygisk_config /\ fails = 1)
  /\ clean' = (disabled = Modules /\ ~zygisk_config')
  /\ ReturnPostFsData(TRUE)
  /\ UNCHANGED <<bootloop, disabled, device, waiting, zygisk_enabled,
                 module_list, bridge, unfinished, ran, boots, stops>>

\* The common scripts, and the value of zygisk_enabled for this boot.
RunScripts ==
  /\ step = "scripts"
  /\ \E fails \in Failing(1) :
       /\ faults' = faults + fails
       /\ zygisk_enabled' = IF fails = 1 THEN IsEmulator ELSE zygisk_config
  /\ ran' = ran \cup {"post-fs-data"}
  /\ unfinished' = unfinished + 1
  /\ step' = "modules"
  /\ UNCHANGED <<storage, device, waiting, state, module_list, bridge, clean,
                 boots, stops>>

\* Fault: modules with a "disable" file are collected too.
HandleModules_All ==
  /\ step = "modules"
  /\ module_list' = {m \in Modules : m \in ZygiskModules => zygisk_enabled}
  /\ IF zygisk_enabled THEN SetProp ELSE UNCHANGED <<lib_name, nbprop>>
  /\ ReturnPostFsData(FALSE)
  /\ UNCHANGED <<storage, device, waiting, zygisk_enabled, start_count,
                 history, faults>>

\* handle_modules: collect, run their scripts, mount, set the native bridge.
HandleModules ==
  /\ step = "modules"
  /\ module_list' = {m \in Modules \ disabled :
                       m \in ZygiskModules => zygisk_enabled}
  /\ IF zygisk_enabled THEN SetProp ELSE UNCHANGED <<lib_name, nbprop>>
  /\ ReturnPostFsData(FALSE)
  /\ UNCHANGED <<storage, device, waiting, zygisk_enabled, start_count,
                 history, faults>>

LateStart ==
  /\ step = "lateStart"
  /\ ran' = ran \cup {"service"}
  /\ state' = state \cup {"LateStartDone"}
  /\ step' = "free"
  /\ UNCHANGED <<storage, device, waiting, zygisk_enabled, module_list, bridge,
                 unfinished, clean, boots, stops, faults>>

\* boot_complete: first the bootloop counter ...
ResetCount ==
  /\ step = "resetCount"
  /\ \E fails \in Failing(1) :
       /\ faults' = faults + fails
       /\ bootloop' = IF fails = 1 THEN bootloop ELSE 0
  /\ unfinished' = 0
  /\ step' = "resetZygisk"
  /\ UNCHANGED <<zygisk_config, disabled, device, waiting, state,
                 zygisk_enabled, module_list, bridge, clean, ran, boots, stops>>

\* ... and last the native bridge.
ResetZygisk ==
  /\ step = "resetZygisk"
  /\ IF zygisk_enabled THEN ResetAfterBoot ELSE UNCHANGED bridge
  /\ step' = "free"
  /\ UNCHANGED <<storage, device, waiting, state, zygisk_enabled, module_list,
                 history, faults>>
-----------------------------------------------------------------------------
\* Zygote starts again; its rc file runs "magisk --zygote-restart".
ZygoteRestart ==
  /\ PostFsDataReturned
  /\ restarts < MaxRestarts
  /\ restarts' = restarts + 1
  /\ requested' = requested \ {"BOOT_COMPLETE"}
  /\ IF zygisk_enabled THEN ResetAfterCrash ELSE UNCHANGED bridge
  /\ UNCHANGED <<storage, daemon, history, faults>>

\* The process is gone with all its threads; the next client that may start a
\* daemon finds one with no state.
NewDaemon ==
  /\ waiting' = {} /\ step' = "free" /\ state' = {}
  /\ zygisk_enabled' = FALSE /\ module_list' = Unset
  /\ lib_name' = <<>> /\ start_count' = 1

\* STOP_DAEMON: restore_prop, then exit.
StopDaemon ==
  /\ stops < MaxStops
  /\ stops' = stops + 1
  /\ RestoreProp
  /\ NewDaemon
  /\ UNCHANGED <<storage, device, unfinished, clean, ran, boots, faults>>

DaemonDies ==
  /\ stops < MaxStops
  /\ stops' = stops + 1
  /\ NewDaemon
  /\ UNCHANGED <<storage, device, nbprop, unfinished, clean, ran, boots, faults>>

\* The user changes modules or the zygisk setting on a device that is up.
UserEnables ==
  /\ "BOOT_COMPLETE" \in requested
  /\ \/ zygisk_config' = TRUE /\ UNCHANGED disabled
     \/ \E m \in disabled : disabled' = disabled \ {m} /\ UNCHANGED zygisk_config
  /\ clean' = FALSE
  /\ UNCHANGED <<bootloop, device, daemon, bridge, unfinished, ran, boots,
                 stops, faults>>

\* The device reboots, at any moment and for any reason.
Reboot ==
  /\ boots < MaxBoots
  /\ boots' = boots + 1
  /\ requested' = {} /\ restarts' = 0
  /\ NewDaemon
  /\ nbprop' = OrigBridge
  /\ ran' = {}
  /\ UNCHANGED <<storage, unfinished, clean, stops, faults>>

Next ==
  \/ \E stage \in Stages : Request(stage)
  \/ PostFsDataEarly \/ EnterPostFsData \/ EnterLateStart \/ EnterBootComplete
  \/ AbortPostFsData \/ CountBoot \/ DisableModules \/ DisableZygisk
  \/ RunScripts \/ HandleModules \/ LateStart \/ ResetCount \/ ResetZygisk
  \/ ZygoteRestart \/ StopDaemon \/ DaemonDies \/ UserEnables \/ Reboot

Spec == Init /\ [][Next]_vars
-----------------------------------------------------------------------------
Values == {<<>>, <<NoBridge>>, <<BridgeLib>>, <<ZYGISKLDR>>, <<ZYGISKLDR, BridgeLib>>}

TypeOK ==
  /\ bootloop \in Nat /\ zygisk_config \in BOOLEAN /\ disabled \subseteq Modules
  /\ requested \subseteq Stages /\ restarts \in 0 .. MaxRestarts
  /\ waiting \subseteq Stages /\ step \in Steps /\ state \subseteq Flags
  /\ zygisk_enabled \in BOOLEAN
  /\ module_list = Unset \/ module_list \subseteq Modules
  /\ lib_name \in Values /\ nbprop \in Values /\ start_count \in Nat
  /\ unfinished \in Nat /\ clean \in BOOLEAN
  /\ ran \subseteq {"post-fs-data", "service"}
  /\ boots \in Nat /\ faults \in 0 .. MaxFaults /\ stops \in 0 .. MaxStops

\* A device cannot loop on its modules: at most two boots in a row load them
\* without completing, whatever step each of those boots ended at.  A lost
\* counter costs two boots more.
BootloopBounded == unfinished <= 2 + 2 * faults

\* post_fs_data, safe mode: "Disable all modules and zygisk so next boot will
\* be clean".  Once that is done nothing is loaded in a later boot until the
\* user enables it.
SafeModeSticks ==
  clean => /\ module_list = Unset \/ module_list = {}
           /\ zygisk_enabled => IsEmulator /\ faults > 0

\* No module code runs in a boot in safe mode, and no service script before
\* the post-fs-data scripts, whichever handler gets boot_stage_lock first.
SafeModeRunsNothing ==
  /\ "SafeMode" \in state => ran = {} /\ module_list = Unset /\ ~zygisk_enabled
  /\ "service" \in ran => "post-fs-data" \in ran

\* The property names the loader exactly as long as ZygiskState remembers what
\* to put back, until the daemon is replaced.
LoaderRemembered ==
  stops = 0 /\ (HasLoader(nbprop) \/ lib_name # <<>>) => nbprop = lib_name

\* The loader is never put in front of itself, not by a new daemon either.
NeverStacked == \A i \in 2 .. Len(nbprop) : nbprop[i] # ZYGISKLDR

\* reset: "zygote crashed too many times, rolling-back".  From then on zygote
\* starts without the loader, until the boot is complete.
RollbackSticks == start_count > 3 => ~HasLoader(nbprop)

\* handle_request_sync: "Restore native bridge property".  The property either
\* names the loader or is what it was, where no value is as good as "0".
BridgeRestored ==
  \/ HasLoader(nbprop)
  \/ nbprop = OrigBridge
  \/ OrigBridge = <<>> /\ nbprop = <<NoBridge>>
=============================================================================
