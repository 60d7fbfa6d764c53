---------------------------- MODULE ModuleStore ----------------------------
(***************************************************************************)
(* The directories of the modules over boots and crashes: upgrade_modules, *)
(* collect_modules, handle_modules, disable_modules and remove_modules of  *)
(* core/module.rs.                                                         *)
(*                                                                         *)
(* root[m] and upd[m] are what MODULEROOT/m and MODULEUPGRADE/m hold.  The *)
(* file system keeps every completed operation; the daemon may die between *)
(* any two of them.  Directory::remove_all unlinks one file at a time, in  *)
(* the order of readdir, and stops at the first error.                     *)
(***************************************************************************)
EXTENDS Naturals

CONSTANTS
  Modules,        \* names of modules
  Absent,         \* there is no such directory
  Packages,       \* what an installer may put into MODULEUPGRADE/m
  ZygiskEnabled,  \* MagiskD.zygisk_enabled
  MaxFaults,      \* bound: deaths of the daemon and failed operations
  MaxRequests     \* bound: what the user does

\* The files that the code looks at; "old" and "new" stand for all others.
Files == {"old", "new", "zygisk", "riru", "disable", "remove", "update"}
Payload(files) == files \cap {"old", "new"}

ASSUME StoreAssumption ==
  /\ \A files \in SUBSET Files : Absent # files
  /\ Packages \subseteq SUBSET Files
  /\ ZygiskEnabled \in BOOLEAN /\ MaxFaults \in Nat /\ MaxRequests \in Nat
  /\ \A p \in Packages : /\ Payload(p) \in {{"old"}, {"new"}}
                         /\ p \cap {"disable", "remove", "update"} = {}

VARIABLES
  root, upd,    \* the two directories
  pc,           \* where handle_modules is
  cur,          \* the module of the current turn of a loop
  disable,      \* the local variable of upgrade_modules
  todo,         \* the entries that the loop of for_each_module still has to read
  list,         \* the list that collect_modules builds
  module_list,  \* MagiskD.module_list, the modules that are mounted
  faults, requests,
  (* History: what has been asked for. *)
  off,          \* modules that were turned off and not on again
  selfoff,      \* those that turned themselves off during this boot
  wanted        \* the payload last installed and not asked to be removed

loop == <<cur, disable, todo, list>>
bounds == <<faults, requests>>
history == <<off, selfoff, wanted>>
vars == <<root, upd, pc, loop, module_list, bounds, history>>

Present == {m \in Modules : root[m] # Absent}
Pending == {m \in Modules : upd[m] # Absent}
Steps == {"off", "safe", "upgrade", "clean", "rename", "flag", "collect", "purge",
          "scripts", "recollect", "repurge", "up", "wipe"}

Init ==
  /\ root \in [Modules -> {Absent, {"old"}}]
  /\ upd = [m \in Modules |-> Absent]
  /\ pc = "up" /\ cur \in Modules /\ disable = FALSE /\ todo = {} /\ list = {}
  /\ module_list = Present
  /\ faults = 0 /\ requests = 0
  /\ off = {} /\ selfoff = {}
  /\ wanted = [m \in Modules |-> IF root[m] = Absent THEN {} ELSE {"old"}]
-----------------------------------------------------------------------------
(* upgrade_modules *)

Boot ==
  /\ pc = "off" /\ pc' = "upgrade"
  /\ selfoff' = {}
  /\ UNCHANGED <<root, upd, loop, module_list, bounds, off, wanted>>

\* The next entry of MODULEUPGRADE: is there an old module, and is it disabled?
UpgradeNext(m) ==
  /\ pc = "upgrade" /\ m \in Pending
  /\ cur' = m
  /\ disable' = (m \in Present /\ "disable" \in root[m])
  /\ pc' = IF m \in Present THEN "clean" ELSE "rename"
  /\ UNCHANGED <<root, upd, todo, list, module_list, bounds, history>>

\* module.remove_all(), then unlink_at of the empty directory
RemoveOne(m) ==
  \/ \E f \in root[m] : root' = [root EXCEPT ![m] = @ \ {f}]
  \/ root[m] = {} /\ root' = [root EXCEPT ![m] = Absent]

Clean ==
  /\ pc = "clean"
  /\ RemoveOne(cur)
  /\ pc' = IF root[cur] = {} THEN "rename" ELSE "clean"
  /\ UNCHANGED <<upd, loop, module_list, bounds, history>>

Rename ==
  /\ pc = "rename"
  /\ root' = [root EXCEPT ![cur] = upd[cur]]
  /\ upd' = [upd EXCEPT ![cur] = Absent]
  /\ pc' = IF disable THEN "flag" ELSE "upgrade"
  /\ UNCHANGED <<loop, module_list, bounds, history>>

Flag ==
  /\ pc = "flag" /\ pc' = "upgrade"
  /\ root' = [root EXCEPT ![cur] = @ \cup {"disable"}]
  /\ UNCHANGED <<upd, loop, module_list, bounds, history>>

\* Both collections open MODULEROOT and start with an empty list.
Collect(step) == pc' = step /\ todo' = Present /\ list' = {}

\* Fault: the loop may end before its last entry.
UpgradeDone_Early ==
  /\ pc = "upgrade"
  /\ Collect("collect")
  /\ UNCHANGED <<root, upd, cur, disable, module_list, bounds, history>>

\* The loop is over: MODULEUPGRADE, which holds no directory any more, goes.
UpgradeDone ==
  /\ pc = "upgrade" /\ Pending = {}
  /\ Collect("collect")
  /\ UNCHANGED <<root, upd, cur, disable, module_list, bounds, history>>

Upgrading == pc \in {"upgrade", "clean", "rename", "flag"}

\* Fault: after an error MODULEUPGRADE is removed all the same.
UpgradeFails_Tidy ==
  /\ Upgrading /\ faults < MaxFaults /\ faults' = faults + 1
  /\ Collect("collect")
  /\ upd' = [m \in Modules |-> Absent]
  /\ UNCHANGED <<root, cur, disable, module_list, requests, history>>

\* An operation fails: `?` leaves the loop, and the rest stays where it is.
UpgradeFails ==
  /\ Upgrading /\ faults < MaxFaults /\ faults' = faults + 1
  /\ Collect("collect")
  /\ UNCHANGED <<root, upd, cur, disable, module_list, requests, history>>
-----------------------------------------------------------------------------
(* collect_modules, once before the scripts and once after them *)

Collecting == pc \in {"collect", "recollect"}
Purging == pc \in {"purge", "repurge"}

Compatible(files) == IF ZygiskEnabled THEN "riru" \notin files ELSE "zygisk" \notin files

\* A module with the flag "remove": its uninstall script is run, and then its
\* files are unlinked.
CollectRemove(m) ==
  /\ Collecting /\ m \in todo \cap Present /\ "remove" \in root[m]
  /\ cur' = m /\ todo' = todo \ {m}
  /\ pc' = IF pc = "collect" THEN "purge" ELSE "repurge"
  /\ UNCHANGED <<root, upd, disable, list, module_list, bounds, history>>

\* Nothing is left that could be on or off.
ForgetOff(m) == off' = IF root'[m] = Absent THEN off \ {m} ELSE off

Purge ==
  /\ Purging
  /\ RemoveOne(cur) /\ ForgetOff(cur)
  /\ pc' = IF root[cur] # {} THEN pc
           ELSE IF pc = "purge" THEN "collect" ELSE "recollect"
  /\ UNCHANGED <<upd, loop, module_list, bounds, selfoff, wanted>>

\* Any other: "update" is unlinked, and it is listed unless disabled or
\* of the wrong kind.
CollectKeep(m) ==
  /\ Collecting /\ m \in todo \cap Present /\ "remove" \notin root[m]
  /\ todo' = todo \ {m}
  /\ root' = [root EXCEPT ![m] = @ \ {"update"}]
  /\ list' = IF "disable" \notin root[m] /\ Compatible(root[m])
               THEN list \cup {m} ELSE list
  /\ UNCHANGED <<upd, pc, cur, disable, module_list, bounds, history>>

AfterCollect(step) ==
  IF step \in {"collect", "purge"}
    THEN pc' = "scripts" /\ todo' = list /\ UNCHANGED module_list
    ELSE pc' = "up" /\ todo' = {} /\ module_list' = list

CollectDone ==
  /\ Collecting /\ todo \cap Present = {}
  /\ AfterCollect(pc)
  /\ UNCHANGED <<root, upd, cur, disable, list, bounds, history>>

\* An operation fails: the list is what was collected so far.
CollectFails ==
  /\ Collecting \/ Purging
  /\ faults < MaxFaults /\ faults' = faults + 1
  /\ AfterCollect(pc)
  /\ UNCHANGED <<root, upd, cur, disable, list, requests, history>>

\* exec_module_scripts: the script of a module may turn its own module off.
ScriptFlags(m, flag) ==
  /\ root' = [root EXCEPT ![m] = @ \cup {flag}]
  /\ off' = off \cup {m} /\ selfoff' = selfoff \cup {m}

Script(m) ==
  /\ pc = "scripts" /\ m \in todo \cap Present
  /\ todo' = todo \ {m}
  /\ \/ UNCHANGED <<root, off, selfoff, wanted>>
     \/ ScriptFlags(m, "disable") /\ UNCHANGED wanted
     \/ ScriptFlags(m, "remove") /\ wanted' = [wanted EXCEPT ![m] = {}]
  /\ UNCHANGED <<upd, pc, cur, disable, list, module_list, bounds>>

\* Fault: the modules of the first collection are used.
ScriptsDone_KeepList ==
  /\ pc = "scripts" /\ todo \cap Present = {}
  /\ pc' = "up" /\ module_list' = list
  /\ UNCHANGED <<root, upd, loop, bounds, history>>

ScriptsDone ==
  /\ pc = "scripts" /\ todo \cap Present = {}
  /\ Collect("recollect")
  /\ UNCHANGED <<root, upd, cur, disable, module_list, bounds, history>>
-----------------------------------------------------------------------------
(* post_fs_data in safe mode: disable_modules *)

BootSafe ==
  /\ pc = "off" /\ pc' = "safe"
  /\ todo' = Present /\ selfoff' = {}
  /\ UNCHANGED <<root, upd, cur, disable, list, module_list, bounds, off, wanted>>

SafeDisable(m) ==
  /\ pc = "safe" /\ m \in todo
  /\ todo' = todo \ {m}
  /\ root' = [root EXCEPT ![m] = @ \cup {"disable"}]
  /\ off' = off \cup {m}
  /\ UNCHANGED <<upd, pc, cur, disable, list, module_list, bounds, selfoff, wanted>>

\* The loop ends, or stops at the first error.
SafeEnds ==
  /\ pc = "safe" /\ pc' = "up"
  /\ \/ todo = {} /\ UNCHANGED faults
     \/ faults < MaxFaults /\ faults' = faults + 1
  /\ todo' = {}
  /\ UNCHANGED <<root, upd, cur, disable, list, module_list, requests, history>>
-----------------------------------------------------------------------------
(* remove_modules *)

Asks == pc = "up" /\ requests < MaxRequests /\ requests' = requests + 1

\* The uninstall scripts are run, and MODULEROOT is unlinked file by file.
RemoveModules ==
  /\ Asks /\ pc' = "wipe"
  /\ wanted' = [m \in Modules |-> {}]
  /\ UNCHANGED <<root, upd, loop, module_list, faults, off, selfoff>>

Wipe(m) ==
  /\ pc = "wipe" /\ m \in Present
  /\ cur \in {m} \cup (Modules \ Present)
  /\ RemoveOne(m) /\ ForgetOff(m)
  /\ cur' = m
  /\ UNCHANGED <<upd, pc, disable, todo, list, module_list, bounds, selfoff, wanted>>

\* It is all gone, or an operation failed.
WipeEnds ==
  /\ pc = "wipe" /\ pc' = "up"
  /\ \/ Present = {} /\ UNCHANGED faults
     \/ faults < MaxFaults /\ faults' = faults + 1
  /\ UNCHANGED <<root, upd, loop, module_list, requests, off, selfoff, wanted>>
-----------------------------------------------------------------------------
(* The daemon dies, the device reboots, the manager changes the directories *)

PowerOff ==
  /\ pc' = "off" /\ module_list' = {}
  /\ UNCHANGED <<root, upd, loop, requests, history>>

Crash == pc # "off" /\ faults < MaxFaults /\ faults' = faults + 1 /\ PowerOff
Reboot == pc = "up" /\ UNCHANGED faults /\ PowerOff

\* The installer replaces MODULEUPGRADE/m, and marks a module that is there.
Install(m) ==
  /\ Asks
  /\ \E p \in Packages :
       /\ upd' = [upd EXCEPT ![m] = p]
       /\ wanted' = [wanted EXCEPT ![m] = Payload(p)]
  /\ root' = IF m \in Present THEN [root EXCEPT ![m] = @ \cup {"update"}] ELSE root
  /\ UNCHANGED <<pc, loop, module_list, faults, off, selfoff>>

Disable(m) ==
  /\ Asks /\ m \in Present
  /\ root' = [root EXCEPT ![m] = @ \cup {"disable"}]
  /\ off' = off \cup {m}
  /\ UNCHANGED <<upd, pc, loop, module_list, faults, selfoff, wanted>>

Enable(m) ==
  /\ Asks /\ m \in Present
  /\ root' = [root EXCEPT ![m] = @ \ {"disable"}]
  /\ off' = off \ {m}
  /\ UNCHANGED <<upd, pc, loop, module_list, faults, selfoff, wanted>>

Remove(m) ==
  /\ Asks /\ m \in Present
  /\ root' = [root EXCEPT ![m] = @ \cup {"remove"}]
  /\ wanted' = [wanted EXCEPT ![m] = {}]
  /\ UNCHANGED <<upd, pc, loop, module_list, faults, off, selfoff>>
-----------------------------------------------------------------------------
\* What the daemon does once it is started.
Daemon ==
  \/ \E m \in Modules :
       UpgradeNext(m) \/ CollectRemove(m) \/ CollectKeep(m) \/ Script(m)
       \/ SafeDisable(m) \/ Wipe(m)
  \/ Clean \/ Rename \/ Flag \/ UpgradeDone \/ Purge \/ CollectDone
  \/ ScriptsDone \/ SafeEnds \/ WipeEnds

Next ==
  \/ Daemon \/ UpgradeFails \/ CollectFails
  \/ Boot \/ BootSafe \/ Crash \/ Reboot \/ RemoveModules
  \/ \E m \in Modules : Install(m) \/ Disable(m) \/ Enable(m) \/ Remove(m)

Spec == Init /\ [][Next]_vars

\* The daemon's thread runs, and the device is not always started in safe mode.
StoreFair == WF_vars(Daemon) /\ SF_vars(Boot)
-----------------------------------------------------------------------------
TypeOK ==
  /\ root \in [Modules -> {Absent} \cup SUBSET Files]
  /\ upd \in [Modules -> {Absent} \cup Packages]
  /\ pc \in Steps /\ cur \in Modules /\ disable \in BOOLEAN
  /\ todo \subseteq Modules /\ list \subseteq Modules /\ module_list \subseteq Modules
  /\ faults \in 0 .. MaxFaults /\ requests \in 0 .. MaxRequests
  /\ off \subseteq Modules /\ selfoff \subseteq Modules
  /\ wanted \in [Modules -> SUBSET Files]

\* Wherever the daemon dies or an operation fails, the last version of a module
\* that was installed is complete in one of the two directories.
Holds(files, payload) == files # Absent /\ payload \subseteq files
NothingLost ==
  \A m \in Modules : wanted[m] # {} =>
    Holds(upd[m], wanted[m]) \/ Holds(root[m], wanted[m])

\* A module directory never has files of two versions.
OneVersion == \A m \in Present : ~({"old", "new"} \subseteq root[m])

\* handle_modules mounts no module that turned itself off while its script ran
\* ("Recollect modules (module scripts could remove itself)"); nor, as long as
\* nothing fails, one that was turned off by the user or by safe mode, not even
\* in a new version.
Mounts == module_list' # module_list /\ pc' = "up"
DisabledStays ==
  [][Mounts => /\ module_list' \cap selfoff = {}
               /\ faults = 0 => module_list' \cap off = {}]_vars

\* upgrade_modules: "If the old module is disabled, we need to also disable the
\* new one", wherever the daemon dies.
NewOneDisabledToo ==
  [][Mounts => \A m \in module_list' \cap off : "new" \notin root[m]]_vars

\* When the device is rebooted again and again, no upgrade stays pending.
UpgradesArrive ==
  \A m \in Modules : []<>(pc = "off") => (m \in Pending ~> m \notin Pending)
=============================================================================
