---------------------------- MODULE MagiskInit ----------------------------
(***************************************************************************)
(* magiskinit, the first program of a patched device (init/init.rs,        *)
(* twostage.rs, mount.rs, rootdir.rs and rootdir.cpp, mount.cpp,           *)
(* getinfo.cpp).  It decides how the device boots, makes sure it runs      *)
(* again in the second stage when there is one, patches the root           *)
(* directory, and hands over to the original init, which then runs beside  *)
(* the helper of SePatch.  Every device of Devices is booted.              *)
(***************************************************************************)
EXTENDS SePatch, Sequences, Bags, FiniteSets, TLC, SequencesExt, Functions

CONSTANTS
  Devices,   \* the devices that are booted
  Stock,     \* the files of a stock root directory
  SbinFiles, \* what a stock /sbin holds
  RcNames    \* the names that end in .rc

VARIABLES
  dev,        \* the device
  phase,      \* what runs: a handler of magiskinit, "platform", "running", ...
  stage,      \* "first", or "second" when run with selinux_setup
  config,     \* BootConfig
  mount_list, \* what exec_init is to unmount
  mounts,     \* where something of magiskinit's is mounted
  init,       \* what /init is
  sdcard,     \* what is mounted at /sdcard, or became /system/bin/init
  holds,      \* where .backup and overlay.d are: in "/" or in /data
  appeared,   \* the block devices the kernel has found
  want,       \* the name find_block looks for
  root,       \* the files of the root directory, as init will see them
  tmp,        \* Magisk's tmp directory
  sbin,       \* what /sbin shows
  mirror      \* /root, the copy of /sbin

bootvars == <<dev, phase, stage, config, mount_list, mounts, init, sdcard,
              holds, appeared, want, root, tmp, sbin, mirror>>
deviceVars == <<bootvars, sevars>>

\* A path is a directory and a name; from Android 11 on init.rc is in hw.
Rc(d, n) == <<IF d.hw THEN "hw" ELSE "", n>>
Plain(from) == [from |-> from, add |-> EmptyBag]
StockRoot(d) ==
  [p \in {Rc(d, "init.rc"), Rc(d, "init.zygote.rc")} \union ({""} \X Stock) |-> Plain("stock")]

NoConfig == [skip_initramfs |-> FALSE, force_normal_boot |-> FALSE, rootwait |-> FALSE,
             emulator |-> FALSE, slot |-> "", boot_mode |-> ""]

DeviceInit ==
  /\ dev \in Devices /\ phase = "start" /\ stage = "first" /\ config = NoConfig
  /\ mount_list = <<>> /\ mounts = {} /\ init = "magiskinit" /\ sdcard = "none"
  /\ holds = [backup |-> {"/"}, overlay |-> {"/"}]
  /\ appeared = {} /\ want = 1
  /\ root = StockRoot(dev) /\ sbin = (IF dev.sbin THEN SbinFiles ELSE {}) /\ mirror = {}
  /\ tmp = [at |-> "none", rc |-> "none", files |-> {},
            preinit |-> [node |-> FALSE, dir |-> FALSE]]
  /\ SeInit

---------------------------------------------------------------------------
(* getinfo.cpp, getinfo.rs *)

\* BootConfig::set, for one pair of the command line.
set(c, kv) ==
  CASE kv[1] = "slot_suffix" -> IF kv[2] = "normal" THEN c ELSE [c EXCEPT !.slot = kv[2]]
    [] kv[1] = "slot" -> [c EXCEPT !.slot = "_" \o kv[2]]
    [] kv[1] = "skip_initramfs" -> [c EXCEPT !.skip_initramfs = TRUE]
    [] kv[1] = "force_normal_boot" -> [c EXCEPT !.force_normal_boot = kv[2] = "1"]
    [] kv[1] = "rootwait" -> [c EXCEPT !.rootwait = TRUE]
    [] kv[1] = "mode" -> [c EXCEPT !.boot_mode = kv[2]]
    [] kv[1] = "qemu" -> [c EXCEPT !.emulator = TRUE]

\* The volume key has to be held for 300 of 500 polls of some input device.
check_key_combo(d) == d.key = "held"

\* BootConfig::init: the command line, then RECOVERYMODE of Magisk's own
\* configuration, which has the last word on skip_initramfs.
config_init(d) ==
  LET c == FoldLeft(set, NoConfig, d.cmdline) IN
  IF "/" \in holds.backup /\ d.recoverymode
  THEN [c EXCEPT !.skip_initramfs = c.emulator \/ ~check_key_combo(d)] ELSE c

start ==
  /\ phase = "start"
  /\ config' = config_init(dev)
  /\ IF stage = "first"
     THEN mount_list' = <<"/proc", "/sys">> /\ mounts' = mounts \union {"/proc", "/sys"}
     ELSE mount_list' = <<>> /\ UNCHANGED mounts
  /\ phase' = IF stage = "second" THEN "second_stage"
              ELSE IF config'.skip_initramfs THEN "legacy_system_as_root"
              ELSE IF config'.force_normal_boot THEN "first_stage"
              ELSE IF dev.recovery \/ config'.boot_mode = "charger" THEN "recovery_or_charger"
              ELSE IF dev.two_stage THEN "first_stage" ELSE "rootfs"
  /\ UNCHANGED <<dev, stage, init, sdcard, holds, appeared, want, root, tmp, sbin, mirror>>
  /\ UNCHANGED sevars

---------------------------------------------------------------------------
(* init.rs, twostage.rs, mount.rs *)

\* prepare_data: a tmpfs at /data that keeps what the ramdisk holds.
prepare_data ==
  holds' = [k \in DOMAIN holds |-> holds[k] \union (IF "/" \in holds[k] THEN {"/data"} ELSE {})]

\* What happens to /init and /sdcard, as operators on the pair of them.
restore_ramdisk_init(h) == [h EXCEPT !.init = IF dev.backup = "none" THEN "sysinit" ELSE "orig"]
hijack_init_with_switch_root(h) == [init |-> "none", sdcard |-> h.init]
hexpatch_init_for_second_stage(h) == [h EXCEPT !.init = "hexpatched"]

\* switch_root moves the mounts along and empties the ramdisk.
switch_root == [k \in DOMAIN holds |-> holds[k] \ {"/"}]

\* Fault: the mounts stay.
exec_init_NoUnmount(list, points) == mounts' = points /\ phase' = "platform"

\* exec_init unmounts the list, newest first, and executes /init.
exec_init(list, points) == mounts' = points \ Range(list) /\ phase' = "platform"

first_stage ==
  /\ phase = "first_stage" /\ prepare_data
  /\ LET h == [init |-> init, sdcard |-> "none"]
         done == IF ~dev.sdcard
                 THEN restore_ramdisk_init(hijack_init_with_switch_root(h))
                 ELSE hexpatch_init_for_second_stage(restore_ramdisk_init(h)) IN
     /\ init' = done.init /\ sdcard' = done.sdcard
     /\ exec_init(mount_list, mounts \union {"/data"}
                    \union (IF done.sdcard # "none" THEN {"/sdcard"} ELSE {}))
  /\ UNCHANGED <<dev, stage, config, mount_list, appeared, want, root, tmp, sbin, mirror>>
  /\ UNCHANGED sevars

recovery_or_charger ==
  /\ phase = "recovery_or_charger"
  /\ init' = restore_ramdisk_init([init |-> init]).init
  /\ holds' = [holds EXCEPT !.backup = @ \ {"/"}]
  /\ exec_init(mount_list, mounts)
  /\ UNCHANGED <<dev, stage, config, mount_list, sdcard, appeared, want, root, tmp, sbin, mirror>>
  /\ UNCHANGED sevars

---------------------------------------------------------------------------
(* rootdir.cpp, rootdir.rs *)

\* Directory::move_into: files are put over the ones of the same name.
Onto(files, r) ==
  [p \in DOMAIN files \union DOMAIN r |-> IF p \in DOMAIN files THEN files[p] ELSE r[p]]

\* Fault: an init.rc of the overlay is a file like any other.
load_overlay_rc_InitRc(files, r) ==
  LET new == {n \in files \intersect RcNames : <<"", n>> \notin DOMAIN r} IN
  [rc_list |-> new, files |-> [p \in {""} \X (files \ new) |-> Plain("overlay")]]

\* load_overlay_rc: init.rc may not be overwritten, an rc script the root
\* directory has is replaced, and any other is taken out to be injected.
load_overlay_rc(files, r) ==
  LET kept == files \ {"init.rc"}
      new == {n \in kept \intersect RcNames : <<"", n>> \notin DOMAIN r} IN
  [rc_list |-> new, files |-> [p \in {""} \X (kept \ new) |-> Plain("overlay")]]

\* patch_rc_scripts: what is written for init.rc and init.zygote.rc, from the
\* ones in src.
patch_rc_scripts(src, rc_list) ==
  LET i == Rc(dev, "init.rc")
      z == Rc(dev, "init.zygote.rc")
      plus(p, set_) == [src[p] EXCEPT !.add = @ (+) SetToBag(set_)] IN
  [p \in {i, z} |-> IF p = i THEN plus(i, rc_list \union {"magisk"}) ELSE plus(z, {"zygote-restart"})]

\* mount_overlay: the root directory cannot grow, so only what is there
\* already is covered.
mount_overlay(over, r) == [p \in DOMAIN r |-> IF p \in DOMAIN over THEN over[p] ELSE r[p]]

\* mount.cpp, mount_preinit_dir: the node of the device is made once
\* find_block has it, and stays when its file system cannot be mounted; the
\* mirror it is mounted at on the way is unmounted again.
mount_preinit_dir(found) ==
  [node |-> dev.preinit # "none" /\ found, dir |-> dev.preinit = "good" /\ found]

\* setup_tmp: /data becomes the tmp directory, with the applet links.
setup_tmp(at, rc) ==
  \E found \in BOOLEAN :
    tmp' = [at |-> at, rc |-> rc, files |-> {"su", "resetprop", "supolicy", "magisk"},
            preinit |-> mount_preinit_dir(found)]

\* recreate_sbin: every entry of the mirror shows again under /sbin.
recreate_sbin(new, old) == new \union old

Strategy == IF dev.two_stage THEN "LdPreload" ELSE dev.era

patch_ro_root(list, held) ==
  LET at == IF dev.sbin THEN "/sbin" ELSE "/debug_ramdisk"
      l == load_overlay_rc(dev.overlay, root)
      over == Onto(patch_rc_scripts(root, l.rc_list), l.files) IN
  /\ mount_list' = Append(list, "/data")
  /\ setup_tmp(at, at)
  /\ sbin' = IF dev.sbin THEN recreate_sbin(tmp'.files, sbin) ELSE sbin
  /\ holds' = [k \in DOMAIN held |-> held[k] \ {"/data"}]
  /\ root' = mount_overlay(over, root)
  /\ handle_sepolicy(Strategy)
  /\ UNCHANGED mirror

\* The ramdisk is writable: files are moved in place, and the tmp directory
\* waits in /magisk until magisk_proxy_main moves it to /sbin.  move_into
\* returns after the first directory it has merged, which is /sbin, so that
\* what is listed after sbin stays in overlay.d.
patch_rw_root ==
  LET l == load_overlay_rc(dev.overlay, root) IN
  /\ mount_list' = Append(mount_list, "/data")
  /\ mirror' = sbin
  /\ \E before \in SUBSET DOMAIN l.files :
       LET moved == Onto([p \in before |-> l.files[p]], root) IN
       /\ root' = Onto(patch_rc_scripts(moved, l.rc_list), moved)
       /\ holds' = [backup |-> {}, overlay |-> IF before = DOMAIN l.files THEN {} ELSE {"/"}]
  /\ setup_tmp("/magisk/tmp", "/sbin")
  /\ handle_sepolicy(Strategy)
  /\ sbin' = sbin \union {"magisk"}

rootfs ==
  /\ phase = "rootfs"
  /\ init' = restore_ramdisk_init([init |-> init]).init
  /\ patch_rw_root
  /\ exec_init(mount_list', mounts \union {"/data", "/magisk"})
  /\ UNCHANGED <<dev, stage, config, sdcard, appeared, want>>

second_stage ==
  /\ phase = "second_stage"
  /\ init' = "sysinit" /\ sdcard' = "none"
  /\ LET own == mounts \ {"/init", "/sdcard"} IN
     IF dev.stays
     THEN patch_rw_root /\ exec_init(mount_list', own \union {"/magisk"})
     ELSE patch_ro_root(mount_list, holds) /\ exec_init(mount_list', own \union {tmp'.at})
  /\ UNCHANGED <<dev, stage, config, appeared, want>>

---------------------------------------------------------------------------
(* legacy system-as-root: mount.cpp *)

legacy_system_as_root ==
  /\ phase = "legacy_system_as_root" /\ prepare_data
  /\ mounts' = mounts \union {"/data"} /\ phase' = "find_block"
  /\ UNCHANGED <<dev, stage, config, mount_list, init, sdcard, appeared, want, root, tmp,
                 sbin, mirror, sevars>>

\* The names mount_system_root looks for, in order.
Names == <<"vroot", "APP", "system" \o config.slot>>

find_block ==
  /\ phase = "find_block" /\ Names[want] \notin appeared
  /\ want' = IF want < Len(Names) THEN want + 1 ELSE 1
  /\ phase' = IF want = Len(Names) /\ ~config.rootwait THEN "abort" ELSE phase
  /\ UNCHANGED <<dev, stage, config, mount_list, mounts, init, sdcard, holds, appeared, root,
                 tmp, sbin, mirror, sevars>>

\* mount_system_root, once it has the device: the ramdisk is gone, /init is
\* the system's.  On the emulator of API 28 /vendor is mounted for init.
RootCannotMount ==
  /\ phase = "find_block" /\ Names[want] \in appeared /\ ~dev.mountable
  /\ phase' = "abort"
  /\ UNCHANGED <<dev, stage, config, mount_list, mounts, init, sdcard, holds, appeared, want,
                 root, tmp, sbin, mirror, sevars>>
Vendor == IF ~dev.two_stage /\ config.emulator THEN {"/vendor"} ELSE {}
mount_system_root ==
  /\ phase = "find_block" /\ Names[want] \in appeared /\ dev.mountable
  /\ LET list == Append(mount_list, "/dev")
         points == mounts \union {"/dev"} \union Vendor IN
     IF dev.two_stage
     THEN /\ init' = hexpatch_init_for_second_stage([init |-> "orig"]).init
          /\ mount_list' = list /\ exec_init(list, points \union {"/init"})
          /\ holds' = switch_root
          /\ UNCHANGED <<root, tmp, sbin, mirror, sevars>>
     ELSE /\ init' = "orig" /\ patch_ro_root(list, switch_root)
          /\ exec_init(mount_list', points \union {tmp'.at})
  /\ UNCHANGED <<dev, stage, config, sdcard, appeared, want>>

---------------------------------------------------------------------------
(* the platform *)

\* The kernel finds block devices in any order.
BlockAppears ==
  /\ phase = "find_block"
  /\ \E b \in dev.blocks \ appeared : appeared' = appeared \union {b}
  /\ UNCHANGED <<dev, phase, stage, config, mount_list, mounts, init, sdcard, holds, want,
                 root, tmp, sbin, mirror, sevars>>

\* First stage init switches root, moving magiskinit from /sdcard onto the
\* second stage init it executes next; a hexpatched one executes the copy
\* in /data.  Otherwise /init boots the device.
Platform ==
  /\ phase = "platform" /\ init # "magiskinit"
  /\ IF stage = "first" /\ (sdcard = "magiskinit" \/ init = "hexpatched")
     THEN /\ phase' = "start" /\ stage' = "second"
          /\ holds' = IF dev.stays THEN holds ELSE switch_root
     ELSE phase' = "running" /\ UNCHANGED <<stage, holds>>
  /\ UNCHANGED <<dev, config, mount_list, mounts, init, sdcard, appeared, want, root, tmp,
                 sbin, mirror, sevars>>

\* /sbin/magisk of a writable root is magiskinit, which moves the tmp
\* directory over /sbin and links the files of /root into it.
magisk_proxy_main ==
  /\ phase = "running" /\ tmp.at = "/magisk/tmp" /\ init_at = "done"
  /\ mounts' = (mounts \ {"/magisk"}) \union {"/sbin"}
  /\ tmp' = [tmp EXCEPT !.at = "/sbin"]
  /\ sbin' = recreate_sbin(tmp.files, mirror)
  /\ UNCHANGED <<dev, phase, stage, config, mount_list, init, sdcard, holds, appeared, want,
                 root, mirror, sevars>>

MagiskInitNext ==
  \/ start \/ first_stage \/ recovery_or_charger \/ rootfs \/ second_stage
  \/ legacy_system_as_root \/ find_block \/ RootCannotMount \/ mount_system_root

InitRuns == phase = "running" /\ InitNext /\ UNCHANGED bootvars
HelperRuns == HelperNext /\ UNCHANGED bootvars

DeviceNext ==
  MagiskInitNext \/ BlockAppears \/ Platform \/ magisk_proxy_main \/ InitRuns \/ HelperRuns

\* Each program runs on, and the kernel goes on finding devices; a poll of
\* find_block takes 30 ms, so what has appeared is found.
DeviceFair ==
  /\ WF_deviceVars(MagiskInitNext) /\ WF_deviceVars(BlockAppears) /\ WF_deviceVars(Platform)
  /\ WF_deviceVars(magisk_proxy_main) /\ WF_deviceVars(InitRuns) /\ WF_deviceVars(HelperRuns)
DeviceSpec == DeviceInit /\ [][DeviceNext]_deviceVars /\ DeviceFair

---------------------------------------------------------------------------
(* properties *)

\* Recovery and charger mode leave the device alone.
Abstains ==
  /\ stage = "first" /\ ~config.skip_initramfs /\ ~config.force_normal_boot
  /\ dev.recovery \/ config.boot_mode = "charger"

\* When the original init runs, magiskinit has patched the root directory,
\* whichever way the device boots: init.rc is the stock one ("Do not allow
\* overwrite init.rc") with Magisk's triggers and every new script of
\* overlay.d exactly once, no script is both injected and a file of its own,
\* and zygote's restarts are reported once.  Before and after
\* magisk_proxy_main the path init.rc calls Magisk by leads to it, and /sbin
\* shows its stock files (recreate_sbin).  A recovery gets the stock root.
RootPatchedOnce ==
  LET new == {n \in dev.overlay \intersect RcNames :
                n # "init.rc" /\ <<"", n>> \notin DOMAIN StockRoot(dev)} IN
  phase = "running" =>
    /\ dev.sbin => SbinFiles \subseteq sbin
    /\ IF Abstains THEN root = StockRoot(dev)
       ELSE /\ root[Rc(dev, "init.rc")] =
                 [from |-> "stock", add |-> SetToBag(new \union {"magisk"})]
            /\ root[Rc(dev, "init.zygote.rc")].add = SetToBag({"zygote-restart"})
            /\ \A n \in new : <<"", n>> \notin DOMAIN root
            /\ IF tmp.rc = "/sbin" THEN "magisk" \in sbin
               ELSE tmp.at = tmp.rc /\ "magisk" \in tmp.files

\* What exec_init hands over is clean: /init is an original init, no copy of
\* the backup is left, and nothing magiskinit mounted on the way (procfs,
\* sysfs, the tmpfs at /data and /dev, the hijacks of both stages) is still
\* mounted but the tmp directory.
CleanHandover ==
  phase = "running" =>
    /\ init \in {"orig", "sysinit"} /\ holds.backup = {}
    /\ mounts \subseteq (IF Abstains THEN {} ELSE {"/sbin", "/debug_ramdisk", "/magisk"})
                          \union Vendor

\* "We need to make sure the actual init process is blocked until sepolicy is
\* loaded" (selinux.rs): once a helper runs, init gets past the policy only
\* when the kernel has the whole policy, patched.
BlockedUntilLoaded ==
  /\ kernel # "torn"
  /\ init_at = "done" /\ helper_at # "none" => kernel = "patched"

\* Every device boots: init gets past the policy, unless the root partition
\* cannot be found or mounted.
Boots == <>(phase = "abort" \/ (phase = "running" /\ (Abstains \/ init_at = "done")))

=============================================================================
