--------------------------- MODULE MCMagiskInit ---------------------------
(***************************************************************************)
(* The devices of the runs: every way to boot that start() distinguishes,  *)
(* with and without overlay files.                                         *)
(***************************************************************************)
EXTENDS MagiskInit

mc_Cmdlines ==
  {<<>>, <<<<"force_normal_boot", "1">>>>, <<<<"mode", "charger">>>>,
   <<<<"slot_suffix", "_a">>, <<"slot_suffix", "normal">>, <<"skip_initramfs", "">>>>,
   <<<<"skip_initramfs", "">>, <<"rootwait", "">>, <<"slot", "a">>>>,
   <<<<"force_normal_boot", "1">>, <<"force_normal_boot", "0">>, <<"qemu", "">>>>}

mc_Overlays == {{}, {"init.rc", "a.rc", "b.rc", "init.zygote.rc", "f", "g"}}

HasKey(d, k) == \E i \in DOMAIN d.cmdline : d.cmdline[i][1] = k

\* Two-stage devices that stay on their ramdisk have an /sdcard in it, a
\* forced normal boot is two-stage, a ramdisk that is init's root has a
\* /sbin, and a device that waits for its root partition gets one.
mc_Devices ==
  {d \in [cmdline : mc_Cmdlines, recoverymode : BOOLEAN, key : {"none", "held"},
          recovery : BOOLEAN, two_stage : BOOLEAN, sdcard : BOOLEAN, stays : BOOLEAN,
          backup : {"xz", "none"}, sbin : BOOLEAN, hw : BOOLEAN, overlay : mc_Overlays,
          preinit : {"none", "bad", "good"}, blocks : {{}, {"vroot", "system_a"}, {"system"}},
          mountable : BOOLEAN, era : {"SelinuxFs", "Legacy", "unknown"}] :
     /\ d.stays => d.sdcard /\ d.two_stage
     /\ d.sdcard => d.two_stage
     /\ HasKey(d, "force_normal_boot") => d.two_stage
     /\ d.backup = "none" => d.two_stage
     /\ d.hw => d.two_stage /\ ~d.stays
     /\ ~d.two_stage \/ d.stays => d.sbin
     /\ d.two_stage => d.era = "unknown"
     /\ ~d.recoverymode => d.key = "none"
     /\ ~d.mountable => d.blocks # {}
     /\ HasKey(d, "skip_initramfs") \/ d.recoverymode \/ (d.blocks = {} /\ d.mountable)
     /\ HasKey(d, "rootwait") => d.blocks = {"vroot", "system_a"}
     /\ d.preinit # "none" => d.overlay = {}}
=============================================================================
