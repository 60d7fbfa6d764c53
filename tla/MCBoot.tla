------------------------------- MODULE MCBoot -------------------------------
(***************************************************************************)
(* A boot as magiskinit makes it, and the stages of many boots as magiskd  *)
(* goes through them.  A behaviour is one of either machine; the other one *)
(* stands still.                                                           *)
(***************************************************************************)
EXTENDS MCBootStages, MCMagiskInit

VARIABLE machine

SomeDevice == CHOOSE d \in mc_Devices : TRUE
StagesOff == Init /\ ~zygisk_config
DeviceOff ==
  /\ dev = SomeDevice /\ phase = "abort" /\ stage = "first" /\ config = NoConfig
  /\ mount_list = <<>> /\ mounts = {} /\ init = "magiskinit" /\ sdcard = "none"
  /\ holds = [backup |-> {}, overlay |-> {}] /\ appeared = {} /\ want = 1
  /\ root = << >> /\ tmp = {} /\ sbin = {} /\ mirror = {} /\ SeInit

BootInit ==
  \/ machine = "stages" /\ Init /\ DeviceOff
  \/ machine = "init" /\ StagesOff /\ DeviceInit

BootNext ==
  /\ UNCHANGED machine
  /\ \/ machine = "stages" /\ Next /\ UNCHANGED deviceVars
     \/ machine = "init" /\ DeviceNext /\ UNCHANGED vars

BootSpec == BootInit /\ [][BootNext]_<<machine, vars, deviceVars>> /\ DeviceFair
=============================================================================
