----------------------------- MODULE ZygiskProp -----------------------------
(***************************************************************************)
(* The native bridge property and the crash counter of ZygiskState,        *)
(* core/zygisk/daemon.rs.                                                  *)
(*                                                                         *)
(* Zygote loads the library that ro.dalvik.vm.native.bridge names; Magisk  *)
(* puts its own loader in front of the name that was there.  A property    *)
(* value is the sequence of the library names it concatenates, <<>> when   *)
(* it is not set.  Every operation runs under the mutex of MagiskD.zygisk. *)
(***************************************************************************)
EXTENDS Integers, Sequences

CONSTANTS
  ZYGISKLDR,      \* "libzygisk.so"
  NoBridge,       \* "0"
  BridgeLib,      \* the library of a device that has a native bridge
  OrigBridge      \* the value of the property when the device boots

ASSUME LibsAssumption ==
  NoBridge # ZYGISKLDR /\ BridgeLib # ZYGISKLDR /\ BridgeLib # NoBridge
ASSUME BridgeAssumption == OrigBridge \in {<<>>, <<NoBridge>>, <<BridgeLib>>}

VARIABLES
  nbprop,         \* ro.dalvik.vm.native.bridge
  lib_name,       \* ZygiskState.lib_name
  start_count     \* ZygiskState.start_count

zygisk == <<lib_name, start_count>>

HasLoader(prop) == prop # <<>> /\ Head(prop) = ZYGISKLDR

\* ZygiskState::default, of a daemon that has just started.
FreshState == lib_name = <<>> /\ start_count = 1

\* Fault: the property is read although the loader is in it.
SetProp_Always ==
  /\ lib_name' = IF nbprop \in {<<>>, <<NoBridge>>}
                   THEN <<ZYGISKLDR>> ELSE <<ZYGISKLDR>> \o nbprop
  /\ nbprop' = lib_name'

\* set_prop
SetProp ==
  \/ /\ lib_name # <<>>
     /\ UNCHANGED <<lib_name, nbprop>>
  \/ /\ lib_name = <<>>
     /\ lib_name' = IF nbprop \in {<<>>, <<NoBridge>>}
                      THEN <<ZYGISKLDR>> ELSE <<ZYGISKLDR>> \o nbprop
     /\ nbprop' = lib_name'

\* restore_prop
RestoreProp ==
  /\ nbprop' = IF Len(lib_name) > 1 THEN Tail(lib_name) ELSE <<NoBridge>>
  /\ lib_name' = <<>>

\* Fault: the crash counter is one too patient.
ResetAfterCrash_Late ==
  /\ start_count' = start_count + 1
  /\ IF start_count > 3 THEN RestoreProp ELSE SetProp

\* reset(false), after zygote has restarted; the companion sockets it drops
\* are not part of this module.
ResetAfterCrash ==
  /\ start_count' = start_count + 1
  /\ IF start_count' > 3 THEN RestoreProp ELSE SetProp

\* reset(true), when the boot is complete
ResetAfterBoot ==
  /\ start_count' = 1
  /\ RestoreProp
=============================================================================
