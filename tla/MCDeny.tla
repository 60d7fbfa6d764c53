------------------------------- MODULE MCDeny -------------------------------
(***************************************************************************)
(* The deny list (DenyList) and the two that act on it: the logcat thread  *)
(* when Zygisk is off (Logcat), and Zygisk inside the zygote (Zygisk).  A  *)
(* behaviour is one of one machine; the others stay in a first state.      *)
(***************************************************************************)
EXTENDS MCDenyList, Logcat, Zygisk

VARIABLE machine

mc_MayMiss == {"strdup", "selinux_android_setcontext"}

\* One of the first states of each.
ListOff == Init /\ app_id = [p \in Pkgs |-> CHOOSE a \in AppIds : TRUE]
LogcatOff == LogcatInit /\ ~pidfd
ZygiskOff == ZygiskInit /\ jni = [f \in Families |-> "orig"]

DenyInit ==
  \/ machine = "list" /\ Init /\ LogcatOff /\ ZygiskOff
  \/ machine = "logcat" /\ ListOff /\ LogcatInit /\ ZygiskOff
  \/ machine = "zygisk" /\ ListOff /\ LogcatOff /\ ZygiskInit

DenyNext ==
  /\ UNCHANGED machine
  /\ \/ machine = "list" /\ Next /\ UNCHANGED <<lcVars, zygVars>>
     \/ machine = "logcat" /\ LogcatNext /\ UNCHANGED <<vars, zygVars>>
     \/ machine = "zygisk" /\ ZygiskNext /\ UNCHANGED <<vars, lcVars>>

\* LogcatFair, for its machine.
DenyFair ==
  /\ WF_lcVars(machine = "logcat" /\ Thread)
  /\ \A a \in Apps : /\ WF_lcVars(machine = "logcat" /\ Work(a))
                     /\ WF_lcVars(machine = "logcat" /\ Specialize(a))

DenySpec == DenyInit /\ [][DenyNext]_<<machine, vars, lcVars, zygVars>> /\ DenyFair
=============================================================================
