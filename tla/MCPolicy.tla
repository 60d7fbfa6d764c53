------------------------------ MODULE MCPolicy ------------------------------
(***************************************************************************)
(* The SELinux policy: which one is loaded (SplitPolicy), and the          *)
(* statements that change it (Sepolicy).  A behaviour is one of one of     *)
(* the two.                                                                *)
(***************************************************************************)
EXTENDS MCSepolicy, SplitPolicy

VARIABLE machine

RulesOff == Init /\ Types(db) = CHOOSE types \in BaseTypes : TRUE
SplitOff ==
  /\ SplitInit /\ hashed = {} /\ parts["odm"] = Absent /\ precompiled = [p \in {"odm", "vendor"} |-> None]
  /\ parts["system_ext"] = Absent /\ parts["product"] = Absent

SePolicyInit ==
  \/ machine = "rules" /\ Init /\ SplitOff
  \/ machine = "split" /\ RulesOff /\ SplitInit

SePolicyNext ==
  /\ UNCHANGED machine
  /\ \/ machine = "rules" /\ Next /\ UNCHANGED splitVars
     \/ machine = "split" /\ SplitNext /\ UNCHANGED vars

SePolicySpec == SePolicyInit /\ [][SePolicyNext]_<<machine, vars, splitVars>>
=============================================================================
