----------------------------- MODULE MCModules -----------------------------
(***************************************************************************)
(* The module store and the scripts of a boot stage.  A behaviour is one   *)
(* of either machine; the other one stays where nothing of it is enabled   *)
(* that has to happen.                                                     *)
(***************************************************************************)
EXTENDS MCModuleStore, Scripts

VARIABLE machine

StoreOff == Init /\ root = [m \in Modules |-> Absent] /\ cur = CHOOSE m \in Modules : TRUE
ScriptsOff ==
  /\ stage = "service" /\ part = "done" /\ pfs = FALSE /\ timer = "none" /\ expired = TRUE
  /\ next = 1 /\ waiting = FALSE /\ script = [i \in Ids |-> "ended"]

ModulesInit ==
  \/ machine = "store" /\ Init /\ ScriptsOff
  \/ machine = "scripts" /\ StoreOff /\ ScriptsInit

ModulesNext ==
  /\ UNCHANGED machine
  /\ \/ machine = "store" /\ Next /\ UNCHANGED scVars
     \/ machine = "scripts" /\ ScriptsNext /\ UNCHANGED vars
     \/ machine = "scripts" /\ part = "done" /\ UNCHANGED <<vars, scVars>>

ModulesSpec ==
  ModulesInit /\ [][ModulesNext]_<<machine, vars, scVars>> /\ StoreFair /\ ScriptsFair
=============================================================================
