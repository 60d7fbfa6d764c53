------------------------------ MODULE Scripts ------------------------------
(***************************************************************************)
(* The scripts of a boot stage (core/scripting.cpp): those of the stage's  *)
(* directory, then those of the modules.  In post-fs-data a runner process *)
(* waits for each before it starts the next, and a timer process that ends *)
(* with the time for the stage makes it stop waiting; the other stages     *)
(* never wait.  A script may hang.                                         *)
(***************************************************************************)
EXTENDS Naturals

CONSTANTS
  CommonScripts, ModuleScripts,  \* how many scripts the two parts have
  Stages            \* "post-fs-data", "service"

VARIABLES
  stage,
  part,     \* which function is running: "common", "modules", "done"
  pfs,      \* what its local pfs says
  timer,    \* the timer process: "none", "runs", "exited"; "gone": timer_pid = -1
  expired,  \* the clock is past pfs_timeout
  next,     \* the script to start next
  waiting,  \* in PFS_WAIT
  script    \* what became of each script

scVars == <<stage, part, pfs, timer, expired, next, waiting, script>>

All == {"common", "modules"}
Count(p) == IF p = "common" THEN CommonScripts ELSE ModuleScripts
Ids == {<<p, n>> : p \in All, n \in 1..(CommonScripts + ModuleScripts)}
Running == {i \in Ids : script[i] = "runs"}

ScriptsInit ==
  /\ stage \in Stages /\ part = "none" /\ pfs = FALSE /\ timer = "none" /\ expired = FALSE
  /\ next = 1 /\ waiting = FALSE /\ script = [i \in Ids |-> "none"]

\* PFS_SETUP: the runner and its timer.
Enter(p, blocks) ==
  /\ part' = p /\ pfs' = blocks /\ next' = 1 /\ waiting' = FALSE
  /\ timer' = IF blocks THEN "runs" ELSE "none"
  /\ UNCHANGED <<stage, expired, script>>

exec_common_scripts == part = "none" /\ Enter("common", stage = "post-fs-data")

\* "If we had already timed out, treat it as service mode".
exec_module_scripts ==
  /\ part = "common" /\ next > CommonScripts /\ ~waiting
  /\ Enter("modules", stage = "post-fs-data" /\ ~expired)

---------------------------------------------------------------------------
\* exec_command, and whether PFS_WAIT blocks after it.
exec_command ==
  /\ part \in All /\ next <= Count(part) /\ ~waiting
  /\ script' = [script EXCEPT ![<<part, next>>] = "runs"]
  /\ next' = next + 1 /\ waiting' = (pfs /\ timer # "gone")
  /\ UNCHANGED <<stage, part, pfs, timer, expired>>

\* Fault: only the script is waited for.
waitpid_Script ==
  /\ waiting
  /\ script[<<part, next - 1>>] = "ended" /\ waiting' = FALSE /\ UNCHANGED timer
  /\ UNCHANGED <<stage, part, pfs, expired, next, script>>

\* waitpid(-1): a script has ended, or the timer has.
waitpid ==
  /\ waiting
  /\ \/ script[<<part, next - 1>>] = "ended" /\ waiting' = FALSE /\ UNCHANGED timer
     \/ timer = "exited" /\ waiting' = FALSE /\ timer' = "gone"
  /\ UNCHANGED <<stage, part, pfs, expired, next, script>>

\* PFS_DONE: the timer is killed; the daemon goes on with the boot.
Leave ==
  /\ part = "modules" /\ next > ModuleScripts /\ ~waiting
  /\ part' = "done" /\ timer' = "none"
  /\ UNCHANGED <<stage, pfs, expired, next, waiting, script>>

---------------------------------------------------------------------------
(* the processes *)

ScriptEnds ==
  \E i \in Running : script' = [script EXCEPT ![i] = "ended"]
                     /\ UNCHANGED <<stage, part, pfs, timer, expired, next, waiting>>

TimePasses ==
  /\ ~expired /\ part # "none" /\ expired' = TRUE
  /\ UNCHANGED <<stage, part, pfs, timer, next, waiting, script>>

TimerExits ==
  /\ timer = "runs" /\ expired /\ timer' = "exited"
  /\ UNCHANGED <<stage, part, pfs, expired, next, waiting, script>>

Runner == exec_common_scripts \/ exec_module_scripts \/ exec_command \/ waitpid \/ Leave
ScriptsNext == Runner \/ ScriptEnds \/ TimePasses \/ TimerExits

\* The runner and the clock go on; no script has to end.
ScriptsFair == WF_scVars(Runner) /\ WF_scVars(TimePasses) /\ WF_scVars(TimerExits)
ScriptsSpec == ScriptsInit /\ [][ScriptsNext]_scVars /\ ScriptsFair

---------------------------------------------------------------------------
\* PFS_SETUP: "If we ran out of time, don't block": a script that hangs holds
\* up neither the scripts after it nor the boot for ever.
StageProceeds ==
  part = "common" ~> (part = "done" /\ \A p \in All : \A n \in 1..Count(p) : script[<<p, n>>] # "none")
=============================================================================
