-------------------------------- MODULE MCSu --------------------------------
(***************************************************************************)
(* What stands behind su: the decision as a function (MCSuPolicy),         *)
(* concurrent requests (SuAccess), the way from the command to a shell     *)
(* (SuShell) and the database the decisions are kept in (Database).  A     *)
(* behaviour is one of one machine; the others stay in a first state.      *)
(***************************************************************************)
EXTENDS MCSuAccess, MCSuPolicy, SuShell, Database

VARIABLE machine

\* Nothing, a namespace and capabilities, and a command with groups.
mc_OptLists == {<<>>, << <<"d", 0>>, <<"i", 0>>, <<"t", 1>> >>,
                << <<"c", 0>>, <<"g", 5>>, <<"G", 6>>, <<"M", 0>> >>}

\* Sessions of different processes do not meet: the next su is run by the shell of the
\* one before.
Nested == \A s \in Sessions : sess'[s].client # "none" => sess'[s].by = s

PolicyOff ==
  /\ dbSettings = CHOOSE c \in Settings : TRUE
  /\ dbPolicies = NoRows /\ managers = << >> /\ uid = AID_ROOT
  /\ evaluated = FALSE /\ info = Verdict(-1, "Query") /\ granted = FALSE
DatabaseOff ==
  /\ dbFile = EmptyFile /\ conn = "closed" /\ todo = "none" /\ dlInit = 2 /\ crashes = 0

SuInit ==
  \/ machine = "policy" /\ PolicyInit /\ Init /\ SuShellInit /\ DatabaseOff
  \/ machine = "access" /\ PolicyOff /\ Init /\ SuShellInit /\ DatabaseOff
  \/ machine = "shell" /\ PolicyOff /\ Init /\ SuShellInit /\ DatabaseOff
  \/ machine = "database" /\ PolicyOff /\ Init /\ SuShellInit /\ DatabaseInit

SuNext ==
  /\ UNCHANGED machine
  /\ \/ machine = "policy" /\ PolicyNext /\ UNCHANGED <<vars, suShellVars, dbVars>>
     \/ machine = "access" /\ Next /\ UNCHANGED <<policyVars, suShellVars, dbVars>>
     \/ machine = "shell" /\ SuShellNext /\ UNCHANGED <<policyVars, vars, dbVars>>
     \/ machine = "database" /\ DatabaseNext /\ UNCHANGED <<policyVars, vars, suShellVars>>

\* AnsweredSpec's and SuShell's fairness, each for its machine.
SuFair ==
  /\ \A r \in Reqs : /\ WF_vars(machine = "access" /\ Handler(r))
                     /\ WF_vars(machine = "access" /\ PollTimeout(r))
  /\ \A r \in Reqs \ Ignored : /\ WF_vars(machine = "access" /\ ManagerOpens(r))
                               /\ WF_vars(machine = "access" /\ ManagerAnswers(r))
  /\ \A s \in Sessions : WF_suShellVars(machine = "shell" /\ Step(s))

SuSpec == SuInit /\ [][SuNext]_<<machine, policyVars, vars, suShellVars, dbVars>> /\ SuFair
=============================================================================
