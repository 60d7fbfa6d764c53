----------------------------- MODULE MCSuPolicy -----------------------------
(***************************************************************************)
(* Every setting, every policy of a uid and of its owner, with and without *)
(* a manager: one evaluation of both functions of SuPolicy for each.       *)
(***************************************************************************)
EXTENDS SuPolicy, Functions

CONSTANTS
  AppIds,         \* app ids of the apps
  ManagerAppId,   \* the app id of the manager
  SecondUser      \* a user besides the owner

ASSUME UidsAssumption == AppIds \subseteq Nat /\ ManagerAppId \in Nat /\ SecondUser \in Nat

VARIABLES dbSettings, dbPolicies, managers, uid, evaluated, info, granted
policyVars == <<dbSettings, dbPolicies, managers, uid, evaluated, info, granted>>

AskingUids == UNION {{a, a + SecondUser * AID_USER_OFFSET} :
                 a \in AppIds \cup {AID_SHELL, ManagerAppId}}
ManagerOf == [user \in {0, SecondUser} |-> ManagerAppId + user * AID_USER_OFFSET]

PolicyInit ==
  /\ dbSettings \in Settings
  /\ uid \in AskingUids \cup {AID_ROOT}
  /\ \E rows \in SUBSET {uid, to_app_id(uid)} : dbPolicies \in [rows -> RootSettings]
  /\ \E users \in SUBSET {0, SecondUser} : managers = Restrict(ManagerOf, users)
  /\ evaluated = FALSE /\ info = Verdict(-1, "Query") /\ granted = FALSE

\* get_su_info lets root through before it builds anything.
Evaluate ==
  /\ ~evaluated
  /\ evaluated' = TRUE
  /\ info' = IF uid = AID_ROOT THEN Verdict(uid, "Allow")
             ELSE build_su_info(dbSettings, dbPolicies, managers, uid)
  /\ granted' = uid_granted_root(dbSettings, dbPolicies, uid)
  /\ UNCHANGED <<dbSettings, dbPolicies, managers, uid>>

PolicyNext == Evaluate
PolicySpec == PolicyInit /\ [][PolicyNext]_policyVars
-----------------------------------------------------------------------------
\* What uid_granted_root reports to zygisk modules is what a su request of the
\* same uid would get without a question, and full root that it does not report
\* is the manager's.
ReportedIsReal ==
  /\ granted => info.policy = "Allow"
  /\ evaluated /\ info.policy = "Allow" /\ ~granted =>
       to_app_id(uid) = to_app_id(get_manager(managers, to_user_id(EvalUid(dbSettings, uid))))
=============================================================================
