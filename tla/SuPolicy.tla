------------------------------ MODULE SuPolicy ------------------------------
(***************************************************************************)
(* Who may have root: build_su_info of core/su/daemon.rs, which decides a  *)
(* su request, and uid_granted_root of core/su/db.rs, which tells zygisk   *)
(* modules whether an app has root.  They read the same database.          *)
(*                                                                         *)
(*   cfg       [root_access, multiuser_mode] of DbSettings                 *)
(*   policies  the rows of the table policies, by uid; a row that has      *)
(*             expired is not there                                        *)
(*   managers  the uid of the manager app, for the users that have it      *)
(***************************************************************************)
EXTENDS Integers

AID_ROOT == 0
AID_SHELL == 2000
AID_USER_OFFSET == 100000

\* % and / of i32 truncate towards zero; a uid of -1 is no app's.
to_app_id(uid) ==
  IF uid >= 0 THEN uid % AID_USER_OFFSET ELSE -((-uid) % AID_USER_OFFSET)
to_user_id(uid) ==
  IF uid >= 0 THEN uid \div AID_USER_OFFSET ELSE -((-uid) \div AID_USER_OFFSET)

Policies == {"Query", "Deny", "Allow", "Restrict"}
RootAccess == {"Disabled", "AppsOnly", "AdbOnly", "AppsAndAdb"}
MultiuserMode == {"OwnerOnly", "OwnerManaged", "User"}
Settings == [root_access : RootAccess, multiuser_mode : MultiuserMode]
RootSettings == [policy : Policies, log : BOOLEAN, notify : BOOLEAN]

get_root_settings(policies, uid) ==
  IF uid \in DOMAIN policies THEN policies[uid]
  ELSE [policy |-> "Query", log |-> FALSE, notify |-> FALSE]

get_manager(managers, user) == IF user \in DOMAIN managers THEN managers[user] ELSE -1

\* SuInfo::allow, SuInfo::deny
Verdict(uid, policy) == [uid |-> uid, mgr_uid |-> -1, policy |-> policy]

\* What root_access has against a request, whatever the policies say.
AccessForbids(cfg, uid) ==
  \/ cfg.root_access = "Disabled"
  \/ cfg.root_access = "AdbOnly" /\ uid # AID_SHELL
  \/ cfg.root_access = "AppsOnly" /\ uid = AID_SHELL

\* The uid whose policy counts.
EvalUid(cfg, uid) == IF cfg.multiuser_mode = "OwnerManaged" THEN to_app_id(uid) ELSE uid

\* The manager is looked up only when it will be asked or told.
ManagerUid(cfg, managers, access, uid) ==
  IF access.policy = "Query" \/ access.log \/ access.notify
    THEN get_manager(managers, to_user_id(EvalUid(cfg, uid))) ELSE -1

\* "If still not determined, check if manager exists"
NobodyToAsk(access, mgr_uid) == access.policy = "Query" /\ mgr_uid < 0

\* The tests of build_su_info, in its order.
build_su_info(cfg, policies, managers, uid) ==
  LET access == get_root_settings(policies, EvalUid(cfg, uid))
      mgr_uid == ManagerUid(cfg, managers, access, uid)
  IN IF cfg.multiuser_mode = "OwnerOnly" /\ to_user_id(uid) # 0 THEN Verdict(uid, "Deny")
     ELSE IF to_app_id(uid) = to_app_id(mgr_uid) THEN Verdict(uid, "Allow")
     ELSE IF AccessForbids(cfg, uid) \/ NobodyToAsk(access, mgr_uid) THEN Verdict(uid, "Deny")
     ELSE [uid |-> uid, mgr_uid |-> mgr_uid, policy |-> access.policy]

\* Fault: the policy of the caller counts, not the one of the owner.
uid_granted_root_OwnRow(cfg, policies, uid) ==
  \/ uid = AID_ROOT
  \/ /\ ~AccessForbids(cfg, uid)
     /\ cfg.multiuser_mode = "OwnerOnly" => to_user_id(uid) = 0
     /\ get_root_settings(policies, uid).policy = "Allow"

\* The same tests written a second time, in another order.
uid_granted_root(cfg, policies, uid) ==
  \/ uid = AID_ROOT
  \/ /\ ~AccessForbids(cfg, uid)
     /\ cfg.multiuser_mode = "OwnerOnly" => to_user_id(uid) = 0
     /\ get_root_settings(policies, EvalUid(cfg, uid)).policy = "Allow"
=============================================================================
