------------------------------ MODULE SuAccess ------------------------------
(***************************************************************************)
(* How magiskd decides su requests: su_daemon_handler and get_su_info of   *)
(* core/su/daemon.rs, connect_app and app_request of core/su/connect.rs.   *)
(*                                                                         *)
(* Requests are served by threads of the pool.  The last SuInfo is cached  *)
(* in cached_su_info and used again for the same uid while its timestamp   *)
(* is less than three seconds old.  Its access mutex is held while the     *)
(* user is asked.  A SuInfo has the name of the request that built it.     *)
(***************************************************************************)
EXTENDS SuPolicy

CONSTANTS
  Reqs,           \* su requests
  ReqUid,         \* the uid each one comes from
  NoReq,          \* the SuInfo that cached_su_info starts with
  InitPolicies,   \* the table policies at first
  Managers,       \* the installed managers
  NewRows,        \* rows the user may put into the table
  NewAccess,      \* values the user may give to root_access
  Ignored,        \* requests whose dialog the manager may leave alone
  MaxChanges      \* bound: changes of the database

ASSUME ReqsAssumption == NoReq \notin Reqs /\ ReqUid \in [Reqs -> Nat]
ASSUME RowsAssumption ==
  /\ NewRows \subseteq RootSettings /\ NewAccess \subseteq RootAccess
  /\ \A uid \in DOMAIN InitPolicies : InitPolicies[uid] \in RootSettings
  /\ \A user \in DOMAIN Managers : Managers[user] \in Nat
ASSUME ManagerAssumption == Ignored \subseteq Reqs /\ MaxChanges \in Nat

VARIABLES
  cfg, policies,  \* the database
  changes,        \* how often the user changed it
  cached,         \* MagiskD.cached_su_info
  infos,          \* the SuInfo each request has built
  fresh,          \* those whose timestamp is less than three seconds old
  pc,             \* where the thread of each request is
  uses,           \* the SuInfo it has in hand
  settings,       \* the settings it has read
  opened          \* requests whose FIFO the manager has open

database == <<cfg, policies, changes>>
vars == <<database, cached, infos, fresh, pc, uses, settings, opened>>

Steps == {"idle", "check", "settings", "policy", "store", "lock", "request",
          "poll", "read", "decide", "granted", "denied"}

\* The steps between access.lock() of su_daemon_handler and its release.
Critical == {"request", "poll", "read", "decide"}
Locked(i) == \E r \in Reqs : uses[r] = i /\ pc[r] \in Critical

Goto(r, step) == pc' = [pc EXCEPT ![r] = step]

Init ==
  /\ cfg = [root_access |-> "AppsAndAdb", multiuser_mode |-> "OwnerOnly"]
  /\ policies = InitPolicies /\ changes = 0
  /\ cached = NoReq
  /\ infos = [r \in Reqs |-> Verdict(-1, "Query")]
  /\ fresh = {}
  /\ pc = [r \in Reqs |-> "idle"]
  /\ uses = [r \in Reqs |-> r]
  /\ settings = [r \in Reqs |-> cfg]
  /\ opened = {}
-----------------------------------------------------------------------------
\* Fault: the cached SuInfo is used for any uid.
Load_AnyUid(r) ==
  /\ pc[r] = "idle" /\ ReqUid[r] # AID_ROOT
  /\ IF cached # NoReq
       THEN uses' = [uses EXCEPT ![r] = cached] /\ Goto(r, "check")
       ELSE Goto(r, "settings") /\ UNCHANGED uses
  /\ UNCHANGED <<database, cached, infos, fresh, settings, opened>>

\* A request arrives, of another uid than root; get_su_info loads the cache.
Load(r) ==
  /\ pc[r] = "idle" /\ ReqUid[r] # AID_ROOT
  /\ IF cached # NoReq /\ infos[cached].uid = ReqUid[r]
       THEN uses' = [uses EXCEPT ![r] = cached] /\ Goto(r, "check")
       ELSE Goto(r, "settings") /\ UNCHANGED uses
  /\ UNCHANGED <<database, cached, infos, fresh, settings, opened>>

\* A request of root gets a SuInfo of its own, outside the cache.
LoadRoot(r) ==
  /\ pc[r] = "idle" /\ ReqUid[r] = AID_ROOT
  /\ infos' = [infos EXCEPT ![r] = Verdict(AID_ROOT, "Allow")]
  /\ Goto(r, "lock")
  /\ UNCHANGED <<database, cached, fresh, uses, settings, opened>>

\* cached.access.lock().is_fresh()
CheckFresh(r) ==
  /\ pc[r] = "check" /\ ~Locked(uses[r])
  /\ IF uses[r] \in fresh
       THEN Goto(r, "lock") /\ UNCHANGED uses
       ELSE Goto(r, "settings") /\ uses' = [uses EXCEPT ![r] = r]
  /\ UNCHANGED <<database, cached, infos, fresh, settings, opened>>

\* build_su_info reads the settings, then the row of the uid, in two queries;
\* an error of either gives SuInfo::deny.
ReadSettings(r) ==
  /\ pc[r] = "settings"
  /\ \/ /\ settings' = [settings EXCEPT ![r] = cfg]
        /\ Goto(r, "policy")
        /\ UNCHANGED <<infos, fresh>>
     \/ /\ infos' = [infos EXCEPT ![r] = Verdict(ReqUid[r], "Deny")]
        /\ fresh' = fresh \cup {r}
        /\ Goto(r, "store")
        /\ UNCHANGED settings
  /\ UNCHANGED <<database, cached, uses, opened>>

ReadPolicy(r) ==
  /\ pc[r] = "policy"
  /\ \E info \in {build_su_info(settings[r], policies, Managers, ReqUid[r]),
                  Verdict(ReqUid[r], "Deny")} :
       infos' = [infos EXCEPT ![r] = info]
  /\ fresh' = fresh \cup {r}
  /\ Goto(r, "store")
  /\ UNCHANGED <<database, cached, uses, settings, opened>>

Store(r) ==
  /\ pc[r] = "store"
  /\ cached' = r
  /\ Goto(r, "lock")
  /\ UNCHANGED <<database, infos, fresh, uses, settings, opened>>
-----------------------------------------------------------------------------
\* Fault: the access is used without its mutex.
Lock_NoWait(r) ==
  /\ pc[r] = "lock"
  /\ Goto(r, IF infos[uses[r]].policy = "Query" THEN "request" ELSE "decide")
  /\ UNCHANGED <<database, cached, infos, fresh, uses, settings, opened>>

\* info.access.lock(), then connect_app looks whether the user must be asked.
Lock(r) ==
  /\ pc[r] = "lock" /\ ~Locked(uses[r])
  /\ Goto(r, IF infos[uses[r]].policy = "Query" THEN "request" ELSE "decide")
  /\ UNCHANGED <<database, cached, infos, fresh, uses, settings, opened>>

SetPolicy(r, policy) ==
  /\ infos' = [infos EXCEPT ![uses[r]].policy = policy]
  /\ Goto(r, "decide")
  /\ UNCHANGED <<database, cached, fresh, uses, settings, opened>>

\* app_request makes the FIFO, starts the manager's dialog and polls ...
ShowDialog(r) ==
  /\ pc[r] = "request"
  /\ Goto(r, "poll")
  /\ UNCHANGED <<database, cached, infos, fresh, uses, settings, opened>>

\* ... any error on the way is a denial ...
RequestFails(r) == pc[r] \in {"request", "poll"} /\ SetPolicy(r, "Deny")

\* ... after 70 seconds poll returns 0, which is no error: the FIFO is removed
\* and read, through a descriptor that is also open for writing.
PollTimeout(r) ==
  /\ pc[r] = "poll"
  /\ r \in Ignored \cup opened
  /\ Goto(r, "read")
  /\ UNCHANGED <<database, cached, infos, fresh, uses, settings, opened>>

\* The manager opens the FIFO by its name, so only while it is there.
ManagerOpens(r) ==
  /\ pc[r] = "poll"
  /\ opened' = opened \cup {r}
  /\ UNCHANGED <<database, cached, infos, fresh, pc, uses, settings>>

\* The user's answer arrives, in time or late.
ManagerAnswers(r) ==
  /\ pc[r] \in {"poll", "read"} /\ r \in opened
  /\ \E policy \in {"Allow", "Deny", "Restrict"} : SetPolicy(r, policy)

\* "Before unlocking, refresh the timestamp": then grant or reject.
Decide(r) ==
  /\ pc[r] = "decide"
  /\ fresh' = fresh \cup {uses[r]}
  /\ Goto(r, IF infos[uses[r]].policy = "Deny" THEN "denied" ELSE "granted")
  /\ UNCHANGED <<database, cached, infos, uses, settings, opened>>
-----------------------------------------------------------------------------
\* Three seconds pass since the timestamp of a SuInfo.
Expire(i) ==
  /\ i \in fresh
  /\ fresh' = fresh \ {i}
  /\ UNCHANGED <<database, cached, infos, pc, uses, settings, opened>>

\* The user changes the database in the manager.
UserChanges ==
  /\ changes < MaxChanges
  /\ changes' = changes + 1
  /\ \/ \E uid \in {ReqUid[r] : r \in Reqs}, row \in NewRows :
          policies' = [u \in DOMAIN policies \cup {uid} |->
                         IF u = uid THEN row ELSE policies[u]]
        /\ UNCHANGED cfg
     \/ \E access \in NewAccess : cfg' = [cfg EXCEPT !.root_access = access]
        /\ UNCHANGED policies
  /\ UNCHANGED <<cached, infos, fresh, pc, uses, settings, opened>>

Handler(r) ==
  \/ CheckFresh(r) \/ ReadSettings(r) \/ ReadPolicy(r) \/ Store(r) \/ Lock(r)
  \/ ShowDialog(r) \/ Decide(r)

Next ==
  \/ \E r \in Reqs :
       \/ Load(r) \/ LoadRoot(r) \/ Handler(r) \/ RequestFails(r)
       \/ PollTimeout(r) \/ ManagerOpens(r) \/ ManagerAnswers(r) \/ Expire(r)
  \/ UserChanges

Spec == Init /\ [][Next]_vars

\* Threads run, and poll returns when its time is up.
DaemonFair == \A r \in Reqs : WF_vars(Handler(r)) /\ WF_vars(PollTimeout(r))
\* The manager opens the FIFO of the other dialogs within 70 seconds, and the
\* user answers them sooner or later.
UserFair ==
  \A r \in Reqs \ Ignored : WF_vars(ManagerOpens(r)) /\ WF_vars(ManagerAnswers(r))

AnsweredSpec == Spec /\ DaemonFair /\ UserFair
-----------------------------------------------------------------------------
Decided(r) == pc[r] \in {"granted", "denied"}

TypeOK ==
  /\ cfg \in Settings /\ changes \in 0 .. MaxChanges
  /\ cached \in Reqs \cup {NoReq}
  /\ infos \in [Reqs -> [uid : Int, mgr_uid : Int, policy : Policies]]
  /\ fresh \subseteq Reqs /\ opened \subseteq Reqs
  /\ pc \in [Reqs -> Steps] /\ uses \in [Reqs -> Reqs]
  /\ settings \in [Reqs -> Settings]

\* A request is only ever decided by a SuInfo of its own uid, although another
\* request may replace cached_su_info between any two steps of it.
OwnInfo ==
  \A r \in Reqs : pc[r] \in {"check", "lock", "granted", "denied"} \cup Critical =>
    infos[uses[r]].uid = ReqUid[r]

\* Requests that share a SuInfo get the same decision: it settles when the
\* first of them has its answer, before any of the others can look at it.
SharedDecision ==
  \A r, s \in Reqs : uses[r] = uses[s] /\ Decided(r) /\ Decided(s) => pc[r] = pc[s]

\* A policy is never put to the user again once it is settled: an answer, or
\* what the database said, is not overwritten by a second dialog.
AnswerStands ==
  [][\A i \in Reqs : infos[i].policy # "Query" /\ infos[i].uid >= 0 =>
       infos'[i] = infos[i]]_vars

\* A dialog that is never answered holds up requests of its own uid only: every
\* other request is decided, those that wait for the mutex of a dialog included.
Stuck(uid) == uid \in {ReqUid[i] : i \in Ignored}
OthersServed ==
  \A r \in Reqs : ~Stuck(ReqUid[r]) => (pc[r] # "idle" ~> Decided(r))

\* app_request: "Wait for data input for at most 70 seconds".
DialogEnds == \A r \in Reqs : pc[r] = "poll" ~> Decided(r)
=============================================================================
