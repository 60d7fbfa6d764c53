------------------------------- MODULE SuProofs -------------------------------
(***************************************************************************)
(* Proofs about su. Requests (SuAccess), for any number of them and of     *)
(* uids, policies and changes of the database: they are decided by a       *)
(* SuInfo of their uid, those that share one are decided alike, and an     *)
(* answer is never overwritten. The shell (SuShell), for any number of su  *)
(* commands, options and settings: it is as restricted as the process that *)
(* asked for it, and a client that was refused has none; the invariant     *)
(* relates what the messages of a session say to how far its daemon thread *)
(* and its child have come. The upgrade of magisk.db (Database), for any   *)
(* versions, apps and crashes: the next open_and_init_db takes up again    *)
(* what a crash or an error leaves; the invariant says, for each statement *)
(* that may be next, what those before it have done to the file. And the   *)
(* report to zygisk modules (SuPolicy), for any settings, rows, managers   *)
(* and uids.                                                               *)
(***************************************************************************)
EXTENDS SuAccess, SuShell, Database, MCSuPolicy, TLAPS

(* Requests *)

Before == {"idle", "check", "settings", "policy"}
After == {"lock", "granted", "denied"} \cup Critical

\* The request has its own SuInfo, and has put it into the cache if it had to.
Built(i) == uses[i] = i /\ pc[i] \in After /\ infos[i].uid = ReqUid[i]

RowsOK == \A id \in DOMAIN policies : policies[id] \in RootSettings

\* A SuInfo that other requests can reach is complete; one that is not built
\* yet is in nobody else's hands.
InfoInv ==
  /\ cached # NoReq => Built(cached)
  /\ \A r \in Reqs :
       /\ ReqUid[uses[r]] = ReqUid[r]
       /\ pc[r] \in {"idle", "settings", "policy", "store"} => uses[r] = r
       /\ pc[r] \in Before => infos[r].uid = -1
       /\ pc[r] = "store" => infos[r].uid = ReqUid[r]
       /\ pc[r] = "check" => uses[r] # r
       /\ pc[r] \in After \cup {"check"} => Built(uses[r])

\* The access mutex: one request at a time between lock and unlock.
MutexInv ==
  \A r, s \in Reqs :
    pc[r] \in Critical /\ pc[s] \in Critical /\ uses[r] = uses[s] => r = s

\* What a request has done with the policy, by where it is.
PolicyInv ==
  \A r \in Reqs :
    LET policy == infos[uses[r]].policy IN
    /\ pc[r] \in {"request", "poll", "read"} => policy = "Query"
    /\ pc[r] = "decide" => policy # "Query"
    /\ pc[r] = "granted" => policy \notin {"Query", "Deny"}
    /\ pc[r] = "denied" => policy = "Deny"

IInv == TypeOK /\ RowsOK /\ InfoInv /\ MutexInv /\ PolicyInv

-----------------------------------------------------------------------------
\* build_su_info gives a SuInfo of the uid it was asked about.
LEMMA BuildInfo ==
  ASSUME NEW c \in Settings, NEW rows,
         \A u \in DOMAIN rows : rows[u] \in RootSettings, NEW id \in Nat
  PROVE  /\ build_su_info(c, rows, Managers, id) \in
              [uid : Int, mgr_uid : Int, policy : Policies]
         /\ build_su_info(c, rows, Managers, id).uid = id
<1> DEFINE access == get_root_settings(rows, EvalUid(c, id))
           mgr_uid == ManagerUid(c, Managers, access, id)
<1>1. access \in RootSettings
  BY DEF get_root_settings, RootSettings, Policies
<1>2. mgr_uid \in Int
  BY RowsAssumption DEF ManagerUid, get_manager
<1>3. \A policy \in Policies : Verdict(id, policy) \in [uid : Int, mgr_uid : Int, policy : Policies]
                               /\ Verdict(id, policy).uid = id
  BY DEF Verdict
<1>4. access.policy \in Policies
  BY <1>1 DEF RootSettings
<1>5. [uid |-> id, mgr_uid |-> mgr_uid, policy |-> access.policy]
        \in [uid : Int, mgr_uid : Int, policy : Policies]
  BY <1>2, <1>4
<1>6. \/ build_su_info(c, rows, Managers, id) \in {Verdict(id, "Deny"), Verdict(id, "Allow")}
      \/ build_su_info(c, rows, Managers, id)
           = [uid |-> id, mgr_uid |-> mgr_uid, policy |-> access.policy]
  BY DEF build_su_info
<1> HIDE DEF access, mgr_uid
<1> QED
  BY <1>3, <1>5, <1>6 DEF Policies

\* Before the first request there is no SuInfo and no dialog.
LEMMA InitIInv == Init => IInv
<1> SUFFICES ASSUME Init PROVE IInv
  OBVIOUS
<1>1. TypeOK
  BY ReqsAssumption, ManagerAssumption DEF Init, TypeOK, Settings, RootAccess,
     MultiuserMode, Verdict, Policies, Steps
<1>2. RowsOK
  BY RowsAssumption DEF Init, RowsOK
<1>3. InfoInv /\ MutexInv /\ PolicyInv
  BY DEF Init, InfoInv, MutexInv, PolicyInv, Verdict, Before, After, Critical
<1> QED
  BY <1>1, <1>2, <1>3 DEF IInv
-----------------------------------------------------------------------------
\* Every step keeps the types.
LEMMA TypeStep == IInv /\ [Next]_vars => TypeOK' /\ RowsOK'
<1> SUFFICES ASSUME IInv, [Next]_vars PROVE TypeOK' /\ RowsOK'
  OBVIOUS
<1>0. TypeOK /\ RowsOK
  BY DEF IInv
<1> USE ReqsAssumption DEF TypeOK, RowsOK, Steps, database, Goto
<1>1. ASSUME NEW r \in Reqs, Load(r) PROVE TypeOK' /\ RowsOK'
  <2>1. CASE cached # NoReq /\ infos[cached].uid = ReqUid[r]
    <3>1. uses' = [uses EXCEPT ![r] = cached] /\ cached \in Reqs /\ Goto(r, "check")
      BY <1>0, <1>1, <2>1 DEF Load
    <3> QED
      BY <1>0, <1>1, <3>1 DEF Load
  <2>2. CASE ~(cached # NoReq /\ infos[cached].uid = ReqUid[r])
    BY <1>0, <1>1, <2>2 DEF Load
  <2> QED
    BY <2>1, <2>2
<1>10. ASSUME NEW r \in Reqs, LoadRoot(r) PROVE TypeOK' /\ RowsOK'
  <2>1. Verdict(AID_ROOT, "Allow") \in [uid : Int, mgr_uid : Int, policy : Policies]
    BY DEF Verdict, AID_ROOT, Policies
  <2> QED
    BY <1>0, <1>10, <2>1 DEF LoadRoot
<1>2. ASSUME NEW r \in Reqs, CheckFresh(r) PROVE TypeOK' /\ RowsOK'
  <2>1. CASE Goto(r, "lock") /\ UNCHANGED uses
    BY <1>0, <1>2, <2>1 DEF CheckFresh
  <2>2. CASE Goto(r, "settings") /\ uses' = [uses EXCEPT ![r] = r]
    BY <1>0, <1>2, <2>2 DEF CheckFresh
  <2> QED
    BY <1>2, <2>1, <2>2 DEF CheckFresh
<1>11. ASSUME NEW r \in Reqs, Store(r) PROVE TypeOK' /\ RowsOK'
  BY <1>0, <1>11 DEF Store
<1>12. ASSUME NEW r \in Reqs, Lock(r) \/ ShowDialog(r) \/ Decide(r) PROVE TypeOK' /\ RowsOK'
  <2>1. CASE Lock(r)
    BY <1>0, <2>1 DEF Lock
  <2>2. CASE ShowDialog(r)
    BY <1>0, <2>2 DEF ShowDialog
  <2>3. CASE Decide(r)
    BY <1>0, <2>3 DEF Decide
  <2> QED
    BY <1>12, <2>1, <2>2, <2>3
<1>3. ASSUME NEW r \in Reqs, ReadSettings(r) PROVE TypeOK' /\ RowsOK'
  <2>1. Verdict(ReqUid[r], "Deny") \in [uid : Int, mgr_uid : Int, policy : Policies]
    BY DEF Verdict, Policies
  <2> QED
    <3>1. CASE UNCHANGED infos
      BY <1>0, <1>3, <3>1 DEF ReadSettings
    <3>2. CASE infos' = [infos EXCEPT ![r] = Verdict(ReqUid[r], "Deny")] /\ UNCHANGED settings
      BY <1>0, <1>3, <2>1, <3>2 DEF ReadSettings
    <3> QED
      BY <1>3, <3>1, <3>2 DEF ReadSettings
<1>4. ASSUME NEW r \in Reqs, ReadPolicy(r) PROVE TypeOK' /\ RowsOK'
  <2>1. PICK built \in {build_su_info(settings[r], policies, Managers, ReqUid[r]),
                       Verdict(ReqUid[r], "Deny")} :
          infos' = [infos EXCEPT ![r] = built]
    BY <1>4 DEF ReadPolicy
  <2>2. built \in [uid : Int, mgr_uid : Int, policy : Policies]
    <3>1. settings[r] \in Settings /\ ReqUid[r] \in Nat
      BY <1>0
    <3>2. Verdict(ReqUid[r], "Deny") \in [uid : Int, mgr_uid : Int, policy : Policies]
      BY <3>1 DEF Verdict, Policies
    <3> QED
      <4>1. build_su_info(settings[r], policies, Managers, ReqUid[r])
              \in [uid : Int, mgr_uid : Int, policy : Policies]
        BY <1>0, <3>1, BuildInfo
      <4> QED
        BY <2>1, <3>2, <4>1
  <2> QED
    BY <1>0, <1>4, <2>1, <2>2 DEF ReadPolicy
<1>5. ASSUME NEW r \in Reqs, NEW policy \in Policies, SetPolicy(r, policy) PROVE TypeOK' /\ RowsOK'
  BY <1>0, <1>5 DEF SetPolicy
<1>6. ASSUME NEW r \in Reqs, RequestFails(r) \/ ManagerAnswers(r) PROVE TypeOK' /\ RowsOK'
  BY <1>5, <1>6 DEF RequestFails, ManagerAnswers, Policies
<1>7. ASSUME NEW r \in Reqs, PollTimeout(r) \/ ManagerOpens(r) \/ Expire(r) PROVE TypeOK' /\ RowsOK'
  <2>1. CASE PollTimeout(r)
    BY <1>0, <2>1 DEF PollTimeout
  <2>2. CASE ManagerOpens(r) \/ Expire(r)
    BY <1>0, <2>2 DEF ManagerOpens, Expire
  <2> QED
    BY <1>7, <2>1, <2>2
<1>8. CASE UserChanges
  <2>1. cfg' \in Settings
    BY <1>0, <1>8, RowsAssumption DEF UserChanges, Settings
  <2>2. RowsOK'
    <3>1. CASE UNCHANGED policies
      BY <1>0, <3>1
    <3>2. ASSUME NEW id, NEW row \in NewRows,
                 policies' = [u \in DOMAIN policies \cup {id} |->
                                IF u = id THEN row ELSE policies[u]]
          PROVE  RowsOK'
      BY <1>0, <3>2, RowsAssumption
    <3>3. \/ UNCHANGED policies
          \/ \E id \in {ReqUid[r] : r \in Reqs}, row \in NewRows :
               policies' = [u \in DOMAIN policies \cup {id} |->
                              IF u = id THEN row ELSE policies[u]]
      BY <1>8, Zenon DEF UserChanges
    <3>4. CASE ~UNCHANGED policies
      <4>1. PICK id \in {ReqUid[r] : r \in Reqs}, row \in NewRows :
              policies' = [u \in DOMAIN policies \cup {id} |->
                             IF u = id THEN row ELSE policies[u]]
        BY <3>3, <3>4
      <4> QED
        BY <3>2, <4>1
    <3> QED
      BY <3>1, <3>4
  <2>3. changes' \in 0 .. MaxChanges
    BY <1>0, <1>8, ManagerAssumption DEF UserChanges
  <2> QED
    BY <1>0, <1>8, <2>1, <2>2, <2>3 DEF UserChanges
<1>9. CASE UNCHANGED vars
  BY <1>0, <1>9 DEF vars
<1> QED
  BY <1>1, <1>2, <1>3, <1>4, <1>6, <1>7, <1>8, <1>9, <1>10, <1>11, <1>12 DEF Next, Handler
-----------------------------------------------------------------------------
\* The steps that leave every SuInfo and every hand on one alone.
LEMMA InfoQuiet ==
  ASSUME IInv, UNCHANGED <<cached, infos, pc, uses>>
  PROVE  InfoInv' /\ MutexInv' /\ PolicyInv'
  BY DEF IInv, InfoInv, MutexInv, PolicyInv, Built

\* Every step keeps the SuInfos of others complete.
LEMMA InfoStep == IInv /\ [Next]_vars => InfoInv'
<1> SUFFICES ASSUME IInv, [Next]_vars PROVE InfoInv'
  OBVIOUS
<1>0. TypeOK /\ RowsOK /\ InfoInv
  BY DEF IInv
<1> USE ReqsAssumption DEF TypeOK, InfoInv, Built, Before, After, Critical, database, Goto
<1>1. ASSUME NEW r \in Reqs, Load(r) PROVE InfoInv'
  BY <1>0, <1>1 DEF Load
<1>2. ASSUME NEW r \in Reqs, LoadRoot(r) PROVE InfoInv'
  BY <1>0, <1>2 DEF LoadRoot, Verdict
<1>3. ASSUME NEW r \in Reqs, CheckFresh(r) PROVE InfoInv'
  <2>1. CASE uses' = uses
    BY <1>0, <1>3, <2>1 DEF CheckFresh
  <2>2. CASE uses' = [uses EXCEPT ![r] = r] /\ Goto(r, "settings")
    BY <1>0, <1>3, <2>2 DEF CheckFresh
  <2> QED
    BY <1>3, <2>1, <2>2 DEF CheckFresh
<1>4. ASSUME NEW r \in Reqs, ReadSettings(r) PROVE InfoInv'
  <2>1. CASE UNCHANGED infos /\ Goto(r, "policy")
    BY <1>0, <1>4, <2>1 DEF ReadSettings
  <2>2. CASE infos' = [infos EXCEPT ![r] = Verdict(ReqUid[r], "Deny")] /\ Goto(r, "store")
    BY <1>0, <1>4, <2>2 DEF ReadSettings, Verdict
  <2> QED
    BY <1>4, <2>1, <2>2 DEF ReadSettings
<1>5. ASSUME NEW r \in Reqs, ReadPolicy(r) PROVE InfoInv'
  <2>1. PICK built \in {build_su_info(settings[r], policies, Managers, ReqUid[r]),
                       Verdict(ReqUid[r], "Deny")} :
          infos' = [infos EXCEPT ![r] = built]
    BY <1>5 DEF ReadPolicy
  <2>2. built.uid = ReqUid[r]
    <3>1. settings[r] \in Settings /\ ReqUid[r] \in Nat
      BY <1>0
    <3>2. build_su_info(settings[r], policies, Managers, ReqUid[r]).uid = ReqUid[r]
      <4> HIDE DEF InfoInv
      <4>1. \A u \in DOMAIN policies : policies[u] \in RootSettings
        BY <1>0 DEF RowsOK
      <4> QED
        BY <3>1, <4>1, BuildInfo
    <3>3. Verdict(ReqUid[r], "Deny").uid = ReqUid[r]
      BY DEF Verdict
    <3> QED
      BY <2>1, <3>2, <3>3
  <2> QED
    BY <1>0, <1>5, <2>1, <2>2 DEF ReadPolicy
<1>6. ASSUME NEW r \in Reqs, Store(r) PROVE InfoInv'
  BY <1>0, <1>6 DEF Store
<1>7. ASSUME NEW r \in Reqs, Lock(r) \/ ShowDialog(r) \/ PollTimeout(r) \/ Decide(r) PROVE InfoInv'
  <2>1. pc[r] \in After
    BY <1>7 DEF Lock, ShowDialog, PollTimeout, Decide
  <2>2. PICK step \in After : pc' = [pc EXCEPT ![r] = step]
    BY <1>7 DEF Lock, ShowDialog, PollTimeout, Decide
  <2>3. UNCHANGED <<cached, infos, uses>>
    BY <1>7 DEF Lock, ShowDialog, PollTimeout, Decide
  <2> QED
    BY <1>0, <2>1, <2>2, <2>3
<1>8. ASSUME NEW r \in Reqs, RequestFails(r) \/ ManagerAnswers(r) PROVE InfoInv'
  <2>1. PICK policy : SetPolicy(r, policy)
    BY <1>8 DEF RequestFails, ManagerAnswers
  <2>2. pc[r] \in {"request", "poll", "read"}
    BY <1>8 DEF RequestFails, ManagerAnswers
  <2>3. \A i \in Reqs : infos'[i].uid = infos[i].uid
    BY <1>0, <2>1 DEF SetPolicy
  <2> QED
    BY <1>0, <2>1, <2>2, <2>3 DEF SetPolicy
<1>9. CASE UserChanges \/ UNCHANGED vars \/ \E r \in Reqs : ManagerOpens(r) \/ Expire(r)
  BY <1>9, InfoQuiet DEF UserChanges, ManagerOpens, Expire, vars
<1> QED
  BY <1>1, <1>2, <1>3, <1>4, <1>5, <1>6, <1>7, <1>8, <1>9 DEF Next, Handler

\* Every step keeps the mutex.
LEMMA MutexStep == IInv /\ [Next]_vars => MutexInv'
<1> SUFFICES ASSUME IInv, [Next]_vars PROVE MutexInv'
  OBVIOUS
<1>0. TypeOK /\ InfoInv /\ MutexInv
  BY DEF IInv
<1> USE DEF TypeOK, MutexInv, Critical, database, Goto
<1>1. ASSUME NEW r \in Reqs, Load(r) \/ LoadRoot(r) \/ CheckFresh(r) PROVE MutexInv'
  BY <1>0, <1>1 DEF Load, LoadRoot, CheckFresh
<1>2. ASSUME NEW r \in Reqs, ReadSettings(r) \/ ReadPolicy(r) \/ Store(r) PROVE MutexInv'
  BY <1>0, <1>2 DEF ReadSettings, ReadPolicy, Store
<1>3. ASSUME NEW r \in Reqs, Lock(r) PROVE MutexInv'
  BY <1>0, <1>3 DEF Lock, Locked
<1>4. ASSUME NEW r \in Reqs, ShowDialog(r) \/ PollTimeout(r) \/ Decide(r) PROVE MutexInv'
  BY <1>0, <1>4 DEF ShowDialog, PollTimeout, Decide
<1>5. ASSUME NEW r \in Reqs, RequestFails(r) \/ ManagerAnswers(r) PROVE MutexInv'
  BY <1>0, <1>5 DEF RequestFails, ManagerAnswers, SetPolicy
<1>9. CASE UserChanges \/ UNCHANGED vars \/ \E r \in Reqs : ManagerOpens(r) \/ Expire(r)
  BY <1>9, InfoQuiet DEF UserChanges, ManagerOpens, Expire, vars
<1> QED
  BY <1>1, <1>2, <1>3, <1>4, <1>5, <1>9 DEF Next, Handler

\* A SuInfo changes in three ways: it is built, or its policy goes from Query to
\* the answer, or it stays as it is.
LEMMA InfoChange ==
  ASSUME IInv, [Next]_vars, NEW i \in Reqs, infos'[i] # infos[i]
  PROVE  \/ pc[i] \in Before /\ infos[i].uid = -1
         \/ infos[i].policy = "Query"
<1>0. TypeOK /\ InfoInv /\ PolicyInv
  BY DEF IInv
<1>1. ASSUME NEW r \in Reqs, LoadRoot(r) \/ ReadSettings(r) \/ ReadPolicy(r)
      PROVE  pc[i] \in Before /\ infos[i].uid = -1
  <2>1. PICK built : infos' = [infos EXCEPT ![r] = built]
    BY <1>0, <1>1 DEF LoadRoot, ReadSettings, ReadPolicy, TypeOK
  <2>2. i = r
    BY <1>0, <2>1 DEF TypeOK
  <2> QED
    BY <1>0, <1>1, <2>2 DEF LoadRoot, ReadSettings, ReadPolicy, InfoInv, Before
<1>2. ASSUME NEW r \in Reqs, RequestFails(r) \/ ManagerAnswers(r)
      PROVE  infos[i].policy = "Query"
  <2>1. PICK policy : SetPolicy(r, policy)
    BY <1>2 DEF RequestFails, ManagerAnswers
  <2>2. i = uses[r]
    BY <1>0, <2>1 DEF SetPolicy, TypeOK
  <2>3. pc[r] \in {"request", "poll", "read"}
    BY <1>2 DEF RequestFails, ManagerAnswers
  <2> QED
    BY <1>0, <2>2, <2>3 DEF PolicyInv
<1>3. ASSUME NEW r \in Reqs,
             Load(r) \/ CheckFresh(r) \/ Store(r) \/ Lock(r) \/ ShowDialog(r) \/ Decide(r)
      PROVE  FALSE
  BY <1>3 DEF Load, CheckFresh, Store, Lock, ShowDialog, Decide
<1>4. ASSUME NEW r \in Reqs, PollTimeout(r) \/ ManagerOpens(r) \/ Expire(r)
      PROVE  FALSE
  BY <1>4 DEF PollTimeout, ManagerOpens, Expire
<1>5. ~UserChanges /\ ~UNCHANGED vars
  BY DEF UserChanges, vars
<1> QED
  BY <1>1, <1>2, <1>3, <1>4, <1>5 DEF Next, Handler

\* Every step keeps what requests know of the policy.
LEMMA PolicyStep == IInv /\ [Next]_vars => PolicyInv'
<1> SUFFICES ASSUME IInv, [Next]_vars PROVE PolicyInv'
  OBVIOUS
<1>0. TypeOK /\ InfoInv /\ MutexInv /\ PolicyInv
  BY DEF IInv
<1> USE DEF TypeOK, PolicyInv, database, Goto
<1>1. ASSUME NEW r \in Reqs, Load(r) \/ CheckFresh(r) PROVE PolicyInv'
  BY <1>0, <1>1 DEF Load, CheckFresh
<1>2. ASSUME NEW r \in Reqs, LoadRoot(r) \/ ReadSettings(r) \/ ReadPolicy(r) PROVE PolicyInv'
  <2>1. PICK built : infos' = [infos EXCEPT ![r] = built]
    BY <1>0, <1>2 DEF LoadRoot, ReadSettings, ReadPolicy
  <2>2. PICK step \in {"lock", "policy", "store"} : pc' = [pc EXCEPT ![r] = step]
    BY <1>2 DEF LoadRoot, ReadSettings, ReadPolicy
  <2>3. uses' = uses /\ pc[r] \in Before
    BY <1>2 DEF LoadRoot, ReadSettings, ReadPolicy, Before
  <2>4. \A s \in Reqs : s # r /\ pc[s] \in After => uses[s] # r
    BY <1>0, <2>3 DEF InfoInv, Built, Before, After, Critical
  <2> QED
    BY <1>0, <2>1, <2>2, <2>3, <2>4 DEF After, Critical
<1>3. ASSUME NEW r \in Reqs, Store(r) \/ Lock(r) \/ ShowDialog(r) \/ PollTimeout(r) PROVE PolicyInv'
  BY <1>0, <1>3 DEF Store, Lock, ShowDialog, PollTimeout
<1>4. ASSUME NEW r \in Reqs, Decide(r) PROVE PolicyInv'
  BY <1>0, <1>4 DEF Decide
<1>5. ASSUME NEW r \in Reqs, RequestFails(r) \/ ManagerAnswers(r) PROVE PolicyInv'
  <2>1. PICK policy \in {"Allow", "Deny", "Restrict"} : SetPolicy(r, policy)
    BY <1>5 DEF RequestFails, ManagerAnswers
  <2>2. pc[r] \in {"request", "poll", "read"} /\ infos[uses[r]].policy = "Query"
    BY <1>0, <1>5 DEF RequestFails, ManagerAnswers
  <2>3. \A s \in Reqs : s # r /\ uses[s] = uses[r] =>
          pc[s] \notin Critical \cup {"granted", "denied"}
    BY <1>0, <2>2 DEF MutexInv, Critical
  <2>4. infos'[uses[r]].policy = policy
    BY <1>0, <2>1 DEF SetPolicy
  <2>5. \A j \in Reqs : j # uses[r] => infos'[j] = infos[j]
    BY <1>0, <2>1 DEF SetPolicy
  <2>6. pc' = [pc EXCEPT ![r] = "decide"] /\ uses' = uses
    BY <2>1 DEF SetPolicy
  <2> QED
    BY <1>0, <2>3, <2>4, <2>5, <2>6 DEF Critical
<1>9. CASE UserChanges \/ UNCHANGED vars \/ \E r \in Reqs : ManagerOpens(r) \/ Expire(r)
  BY <1>9, InfoQuiet DEF UserChanges, ManagerOpens, Expire, vars
<1> QED
  BY <1>1, <1>2, <1>3, <1>4, <1>5, <1>9 DEF Next, Handler

\* su_daemon_handler: whatever requests interleave, each is decided by a SuInfo
\* of its uid, and requests that share one are decided alike.
THEOREM SuSafe == Spec => [](OwnInfo /\ SharedDecision)
<1>1. IInv /\ [Next]_vars => IInv'
  BY TypeStep, InfoStep, MutexStep, PolicyStep DEF IInv
<1>2. IInv => OwnInfo /\ SharedDecision
  <2> SUFFICES ASSUME IInv PROVE OwnInfo /\ SharedDecision
    OBVIOUS
  <2>1. OwnInfo
    <3>1. ASSUME NEW r \in Reqs, pc[r] \in After \cup {"check"}
          PROVE  infos[uses[r]].uid = ReqUid[r]
      BY <3>1 DEF IInv, InfoInv, Built
    <3> QED
      BY <3>1 DEF OwnInfo, After
  <2>2. SharedDecision
    BY DEF IInv, PolicyInv, SharedDecision, Decided
  <2> QED
    BY <2>1, <2>2
<1> QED
  BY <1>1, <1>2, InitIInv, PTL DEF Spec

\* connect_app: a policy that the database or the user has settled is never
\* overwritten by a later dialog.
THEOREM SuAnswerStands == Spec => AnswerStands
<1>1. IInv /\ [Next]_vars => IInv'
  BY TypeStep, InfoStep, MutexStep, PolicyStep DEF IInv
<1>2. ASSUME IInv, [Next]_vars
      PROVE  [\A i \in Reqs : infos[i].policy # "Query" /\ infos[i].uid >= 0 =>
                infos'[i] = infos[i]]_vars
  BY <1>2, InfoChange
<1> QED
  BY <1>1, <1>2, InitIInv, PTL DEF Spec, AnswerStands
-----------------------------------------------------------------------------
(* The shell *)

Msgs == {"0", "deny", "ptmx", "code"}

\* What su_client_main can have read while it waits for the acknowledgement:
\* nothing, a refusal, or the child's 0.
AckInv(r) ==
  r.client = "ack" =>
    IF r.child \in {"none", "ack"}
    THEN r.toC = <<>> \/ (r.child = "none" /\ r.daemon = "done" /\ Head(r.toC) = "deny")
    ELSE r.toC # <<>> /\ Head(r.toC) = "0"

\* The order of su_daemon_handler and its child.
DaemonInv(r) ==
  /\ r.client = "none" => r.daemon = "none" /\ r.result = "none"
  /\ r.child # "none" => r.daemon \in {"wait", "done"}
  /\ r.child = "ack" => r.daemon = "wait"
  /\ r.result = "EACCES" => r.child = "none" /\ r.daemon = "done"

\* The shell of session s, and the process that asked for it.
ShellInv(s, r) ==
  /\ r.client # "none" => proc[r.by].at # "none"
  /\ r.child \in {"none", "ack", "fds", "exec"} => proc[s + 1].at = "none"
  /\ r.child = "run" => proc[s + 1].at # "none"
  /\ proc[s + 1].at # "none" =>
       (proc[r.by].restricted \/ r.req.drop_cap => proc[s + 1].restricted)

\* The fields of a session; nothing is asked of the request.
Fields == {"client", "daemon", "child", "by", "req", "tty", "toC", "toD", "result"}

IsSession(r) ==
  /\ r = [f \in Fields |-> r[f]]
  /\ r.by \in Pids /\ r.toC \in Seq(Msgs)

IsProcess(q) ==
  q = [at |-> q.at, restricted |-> q.restricted, ns |-> q.ns, uid |-> q.uid, gid |-> q.gid]
IsProc(p) == IsProcess(proc[p])

SessInv(s, r) == IsSession(r) /\ AckInv(r) /\ DaemonInv(r) /\ ShellInv(s, r)

SuInv ==
  /\ sess = [s \in Sessions |-> sess[s]] /\ proc = [p \in Pids |-> proc[p]]
  /\ \A p \in Pids : IsProc(p)
  /\ \A s \in Sessions : SessInv(s, sess[s])

\* The shell of a session is a process.
LEMMA ShellPid == \A s \in Sessions : s + 1 \in Pids /\ s + 1 # 1
BY SessionsAssumption DEF Sessions, Pids

\* Before any su command there is the app alone.
LEMMA SuInitInv == SuShellInit => SuInv
<1> SUFFICES ASSUME SuShellInit PROVE SuInv
  OBVIOUS
<1>1. 1 \in Pids
  BY SessionsAssumption DEF Pids
<1>2. ASSUME NEW p \in Pids PROVE IsProc(p)
  <2>1. CASE p = 1
    BY <2>1 DEF SuShellInit, IsProc, IsProcess, App
  <2>2. CASE p # 1
    BY <2>2 DEF SuShellInit, IsProc, IsProcess, NoProc
  <2> QED BY <2>1, <2>2
<1>3. ASSUME NEW s \in Sessions PROVE SessInv(s, sess[s])
  <2>1. sess[s] = NoSess /\ proc[s + 1] = NoProc
    BY ShellPid DEF SuShellInit
  <2>2. IsSession(NoSess)
    BY <1>1 DEF NoSess, IsSession, Fields
  <2>3. AckInv(NoSess) /\ DaemonInv(NoSess)
    BY DEF NoSess, AckInv, DaemonInv
  <2>4. ShellInv(s, NoSess)
    BY <2>1 DEF NoSess, NoProc, ShellInv
  <2> QED BY <2>1, <2>2, <2>3, <2>4 DEF SessInv
<1> QED BY <1>2, <1>3 DEF SuInv, SuShellInit

\* A step of one session that leaves the processes alone.
LEMMA OneSession ==
  ASSUME SuInv, NEW s \in Sessions, NEW w, SessInv(s, w),
         sess' = [sess EXCEPT ![s] = w], UNCHANGED proc
  PROVE  SuInv'
<1>1. sess' = [r \in Sessions |-> sess'[r]] /\ sess'[s] = w
  BY DEF SuInv
<1>2. ASSUME NEW r \in Sessions PROVE SessInv(r, sess[r])'
  <2>1. SessInv(r, sess'[r])
    <3>1. CASE r = s
      BY <1>1, <3>1
    <3>2. CASE r # s
      <4>1. sess'[r] = sess[r]
        BY <3>2 DEF SuInv
      <4> QED BY <4>1 DEF SuInv
    <3> QED BY <3>1, <3>2
  <2> QED BY <2>1 DEF SessInv, IsSession, AckInv, DaemonInv, ShellInv
<1>3. ASSUME NEW p \in Pids PROVE IsProc(p)'
  BY DEF SuInv, IsProc, IsProcess
<1> QED BY <1>1, <1>2, <1>3 DEF SuInv

\* write_int on the socket: what the client reads next.
LEMMA Sent ==
  ASSUME NEW q \in Seq(Msgs), NEW m \in Msgs
  PROVE  /\ Append(q, m) # <<>>
         /\ q = <<>> => Head(Append(q, m)) = m
         /\ q # <<>> => Head(Append(q, m)) = Head(q)
<1>1. Len(Append(q, m)) = Len(q) + 1 /\ Len(q) \in Nat
  OBVIOUS
<1>2. q # <<>> => Len(q) > 0 /\ Head(q) = q[1] /\ Append(q, m)[1] = q[1]
  OBVIOUS
<1>3. Append(q, m) \in Seq(Msgs) /\ Append(q, m) # <<>>
  BY <1>1
<1>4. Head(Append(q, m)) = Append(q, m)[1]
  BY <1>3
<1>5. q = <<>> => Append(q, m)[1] = m
  OBVIOUS
<1> QED BY <1>2, <1>3, <1>4, <1>5

\* su_client_main: a request, and the steps after it.
LEMMA RequestStep ==
  ASSUME SuInv, NEW s \in Sessions, NEW p \in Pids, NEW opts, NEW isatty, Request(s, p, opts, isatty)
  PROVE  SuInv'
<1> DEFINE req == Parse(opts)
           tty == isatty /\ (Parse(opts).interactive \/ ~Parse(opts).cmd)
           w == [NoSess EXCEPT !.client = "ack", !.daemon = "read", !.by = p, !.req = req,
                   !.toD = <<"request">>, !.tty = tty]
<1>1. sess' = [sess EXCEPT ![s] = w] /\ UNCHANGED proc /\ proc[p].at = "alive" /\ sess[s].client = "none"
  BY DEF Request
<1> HIDE DEF req, tty
<1>2. /\ IsSession(w) /\ w.client = "ack" /\ w.daemon = "read" /\ w.child = "none" /\ w.by = p
      /\ w.toC = <<>> /\ w.result = "none"
  <2>1. /\ IsSession(NoSess) /\ NoSess.child = "none" /\ NoSess.toC = <<>>
        /\ NoSess.result = "none"
    BY SessionsAssumption DEF NoSess, IsSession, Fields, Pids
  <2> QED BY <2>1 DEF IsSession, Fields
<1> HIDE DEF w
<1>3. SessInv(s, sess[s])
  BY DEF SuInv
<1>4. proc[s + 1].at = "none"
  BY <1>1, <1>3 DEF SessInv, DaemonInv, ShellInv
<1>5. SessInv(s, w)
  BY <1>1, <1>2, <1>4 DEF SessInv, AckInv, DaemonInv, ShellInv
<1> QED BY <1>1, <1>5, OneSession

\* What a client has read: the rest is still a sequence of messages.
LEMMA ReadType == ASSUME NEW s, sess[s].toC \in Seq(Msgs) PROVE Read(s) \in Seq(Msgs)
BY DEF Read

\* su_client_main after the request: every read, and its death.
LEMMA ClientStep ==
  ASSUME SuInv, NEW s \in Sessions,
         \/ ClientAck(s) \/ ClientSendsFds(s) \/ ClientRecvPtmx(s) \/ ClientPump(s)
         \/ ClientCode(s) \/ sighandler(s) \/ ClientDies(s)
  PROVE  SuInv'
<1> DEFINE r == sess[s]
<1>1. SessInv(s, r) /\ sess = [t \in Sessions |-> sess[t]]
  BY DEF SuInv
<1>2. Read(s) \in Seq(Msgs)
  BY <1>1, ReadType DEF SessInv, IsSession
<1>3. ASSUME NEW c, NEW toC \in Seq(Msgs), NEW toD, NEW result,
             r.client # "none", c \notin {"none", "ack"},
             result = "EACCES" => r.result = "EACCES" \/ (r.child = "none" /\ r.daemon = "done"),
             sess' = [sess EXCEPT ![s] = [r EXCEPT !.client = c, !.toC = toC, !.toD = toD, !.result = result]],
             UNCHANGED proc
      PROVE  SuInv'
  <2> DEFINE w == [r EXCEPT !.client = c, !.toC = toC, !.toD = toD, !.result = result]
  <2>1. /\ w = [f \in Fields |-> w[f]]
        /\ w.client = c /\ w.daemon = r.daemon /\ w.child = r.child /\ w.by = r.by
        /\ w.req = r.req /\ w.toC = toC /\ w.result = result
    BY <1>1 DEF SessInv, IsSession, Fields
  <2> HIDE DEF w
  <2>2. IsSession(w)
    BY <1>1, <1>3, <2>1 DEF SessInv, IsSession
  <2>3. AckInv(w) /\ DaemonInv(w) /\ ShellInv(s, w)
    BY <1>1, <1>3, <2>1 DEF SessInv, AckInv, DaemonInv, ShellInv
  <2>4. sess' = [sess EXCEPT ![s] = w]
    BY <1>3 DEF w
  <2> QED BY <1>3, <2>2, <2>3, <2>4, OneSession DEF SessInv
<1>4. IsSession(r) /\ AckInv(r) /\ DaemonInv(r)
  BY <1>1 DEF SessInv
<1>5. CASE ClientAck(s)
  <2>1. PICK m \in {"0", "deny", "eof"} :
          /\ Reads(s, m)
          /\ sess' = [sess EXCEPT ![s].toC = Read(s),
                        ![s].client = IF m = "0" THEN "fds" ELSE "returned",
                        ![s].result = IF m = "0" THEN @ ELSE "EACCES"]
    BY <1>5 DEF ClientAck
  <2> DEFINE c == IF m = "0" THEN "fds" ELSE "returned"
             res == IF m = "0" THEN r.result ELSE "EACCES"
  <2>2. sess' = [sess EXCEPT ![s] = [r EXCEPT !.client = c, !.toC = Read(s), !.toD = r.toD, !.result = res]]
    BY <1>1, <1>4, <2>1 DEF IsSession, Fields
  <2>3. m # "0" => r.child = "none" /\ r.daemon = "done"
    BY <1>4, <1>5, <2>1 DEF ClientAck, Reads, Hungup, AckInv, DaemonInv
  <2>4. c \notin {"none", "ack"} /\ r.client # "none"
    BY <1>5 DEF ClientAck
  <2>5. res = "EACCES" => r.result = "EACCES" \/ (r.child = "none" /\ r.daemon = "done")
    BY <2>3
  <2>6. UNCHANGED proc
    BY <1>5 DEF ClientAck
  <2> HIDE DEF c, res
  <2> QED BY <1>2, <1>3, <2>2, <2>4, <2>5, <2>6
<1>6. CASE ClientSendsFds(s)
  <2> DEFINE c == IF r.tty THEN "ptmx" ELSE "code"
             toD == Append(r.toD, "fds")
  <2>1. sess' = [sess EXCEPT ![s] = [r EXCEPT !.client = c, !.toC = r.toC, !.toD = toD, !.result = r.result]]
    BY <1>1, <1>4, <1>6 DEF ClientSendsFds, IsSession, Fields
  <2>2. c \notin {"none", "ack"} /\ r.client # "none" /\ UNCHANGED proc /\ r.toC \in Seq(Msgs)
    BY <1>4, <1>6 DEF ClientSendsFds, IsSession
  <2> HIDE DEF c, toD
  <2> QED BY <1>3, <2>1, <2>2
<1>7. CASE ClientRecvPtmx(s)
  <2>1. PICK m \in {"ptmx", "code", "eof"} :
          sess' = [sess EXCEPT ![s].toC = Read(s), ![s].client = IF m = "ptmx" THEN "pump" ELSE "code"]
    BY <1>7 DEF ClientRecvPtmx
  <2> DEFINE c == IF m = "ptmx" THEN "pump" ELSE "code"
  <2>2. sess' = [sess EXCEPT ![s] = [r EXCEPT !.client = c, !.toC = Read(s), !.toD = r.toD, !.result = r.result]]
    BY <1>1, <1>4, <2>1 DEF IsSession, Fields
  <2>3. c \notin {"none", "ack"} /\ r.client # "none" /\ UNCHANGED proc
    BY <1>7 DEF ClientRecvPtmx
  <2> HIDE DEF c
  <2> QED BY <1>2, <1>3, <2>2, <2>3
<1>8. CASE ClientCode(s)
  <2>1. PICK m \in {"code", "eof"} :
          sess' = [sess EXCEPT ![s].toC = Read(s), ![s].client = "returned", ![s].result = m]
    BY <1>8 DEF ClientCode
  <2>2. sess' = [sess EXCEPT ![s] = [r EXCEPT !.client = "returned", !.toC = Read(s), !.toD = r.toD, !.result = m]]
    BY <1>1, <1>4, <2>1 DEF IsSession, Fields
  <2>3. r.client # "none" /\ UNCHANGED proc
    BY <1>8 DEF ClientCode
  <2> DEFINE c == "returned"
  <2>4. c \notin {"none", "ack"} /\ m # "EACCES"
    OBVIOUS
  <2> HIDE DEF c
  <2>5. sess' = [sess EXCEPT ![s] = [r EXCEPT !.client = c, !.toC = Read(s), !.toD = r.toD, !.result = m]]
    BY <2>2 DEF c
  <2> QED BY <1>2, <1>3, <2>3, <2>4, <2>5
<1>9. CASE ClientPump(s) \/ sighandler(s) \/ ClientDies(s)
  <2>1. PICK c \in {"code", "dead"} : sess' = [sess EXCEPT ![s].client = c]
    BY <1>9 DEF ClientPump, sighandler, ClientDies
  <2>2. sess' = [sess EXCEPT ![s] = [r EXCEPT !.client = c, !.toC = r.toC, !.toD = r.toD, !.result = r.result]]
    BY <1>1, <1>4, <2>1 DEF IsSession, Fields
  <2>3. r.client # "none" /\ UNCHANGED proc /\ r.toC \in Seq(Msgs)
    BY <1>4, <1>9 DEF ClientPump, sighandler, ClientDies, IsSession
  <2>4. c \notin {"none", "ack"}
    OBVIOUS
  <2> QED BY <1>3, <2>2, <2>3, <2>4
<1> QED BY <1>5, <1>6, <1>7, <1>8, <1>9

\* su_daemon_handler and exec_root_shell up to its exec: a session whose daemon
\* thread or child moved, and to which a message may have been sent.
LEMMA Moved ==
  ASSUME SuInv, NEW s \in Sessions, NEW w, NEW d, NEW c, NEW m \in Msgs,
         sess' = [sess EXCEPT ![s] = w], UNCHANGED proc,
         w = [f \in Fields |-> w[f]],
         w.client = sess[s].client, w.by = sess[s].by, w.result = sess[s].result,
         w.daemon = d, w.child = c,
         w.toC = sess[s].toC \/ w.toC = Append(sess[s].toC, m),
         w.req = sess[s].req \/ sess[s].daemon = "read",
         AckInv(w), sess[s].daemon # "none", sess[s].daemon # "done" \/ sess[s].child # "none",
         c # "none" => d \in {"wait", "done"}, c = "ack" => d = "wait", c # "run",
         c \in {"none", "ack", "fds", "exec"} => sess[s].child \in {"none", "ack", "fds", "exec"}
  PROVE  SuInv'
<1>1. SessInv(s, sess[s])
  BY DEF SuInv
<1>2. w.toC \in Seq(Msgs)
  <2>1. sess[s].toC \in Seq(Msgs)
    BY <1>1 DEF SessInv, IsSession
  <2>2. Append(sess[s].toC, m) \in Seq(Msgs)
    BY <2>1
  <2> QED BY <2>1, <2>2
<1>3. IsSession(w)
  BY <1>1, <1>2 DEF SessInv, IsSession
<1>4. DaemonInv(w)
  BY <1>1 DEF SessInv, DaemonInv
<1>5. ShellInv(s, w)
  BY <1>1 DEF SessInv, DaemonInv, ShellInv
<1> QED BY <1>3, <1>4, <1>5, OneSession DEF SessInv

\* su_daemon_handler: the decision, the fork, and the wait.
LEMMA DaemonStep ==
  ASSUME SuInv, NEW s \in Sessions,
         \/ \E policy \in {"Allow", "Restrict", "Deny"} : DaemonDecides(s, policy)
         \/ DaemonForks(s) \/ DaemonWaits(s)
  PROVE  SuInv'
<1> DEFINE r == sess[s]
<1>1. IsSession(r) /\ AckInv(r) /\ DaemonInv(r) /\ sess = [t \in Sessions |-> sess[t]]
  BY DEF SuInv, SessInv
<1>2. ASSUME NEW policy \in {"Allow", "Restrict", "Deny"}, DaemonDecides(s, policy) PROVE SuInv'
  <2> DEFINE req == [r.req EXCEPT !.drop_cap = @ \/ policy = "Restrict"]
             toC == IF policy = "Deny" THEN Append(r.toC, "deny") ELSE r.toC
             d == IF policy = "Deny" THEN "done" ELSE "fork"
             w == [r EXCEPT !.toD = Tail(@), !.req = req, !.toC = toC, !.daemon = d]
  <2>1. sess' = [sess EXCEPT ![s] = w] /\ UNCHANGED proc /\ r.daemon = "read"
    BY <1>1, <1>2 DEF DaemonDecides, IsSession, Fields
  <2> HIDE DEF req
  <2>2. /\ w = [f \in Fields |-> w[f]] /\ w.client = r.client /\ w.by = r.by /\ w.result = r.result
        /\ w.daemon = d /\ w.child = r.child /\ w.toC = toC
    BY <1>1 DEF IsSession, Fields
  <2> HIDE DEF w
  <2>3. r.child = "none"
    BY <1>1, <2>1 DEF DaemonInv
  <2>4. AckInv(w)
    <3>1. r.client = "ack" => r.toC = <<>>
      BY <1>1, <2>1, <2>3 DEF AckInv
    <3>2. Head(Append(<<>>, "deny")) = "deny"
      BY Sent DEF Msgs
    <3> QED BY <2>2, <2>3, <3>1, <3>2 DEF AckInv
  <2>5. w.toC = r.toC \/ w.toC = Append(r.toC, "deny")
    BY <2>2
  <2> HIDE DEF d, toC
  <2> QED BY <2>1, <2>2, <2>3, <2>4, <2>5, Moved DEF Msgs
<1>3. CASE DaemonForks(s)
  <2>1. PICK d \in {"wait", "done"}, c \in {"ack", "none"} :
          /\ c = "ack" <=> d = "wait"
          /\ sess' = [sess EXCEPT ![s] = [r EXCEPT !.daemon = d, !.child = c]]
    <3>1. r.child = "none"
      BY <1>1, <1>3 DEF DaemonForks, DaemonInv
    <3>2. CASE sess' = [sess EXCEPT ![s].daemon = "wait", ![s].child = "ack"]
      <4>1. sess' = [sess EXCEPT ![s] = [r EXCEPT !.daemon = "wait", !.child = "ack"]]
        BY <1>1, <3>2
      <4> QED BY <4>1
    <3>3. CASE sess' = [sess EXCEPT ![s].daemon = "done"]
      <4>1. [r EXCEPT !.daemon = "done", !.child = "none"] = [r EXCEPT !.daemon = "done"]
        BY <1>1, <3>1 DEF IsSession, Fields
      <4>2. sess' = [sess EXCEPT ![s] = [r EXCEPT !.daemon = "done", !.child = "none"]]
        BY <1>1, <3>3, <4>1
      <4> QED BY <4>2
    <3> QED BY <1>3, <3>2, <3>3 DEF DaemonForks
  <2> DEFINE w == [r EXCEPT !.daemon = d, !.child = c]
  <2>2. /\ w = [f \in Fields |-> w[f]] /\ w.client = r.client /\ w.by = r.by /\ w.result = r.result
        /\ w.daemon = d /\ w.child = c /\ w.toC = r.toC /\ w.req = r.req
    BY <1>1 DEF IsSession, Fields
  <2>3. sess' = [sess EXCEPT ![s] = w] /\ UNCHANGED proc /\ r.daemon = "fork" /\ r.child = "none"
    BY <1>1, <1>3, <2>1 DEF DaemonForks, DaemonInv
  <2> HIDE DEF w
  <2>4. AckInv(w)
    BY <1>1, <2>2, <2>3 DEF AckInv
  <2>5. "0" \in Msgs /\ (c # "none" => d \in {"wait", "done"}) /\ (c = "ack" => d = "wait")
    BY <2>1 DEF Msgs
  <2> QED BY <2>2, <2>3, <2>4, <2>5, Moved
<1>4. CASE DaemonWaits(s)
  <2> DEFINE w == [r EXCEPT !.daemon = "done", !.toC = Append(@, "code")]
  <2>1. /\ w = [f \in Fields |-> w[f]] /\ w.client = r.client /\ w.by = r.by /\ w.result = r.result
        /\ w.daemon = "done" /\ w.child = r.child /\ w.toC = Append(r.toC, "code") /\ w.req = r.req
    BY <1>1 DEF IsSession, Fields
  <2>2. sess' = [sess EXCEPT ![s] = w] /\ UNCHANGED proc /\ r.daemon = "wait" /\ r.child = "gone"
    BY <1>1, <1>4 DEF DaemonWaits
  <2> HIDE DEF w
  <2>3. AckInv(w)
    <3>1. r.client = "ack" => r.toC # <<>> /\ Head(r.toC) = "0"
      BY <1>1, <2>2 DEF AckInv
    <3>2. /\ Append(r.toC, "code") # <<>>
          /\ r.toC # <<>> => Head(Append(r.toC, "code")) = Head(r.toC)
      BY <1>1, Sent DEF Msgs, IsSession
    <3> QED BY <2>1, <2>2, <3>1, <3>2 DEF AckInv
  <2> QED BY <2>1, <2>2, <2>3, Moved DEF Msgs
<1> QED BY <1>2, <1>3, <1>4

\* exec_root_shell: the acknowledgement and the streams.
LEMMA ChildStep ==
  ASSUME SuInv, NEW s \in Sessions, ChildAcks(s) \/ ChildStreams(s)
  PROVE  SuInv'
<1> DEFINE r == sess[s]
<1>1. IsSession(r) /\ AckInv(r) /\ DaemonInv(r) /\ sess = [t \in Sessions |-> sess[t]]
  BY DEF SuInv, SessInv
<1>2. ASSUME NEW c, NEW toD, NEW toC, NEW m \in Msgs,
             c \in {"fds", "exec", "gone"}, r.child \in {"ack", "fds"},
             IF r.child = "ack" THEN m = "0" /\ toC = Append(r.toC, m)
                                ELSE toC = r.toC \/ toC = Append(r.toC, m),
             UNCHANGED proc,
             sess' = [sess EXCEPT ![s] = [r EXCEPT !.child = c, !.toD = toD, !.toC = toC]]
      PROVE  SuInv'
  <2> DEFINE w == [r EXCEPT !.child = c, !.toD = toD, !.toC = toC]
  <2>1. /\ w = [f \in Fields |-> w[f]] /\ w.client = r.client /\ w.by = r.by /\ w.result = r.result
        /\ w.daemon = r.daemon /\ w.child = c /\ w.toC = toC /\ w.req = r.req
    BY <1>1 DEF IsSession, Fields
  <2>2. sess' = [sess EXCEPT ![s] = w]
    BY <1>2
  <2> HIDE DEF w
  <2>3. r.daemon \in {"wait", "done"} /\ (r.child = "ack" => r.daemon = "wait")
    BY <1>1, <1>2 DEF DaemonInv
  <2>4. AckInv(w)
    <3>1. r.client = "ack" => IF r.child = "ack" THEN r.toC = <<>>
                                                 ELSE r.toC # <<>> /\ Head(r.toC) = "0"
      BY <1>1, <1>2 DEF AckInv
    <3>2. /\ Append(r.toC, m) # <<>>
          /\ r.toC = <<>> => Head(Append(r.toC, m)) = m
          /\ r.toC # <<>> => Head(Append(r.toC, m)) = Head(r.toC)
      BY <1>1, Sent DEF IsSession
    <3>3. c \notin {"none", "ack"}
      BY <1>2
    <3> QED BY <1>2, <2>1, <3>1, <3>2, <3>3 DEF AckInv
  <2>5. /\ w.toC = r.toC \/ w.toC = Append(r.toC, m)
        /\ r.daemon # "none" /\ r.child # "none" /\ r.child \in {"none", "ack", "fds", "exec"}
        /\ c # "ack"
    BY <1>2, <2>1, <2>3
  <2> QED BY <1>2, <2>1, <2>2, <2>3, <2>4, <2>5, Moved
<1>3. "0" \in Msgs /\ "ptmx" \in Msgs
  BY DEF Msgs
<1>4. CASE ChildAcks(s)
  <2>1. sess' = [sess EXCEPT ![s] = [r EXCEPT !.child = "fds", !.toD = r.toD, !.toC = Append(r.toC, "0")]]
    BY <1>1, <1>4 DEF ChildAcks, IsSession, Fields
  <2>2. r.child = "ack" /\ UNCHANGED proc
    BY <1>4 DEF ChildAcks
  <2> QED BY <1>2, <1>3, <2>1, <2>2
<1>5. CASE ChildStreams(s)
  <2>1. r.child = "fds" /\ UNCHANGED proc
    BY <1>5 DEF ChildStreams
  <2>2. CASE sess' = [sess EXCEPT ![s].toD = Tail(@),
                        ![s].child = IF r.tty /\ r.client = "dead" THEN "gone" ELSE "exec",
                        ![s].toC = IF r.tty THEN Append(@, "ptmx") ELSE @]
    <3> DEFINE c == IF r.tty /\ r.client = "dead" THEN "gone" ELSE "exec"
               toC == IF r.tty THEN Append(r.toC, "ptmx") ELSE r.toC
    <3>1. sess' = [sess EXCEPT ![s] = [r EXCEPT !.child = c, !.toD = Tail(r.toD), !.toC = toC]]
      BY <1>1, <2>2 DEF IsSession, Fields
    <3>2. c \in {"fds", "exec", "gone"} /\ (toC = r.toC \/ toC = Append(r.toC, "ptmx"))
      OBVIOUS
    <3> HIDE DEF c, toC
    <3> QED BY <1>2, <1>3, <2>1, <3>1, <3>2
  <2>3. CASE sess' = [sess EXCEPT ![s].toD = Tail(@), ![s].child = "gone"]
    <3>1. sess' = [sess EXCEPT ![s] = [r EXCEPT !.child = "gone", !.toD = Tail(r.toD), !.toC = r.toC]]
      BY <1>1, <2>3 DEF IsSession, Fields
    <3> QED BY <1>2, <1>3, <2>1, <3>1
  <2>4. CASE sess' = [sess EXCEPT ![s].child = "gone"]
    <3>1. sess' = [sess EXCEPT ![s] = [r EXCEPT !.child = "gone", !.toD = r.toD, !.toC = r.toC]]
      BY <1>1, <2>4 DEF IsSession, Fields
    <3> QED BY <1>2, <1>3, <2>1, <3>1
  <2> QED BY <1>5, <2>2, <2>3, <2>4 DEF ChildStreams
<1> QED BY <1>4, <1>5

\* exec_root_shell and the end of the shell: only here a process changes.
LEMMA OneShell ==
  ASSUME SuInv, NEW s \in Sessions, NEW c \in {"run", "gone"}, NEW q, NEW w,
         w = [f \in Fields |-> w[f]],
         w.client = sess[s].client, w.by = sess[s].by, w.result = sess[s].result,
         w.daemon = sess[s].daemon, w.child = c, w.toC = sess[s].toC, w.req = sess[s].req,
         sess[s].child \in {"exec", "run"},
         IsProcess(q), q.at # "none",
         sess[s].child = "exec" => q.restricted = drop_caps(s),
         sess[s].child = "run" => q.restricted = proc[s + 1].restricted,
         sess' = [sess EXCEPT ![s] = w], proc' = [proc EXCEPT ![s + 1] = q]
  PROVE  SuInv'
<1> DEFINE r == sess[s]
<1>1. SessInv(s, r) /\ s + 1 \in Pids
  BY ShellPid DEF SuInv
<1>2. sess' = [t \in Sessions |-> sess'[t]] /\ sess'[s] = w
  BY DEF SuInv
<1>3. /\ proc' = [p \in Pids |-> proc'[p]] /\ proc'[s + 1] = q
      /\ \A p \in Pids : p # s + 1 => proc'[p] = proc[p]
  BY <1>1 DEF SuInv
<1>4. ASSUME NEW p \in Pids PROVE IsProc(p)'
  <2>1. CASE p = s + 1
    BY <1>3, <2>1 DEF IsProc, IsProcess
  <2>2. CASE p # s + 1
    BY <1>3, <2>2 DEF IsProc, IsProcess, SuInv
  <2> QED BY <2>1, <2>2
\* A process that asked for a shell keeps its capabilities.
<1>5. ASSUME NEW p \in Pids, proc[p].at # "none"
      PROVE  proc'[p].at # "none" /\ proc'[p].restricted = proc[p].restricted
  <2>1. CASE p = s + 1
    BY <1>1, <1>3, <1>5, <2>1 DEF SessInv, ShellInv
  <2>2. CASE p # s + 1
    BY <1>3, <1>5, <2>2
  <2> QED BY <2>1, <2>2
<1>6. ASSUME NEW t \in Sessions PROVE SessInv(t, sess[t])'
  <2>1. CASE t = s
    <3>1. IsSession(w) /\ AckInv(w) /\ DaemonInv(w)
      BY <1>1 DEF SessInv, IsSession, AckInv, DaemonInv
    <3>2. r.client # "none" /\ r.by \in Pids /\ proc[r.by].at # "none"
      BY <1>1 DEF SessInv, IsSession, DaemonInv, ShellInv
    <3>3. proc'[r.by].at # "none" /\ proc'[r.by].restricted = proc[r.by].restricted
      BY <1>5, <3>2
    <3>4. (proc[r.by].restricted \/ r.req.drop_cap) => q.restricted
      BY <1>1 DEF SessInv, ShellInv, drop_caps, proc_is_restricted
    <3>5. ShellInv(t, sess[t])'
      BY <1>2, <1>3, <2>1, <3>3, <3>4 DEF ShellInv
    <3>6. sess'[t] = w
      BY <1>2, <2>1
    <3>7. IsSession(sess[t])'
      BY <3>1, <3>6
    <3>8. AckInv(sess[t])' /\ DaemonInv(sess[t])'
      BY <3>1, <3>6 DEF AckInv, DaemonInv
    <3> QED BY <3>5, <3>7, <3>8 DEF SessInv
  <2>2. CASE t # s
    <3>1. sess'[t] = sess[t] /\ SessInv(t, sess[t])
      BY <2>2 DEF SuInv
    <3>2. t + 1 \in Pids /\ proc'[t + 1] = proc[t + 1]
      BY <1>3, <2>2, ShellPid DEF Sessions
    <3>3. sess[t].by \in Pids /\ (sess[t].client = "none" => sess[t].child = "none")
      BY <3>1 DEF SessInv, IsSession, DaemonInv
    <3>4. ShellInv(t, sess[t])'
      BY <1>5, <3>1, <3>2, <3>3 DEF SessInv, ShellInv
    <3> QED BY <3>1, <3>4 DEF SessInv, IsSession, AckInv, DaemonInv
  <2> QED BY <2>1, <2>2
<1> QED BY <1>2, <1>3, <1>4, <1>6 DEF SuInv

\* exec_root_shell: the exec, and the exit of the shell.
LEMMA ShellStep ==
  ASSUME SuInv, NEW s \in Sessions,
         (\E mode \in MntNsModes : exec_root_shell(s, mode)) \/ ShellExits(s)
  PROVE  SuInv'
<1> DEFINE r == sess[s]
<1>1. /\ SessInv(s, r) /\ s + 1 \in Pids /\ IsProc(s + 1)
      /\ sess = [t \in Sessions |-> sess[t]] /\ proc = [p \in Pids |-> proc[p]]
  BY ShellPid DEF SuInv
<1>2. ASSUME NEW mode \in MntNsModes, exec_root_shell(s, mode) PROVE SuInv'
  <2>1. CASE r.client = "dead"
    <3> DEFINE w == [r EXCEPT !.child = "gone"]
    <3>1. /\ w = [f \in Fields |-> w[f]] /\ w.client = r.client /\ w.by = r.by /\ w.result = r.result
          /\ w.daemon = r.daemon /\ w.child = "gone" /\ w.toC = r.toC /\ w.req = r.req
      BY <1>1 DEF SessInv, IsSession, Fields
    <3>2. sess' = [sess EXCEPT ![s] = w] /\ UNCHANGED proc /\ r.child = "exec"
      BY <1>2, <2>1 DEF exec_root_shell
    <3> HIDE DEF w
    <3>3. AckInv(w) /\ "0" \in Msgs /\ r.daemon \in {"wait", "done"}
      BY <1>1, <2>1, <3>1, <3>2 DEF SessInv, AckInv, DaemonInv, Msgs
    <3> QED BY <3>1, <3>2, <3>3, Moved
  <2>2. CASE r.client # "dead"
    <3> DEFINE n == Namespace(s, mode)
               u == set_identity(s).uid
               g == set_identity(s).gid
               d == drop_caps(s)
               w == [r EXCEPT !.child = "run"]
               q == [at |-> "alive", restricted |-> d, ns |-> n, uid |-> u, gid |-> g]
    <3>1. /\ r.child = "exec" /\ sess' = [sess EXCEPT ![s] = w]
          /\ proc' = [proc EXCEPT ![s + 1] = q]
      BY <1>2, <2>2 DEF exec_root_shell
    <3> HIDE DEF n, u, g, d
    <3>2. IsProcess(q) /\ q.at # "none" /\ q.restricted = d
      BY DEF IsProcess
    <3>4. /\ w = [f \in Fields |-> w[f]] /\ w.client = r.client /\ w.by = r.by /\ w.result = r.result
          /\ w.daemon = r.daemon /\ w.child = "run" /\ w.toC = r.toC /\ w.req = r.req
      BY <1>1 DEF SessInv, IsSession, Fields
    <3> HIDE DEF q, w
    <3>3. q.restricted = drop_caps(s)
      BY <3>2 DEF d
    <3> QED BY <3>1, <3>2, <3>3, <3>4, OneShell
  <2> QED BY <2>1, <2>2
<1>3. CASE ShellExits(s)
  <2> DEFINE q == [proc[s + 1] EXCEPT !.at = "dead"]
             w == [r EXCEPT !.child = "gone"]
  <2>1. IsProcess(q) /\ q.at = "dead" /\ q.restricted = proc[s + 1].restricted
    BY <1>1 DEF IsProc, IsProcess
  <2>2. /\ r.child = "run" /\ sess' = [sess EXCEPT ![s] = w]
        /\ proc' = [proc EXCEPT ![s + 1] = q]
    BY <1>3 DEF ShellExits
  <2>4. /\ w = [f \in Fields |-> w[f]] /\ w.client = r.client /\ w.by = r.by /\ w.result = r.result
        /\ w.daemon = r.daemon /\ w.child = "gone" /\ w.toC = r.toC /\ w.req = r.req
    BY <1>1 DEF SessInv, IsSession, Fields
  <2> HIDE DEF q, w
  <2>3. proc[s + 1].at # "none"
    BY <1>1, <2>2 DEF SessInv, ShellInv
  <2> QED BY <2>1, <2>2, <2>3, <2>4, OneShell
<1> QED BY <1>2, <1>3

\* su_daemon_handler and exec_root_shell: for any sessions, options, settings,
\* failures and deaths of clients, no shell is less restricted than the process
\* or the request it comes from, and none exists behind an EACCES.
THEOREM ShellsStayRestricted == SuShellSpec => []RestrictedStays
<1>1. SuInv /\ [SuShellNext]_suShellVars => SuInv'
  <2> SUFFICES ASSUME SuInv, [SuShellNext]_suShellVars PROVE SuInv'
    OBVIOUS
  <2>1. CASE SuShellNext
    <3>1. PICK s \in Sessions :
            \/ Step(s) \/ sighandler(s) \/ ClientDies(s)
            \/ \E p \in Pids, opts \in OptLists, isatty \in BOOLEAN : Request(s, p, opts, isatty)
      BY <2>1 DEF SuShellNext
    <3> QED BY <3>1, RequestStep, ClientStep, DaemonStep, ChildStep, ShellStep DEF Step
  <2>2. CASE UNCHANGED suShellVars
    <3>1. sess' = sess /\ proc' = proc
      BY <2>2 DEF suShellVars
    <3> QED BY <3>1 DEF SuInv, IsProc, IsProcess, SessInv, IsSession, AckInv, DaemonInv, ShellInv
  <2> QED BY <2>1, <2>2
<1>2. SuInv => RestrictedStays
  BY DEF SuInv, SessInv, DaemonInv, ShellInv, RestrictedStays
<1> QED BY SuInitInv, <1>1, <1>2, PTL DEF SuShellSpec
-----------------------------------------------------------------------------
(* The database *)

Needed == {"policies", "settings", "strings", "denylist"}

\* Files: their type, and what a version promises.
FileOK ==
  /\ dbFile \in [ver : Nat, tables : SUBSET Tables, rows : SUBSET PolicyUids, pkgCol : BOOLEAN]
  /\ dbFile.ver = 0 \/ dbFile.ver >= 7
  /\ dbFile.ver = 0 => ~dbFile.pkgCol
  /\ dbFile.ver \in 7..11 => {"policies", "settings", "strings"} \subseteq dbFile.tables
  /\ dbFile.ver = 11 => "denylist" \in dbFile.tables
  /\ dbFile.ver >= 12 => ~dbFile.pkgCol /\ Needed \subseteq dbFile.tables

\* An upgrade of an old file, by its next statement.
OldLeft ==
  \/ todo = "rebuild hidelist" /\ dbFile.ver \in {7, 8}
  \/ todo \in {"drop logs", "drop hidelist", "delete magiskhide", "create denylist"}
  \/ todo = "rebuild policies" /\ "denylist" \in dbFile.tables
  \/ todo = "user_version" /\ "denylist" \in dbFile.tables /\ ~dbFile.pkgCol

\* The making of a new one.
NewLeft ==
  \/ todo = "create policies"
  \/ todo = "create settings" /\ {"policies"} \subseteq dbFile.tables
  \/ todo = "create strings" /\ {"policies", "settings"} \subseteq dbFile.tables
  \/ todo = "create denylist" /\ {"policies", "settings", "strings"} \subseteq dbFile.tables
  \/ todo = "user_version" /\ Needed \subseteq dbFile.tables

DbInv ==
  /\ FileOK
  /\ conn = "upgrading" =>
       \/ dbFile.ver = 0 /\ NewLeft
       \/ dbFile.ver \in 7..11 /\ OldLeft
       \/ dbFile.ver = 12 /\ todo = "none"
  /\ conn = "failed" => dbFile.ver \in {7, 8} /\ "hidelist" \notin dbFile.tables
  /\ conn = "open" => dbFile.ver = 12

\* A file of any version there is keeps what its version promises.
LEMMA DbInitInv == DatabaseInit => DbInv
<1> SUFFICES ASSUME DatabaseInit PROVE DbInv
  OBVIOUS
<1>1. PICK v \in Versions, rows \in SUBSET PolicyUids :
        dbFile = [ver |-> v, tables |-> OldTables(v), rows |-> IF v = 0 THEN {} ELSE rows,
                  pkgCol |-> v \in 7..11]
  BY DEF DatabaseInit
<1>2. v \in Nat /\ (v = 0 \/ v >= 7)
  BY VersionsAssumption
<1>3. /\ OldTables(v) \in SUBSET Tables
      /\ v >= 7 => {"policies", "settings", "strings"} \subseteq OldTables(v)
      /\ v > 10 => "denylist" \in OldTables(v)
  <2>1. v = 0 \/ v \in 7..9 \/ v = 10 \/ v > 10
    BY <1>2
  <2>2. CASE v = 0
    BY <2>2 DEF OldTables
  <2>3. CASE v \in 7..9
    BY <2>3 DEF OldTables, Tables
  <2>4. CASE v = 10
    BY <2>4 DEF OldTables, Tables
  <2>5. CASE v > 10
    BY <1>2, <2>5 DEF OldTables, Tables
  <2> QED BY <2>1, <2>2, <2>3, <2>4, <2>5
<1>4. /\ dbFile.ver = v /\ dbFile.tables = OldTables(v) /\ dbFile.rows \in SUBSET PolicyUids
      /\ dbFile.pkgCol = (v \in 7..11) /\ dbFile.pkgCol \in BOOLEAN
      /\ dbFile = [ver |-> dbFile.ver, tables |-> dbFile.tables, rows |-> dbFile.rows,
                   pkgCol |-> dbFile.pkgCol]
  BY <1>1
<1>5. dbFile \in [ver : Nat, tables : SUBSET Tables, rows : SUBSET PolicyUids, pkgCol : BOOLEAN]
  BY <1>2, <1>3, <1>4, Zenon
<1>6. dbFile.ver = 0 \/ dbFile.ver >= 12 => ~dbFile.pkgCol
  <2>1. v = 0 \/ v >= 12 => v \notin 7..11
    BY <1>2
  <2>2. v \notin 7..11 => ~dbFile.pkgCol
    BY <1>4, Zenon
  <2> QED BY <1>4, <2>1, <2>2
<1>7. /\ dbFile.ver \in 7..11 => {"policies", "settings", "strings"} \subseteq dbFile.tables
      /\ dbFile.ver = 11 => "denylist" \in dbFile.tables
      /\ dbFile.ver >= 12 => Needed \subseteq dbFile.tables
  BY <1>2, <1>3, <1>4 DEF Needed
<1>8. FileOK
  BY <1>2, <1>4, <1>5, <1>6, <1>7 DEF FileOK
<1> QED
  BY <1>8 DEF DatabaseInit, DbInv

\* Where an upgrade starts, its invariant holds.
LEMMA OpenStep == DbInv /\ open_and_init_db => DbInv'
<1> SUFFICES ASSUME DbInv, open_and_init_db PROVE DbInv'
  OBVIOUS
<1>1. FileOK' /\ dbFile'.ver <= 12
  BY DEF DbInv, FileOK, open_and_init_db, EmptyFile, DB_VERSION
<1>2. dbFile'.ver \in {0, 7, 8, 9, 10, 11, 12}
  BY <1>1 DEF FileOK
<1>3. conn' = "upgrading" /\ todo' = First(dbFile'.ver)
  BY DEF open_and_init_db
<1>4. /\ First(0) = "create policies" /\ First(7) = "rebuild hidelist"
      /\ First(8) = "rebuild hidelist" /\ First(9) = "drop logs" /\ First(10) = "drop hidelist"
      /\ First(11) = "rebuild policies" /\ First(12) = "none"
  BY DEF First, DB_VERSION
<1>5. dbFile'.ver = 0 => NewLeft'
  BY <1>3, <1>4 DEF NewLeft
<1>6. dbFile'.ver = 11 => OldLeft'
  <2>1. dbFile'.ver = 11 => "denylist" \in dbFile'.tables
    BY <1>1 DEF FileOK
  <2> QED BY <1>3, <1>4, <2>1 DEF OldLeft
<1>7. dbFile'.ver \in {7, 8, 9, 10} => OldLeft'
  BY <1>3, <1>4 DEF OldLeft
<1>8. dbFile'.ver = 12 => todo' = "none"
  BY <1>3, <1>4
<1>9. dbFile'.ver \in {7, 8, 9, 10, 11} => dbFile'.ver \in 7..11
  OBVIOUS
<1> QED
  BY <1>1, <1>2, <1>3, <1>5, <1>6, <1>7, <1>8, <1>9 DEF DbInv

\* A statement that can be executed leads to the invariant's next case.
LEMMA EffectStep ==
  ASSUME DbInv, conn = "upgrading", todo # "none", Possible(todo),
         dbFile' = Effect(todo), todo' = Following(todo), conn' = conn
  PROVE  DbInv'
<1>1. CASE dbFile.ver = 0 /\ NewLeft
  <2>1. CASE todo = "create policies"
    BY <1>1, <2>1 DEF DbInv, FileOK, NewLeft, Effect, Following, Needed, Tables
  <2>2. CASE todo = "create settings" /\ {"policies"} \subseteq dbFile.tables
    BY <1>1, <2>2 DEF DbInv, FileOK, NewLeft, Effect, Following, Needed, Tables
  <2>3. CASE todo = "create strings" /\ {"policies", "settings"} \subseteq dbFile.tables
    BY <1>1, <2>3 DEF DbInv, FileOK, NewLeft, Effect, Following, Needed, Tables
  <2>4. CASE todo = "create denylist" /\ {"policies", "settings", "strings"} \subseteq dbFile.tables
    <3>1. dbFile' = [dbFile EXCEPT !.tables = @ \cup {"denylist"}]
      BY <2>4 DEF Effect
    <3>2. dbFile.ver <= 6
      BY <1>1
    <3>3. todo' = "user_version"
      BY <2>4, <3>2 DEF Following
    <3>4. /\ dbFile'.ver = 0 /\ dbFile'.tables = dbFile.tables \cup {"denylist"}
          /\ dbFile'.pkgCol = dbFile.pkgCol /\ dbFile' \in [ver : Nat, tables : SUBSET Tables,
                                               rows : SUBSET PolicyUids, pkgCol : BOOLEAN]
      BY <1>1, <3>1 DEF DbInv, FileOK, Tables
    <3>5. Needed \subseteq dbFile'.tables
      BY <2>4, <3>4 DEF Needed
    <3>6. FileOK'
      BY <1>1, <3>4 DEF DbInv, FileOK
    <3> QED BY <3>3, <3>4, <3>5, <3>6 DEF DbInv, NewLeft
  <2>5. CASE todo = "user_version" /\ Needed \subseteq dbFile.tables
    <3>1. dbFile' = [dbFile EXCEPT !.ver = 12] /\ todo' = "none"
      BY <2>5 DEF Effect, Following, DB_VERSION
    <3> QED BY <1>1, <2>5, <3>1 DEF DbInv, FileOK
  <2> QED BY <1>1, <2>1, <2>2, <2>3, <2>4, <2>5 DEF NewLeft
<1>2. CASE dbFile.ver \in 7..11 /\ OldLeft
  <2>1. CASE todo \in {"rebuild hidelist", "delete magiskhide"}
    BY <1>2, <2>1 DEF DbInv, FileOK, OldLeft, Effect, Following
  <2>2. CASE todo \in {"drop logs", "drop hidelist"}
    <3>1. \E t \in Tables : dbFile' = [dbFile EXCEPT !.tables = @ \ {t}] /\ t \in {"logs", "hidelist"}
      BY <2>2 DEF Effect, Tables
    <3>2. todo' \in {"drop hidelist", "delete magiskhide"}
      BY <2>2 DEF Following
    <3>3. FileOK' /\ dbFile'.ver = dbFile.ver
      BY <1>2, <3>1 DEF DbInv, FileOK
    <3> QED BY <1>2, <3>2, <3>3 DEF DbInv, OldLeft
  <2>3. CASE todo = "create denylist"
    <3>1. dbFile' = [dbFile EXCEPT !.tables = @ \cup {"denylist"}]
      BY <2>3 DEF Effect
    <3>2. ~(dbFile.ver <= 6)
      BY <1>2
    <3>3. todo' = "rebuild policies"
      BY <2>3, <3>2 DEF Following
    <3>4. /\ dbFile'.ver = dbFile.ver /\ "denylist" \in dbFile'.tables
          /\ dbFile' \in [ver : Nat, tables : SUBSET Tables, rows : SUBSET PolicyUids, pkgCol : BOOLEAN]
          /\ dbFile.tables \subseteq dbFile'.tables /\ dbFile'.pkgCol = dbFile.pkgCol
      BY <3>1 DEF DbInv, FileOK, Tables
    <3>5. FileOK'
      BY <1>2, <3>4 DEF DbInv, FileOK
    <3> QED BY <1>2, <3>3, <3>4, <3>5 DEF DbInv, OldLeft
  <2>4. CASE todo = "rebuild policies" /\ "denylist" \in dbFile.tables
    <3>1. dbFile' = [dbFile EXCEPT !.pkgCol = FALSE] /\ todo' = "user_version"
      BY <2>4 DEF Effect, Following
    <3> QED BY <1>2, <2>4, <3>1 DEF DbInv, FileOK, OldLeft
  <2>5. CASE todo = "user_version" /\ "denylist" \in dbFile.tables /\ ~dbFile.pkgCol
    <3>1. dbFile' = [dbFile EXCEPT !.ver = 12] /\ todo' = "none"
      BY <2>5 DEF Effect, Following, DB_VERSION
    <3> QED BY <1>2, <2>5, <3>1 DEF DbInv, FileOK, Needed
  <2> QED BY <1>2, <2>1, <2>2, <2>3, <2>4, <2>5 DEF OldLeft
<1> QED
  BY <1>1, <1>2 DEF DbInv

\* DbInv is inductive.
LEMMA DbStep == DbInv /\ [DatabaseNext]_dbVars => DbInv'
<1> SUFFICES ASSUME DbInv, [DatabaseNext]_dbVars PROVE DbInv'
  OBVIOUS
<1>1. CASE load_sqlite
  BY <1>1 DEF load_sqlite, DbInv, FileOK, OldLeft, NewLeft
<1>2. CASE open_and_init_db
  BY <1>2, OpenStep
<1>3. CASE sql_exec_impl
  <2>1. CASE Possible(todo) /\ dbFile' = Effect(todo) /\ todo' = Following(todo) /\ UNCHANGED conn
    BY <1>3, <2>1, EffectStep DEF sql_exec_impl
  <2>2. CASE ~Possible(todo) /\ conn' = "failed" /\ UNCHANGED <<dbFile, todo>>
    <3>1. dbFile.ver \in {7, 8} /\ "hidelist" \notin dbFile.tables
      BY <1>3, <2>2 DEF sql_exec_impl, DbInv, FileOK, OldLeft, NewLeft, Possible
    <3> QED BY <2>2, <3>1 DEF DbInv, FileOK
  <2>3. CASE conn' = "closed" /\ todo' = "none" /\ UNCHANGED dbFile
    BY <2>3 DEF DbInv, FileOK
  <2> QED BY <1>3, <2>1, <2>2, <2>3 DEF sql_exec_impl
<1>4. CASE Opened
  <2>1. dbFile.ver = 12
    BY <1>4 DEF Opened, DbInv, OldLeft, NewLeft
  <2> QED BY <1>4, <2>1 DEF Opened, DbInv, FileOK
<1>5. CASE db_exec
  BY <1>5 DEF db_exec, DbInv, FileOK, Needed
<1>6. CASE Crash
  BY <1>6 DEF Crash, DbInv, FileOK
<1>7. CASE UNCHANGED dbVars
  BY <1>7 DEF dbVars, DbInv, FileOK, OldLeft, NewLeft
<1> QED
  BY <1>1, <1>2, <1>3, <1>4, <1>5, <1>6, <1>7 DEF DatabaseNext

\* open_and_init_db: for any apps, versions and crashes, what is open has the
\* latest version and all its tables, and only a file of version 7 or 8 that
\* lost its hidelist cannot be opened.
THEOREM OpenDatabaseIsCurrent == DatabaseSpec => []OpenIsCurrent
<1>1. DbInv => OpenIsCurrent
  BY DEF DbInv, FileOK, Needed, OpenIsCurrent, DB_VERSION
<1> QED
  BY DbInitInv, DbStep, <1>1, PTL DEF DatabaseSpec

\* open_and_init_db: for any apps, versions and crashes no upgrade loses a
\* policy, unless the file is of a version to come.
THEOREM DecisionsKept == DatabaseSpec => PoliciesKept
<1>1. ASSUME DbInv, [DatabaseNext]_dbVars
      PROVE  [dbFile.ver <= DB_VERSION => dbFile.rows \subseteq dbFile'.rows]_dbVars
  <2> SUFFICES ASSUME dbFile.ver <= DB_VERSION PROVE dbFile.rows \subseteq dbFile'.rows
    BY <1>1
  <2>1. CASE dbFile' = dbFile
    BY <2>1
  <2>2. CASE open_and_init_db
    BY <1>1, <2>2 DEF open_and_init_db, DbInv, FileOK, DB_VERSION
  <2>3. CASE sql_exec_impl
    <3>1. Effect(todo).rows = dbFile.rows
      BY <1>1, <2>3 DEF DbInv, FileOK, Effect
    <3> QED BY <2>3, <3>1 DEF sql_exec_impl
  <2>4. CASE db_exec
    BY <1>1, <2>4 DEF db_exec, DbInv, FileOK
  <2> QED
    BY <1>1, <2>1, <2>2, <2>3, <2>4 DEF DatabaseNext, load_sqlite, Opened, Crash, dbVars
<1> QED
  BY DbInitInv, DbStep, <1>1, PTL DEF DatabaseSpec, PoliciesKept
-----------------------------------------------------------------------------
(* The report *)

\* The app id of a uid, and that no app has that of "no manager".
LEMMA AppIdOfUid ==
  \A u \in Nat : to_app_id(u) # to_app_id(-1)
<1> SUFFICES ASSUME NEW u \in Nat PROVE to_app_id(u) # to_app_id(-1)
  OBVIOUS
<1>1. u % 100000 >= 0
  OBVIOUS
<1>2. 1 % 100000 = 1
  OBVIOUS
<1> QED BY <1>1, <1>2 DEF to_app_id, AID_USER_OFFSET

\* uid_granted_root and build_su_info, on any database: what is reported is allowed.
LEMMA GrantedIsAllowed ==
  ASSUME NEW c, NEW rows, NEW mgrs, NEW u, u # AID_ROOT, uid_granted_root(c, rows, u)
  PROVE  build_su_info(c, rows, mgrs, u).policy = "Allow"
<1> DEFINE access == get_root_settings(rows, EvalUid(c, u))
<1>1. /\ ~AccessForbids(c, u) /\ access.policy = "Allow"
      /\ ~(c.multiuser_mode = "OwnerOnly" /\ to_user_id(u) # 0)
  BY DEF uid_granted_root
<1>2. ~NobodyToAsk(access, ManagerUid(c, mgrs, access, u))
  BY <1>1 DEF NobodyToAsk
<1> HIDE DEF access
<1> QED BY <1>1, <1>2 DEF build_su_info, Verdict, access

\* What is allowed is reported, or the caller is the manager it would be put to.
LEMMA AllowedIsGranted ==
  ASSUME NEW c, NEW rows, NEW mgrs, NEW u \in Nat,
         build_su_info(c, rows, mgrs, u).policy = "Allow", ~uid_granted_root(c, rows, u)
  PROVE  to_app_id(u) = to_app_id(get_manager(mgrs, to_user_id(EvalUid(c, u))))
<1> DEFINE access == get_root_settings(rows, EvalUid(c, u))
           mgr == ManagerUid(c, mgrs, access, u)
<1>1. to_app_id(u) = to_app_id(mgr)
  <2> SUFFICES ASSUME to_app_id(u) # to_app_id(mgr) PROVE FALSE
    OBVIOUS
  <2>1. /\ ~(c.multiuser_mode = "OwnerOnly" /\ to_user_id(u) # 0)
        /\ ~AccessForbids(c, u) /\ access.policy = "Allow"
    <3> HIDE DEF access, mgr
    <3> QED BY DEF build_su_info, Verdict, access, mgr
  <2> QED BY <2>1 DEF uid_granted_root
<1>2. CASE mgr = -1
  BY <1>1, <1>2, AppIdOfUid
<1>3. CASE mgr # -1
  BY <1>1, <1>3 DEF ManagerUid
<1> QED BY <1>2, <1>3

\* Before the evaluation nothing is granted.
ReportInv ==
  /\ uid \in Nat
  /\ evaluated \in BOOLEAN /\ granted \in BOOLEAN
  /\ ~evaluated => info.policy = "Query" /\ ~granted
  /\ ReportedIsReal

\* What uid_granted_root reports to zygisk modules is what su grants without a question,
\* and what it does not report is the manager's: for every setting, every stored policy,
\* every choice of managers and every uid of every user.
THEOREM ReportAgrees == PolicySpec => []ReportedIsReal
<1>1. PolicyInit => ReportInv
  <2> SUFFICES ASSUME PolicyInit PROVE ReportInv
    OBVIOUS
  <2>1. uid \in Nat
    <3>1. AID_ROOT \in Nat /\ AID_SHELL \in Nat /\ AID_USER_OFFSET \in Nat
      BY DEF AID_ROOT, AID_SHELL, AID_USER_OFFSET
    <3>2. AppIds \cup {AID_SHELL, ManagerAppId} \subseteq Nat
      BY <3>1, UidsAssumption
    <3>3. SecondUser * AID_USER_OFFSET \in Nat
      BY <3>1, UidsAssumption
    <3>4. \A a \in Nat : {a, a + SecondUser * AID_USER_OFFSET} \subseteq Nat
      BY <3>3
    <3>5. AskingUids \subseteq Nat
      BY <3>2, <3>4 DEF AskingUids
    <3>6. uid \in AskingUids \cup {AID_ROOT}
      BY DEF PolicyInit
    <3> QED BY <3>1, <3>5, <3>6
  <2> QED BY <2>1 DEF PolicyInit, ReportInv, ReportedIsReal, Verdict
<1>2. ReportInv /\ [PolicyNext]_policyVars => ReportInv'
  <2> SUFFICES ASSUME ReportInv, [PolicyNext]_policyVars PROVE ReportInv'
    OBVIOUS
  <2>1. CASE Evaluate /\ uid = AID_ROOT
    <3>1. info'.policy = "Allow" /\ granted' = TRUE
      BY <2>1 DEF Evaluate, Verdict, uid_granted_root
    <3> QED BY <2>1, <3>1 DEF Evaluate, ReportInv, ReportedIsReal
  <2>2. CASE Evaluate /\ uid # AID_ROOT
    <3>1. /\ info' = build_su_info(dbSettings, dbPolicies, managers, uid)
          /\ granted' = uid_granted_root(dbSettings, dbPolicies, uid)
          /\ evaluated' = TRUE /\ uid' = uid /\ managers' = managers
          /\ dbSettings' = dbSettings
      BY <2>2 DEF Evaluate
    <3>2. granted' \in BOOLEAN
      BY <3>1 DEF uid_granted_root
    <3>3. granted' => info'.policy = "Allow"
      BY <2>2, <3>1, GrantedIsAllowed
    <3>4. info'.policy = "Allow" /\ ~granted' =>
            to_app_id(uid) = to_app_id(get_manager(managers, to_user_id(EvalUid(dbSettings, uid))))
      BY <3>1, AllowedIsGranted DEF ReportInv
    <3>5. ReportedIsReal'
      BY <3>1, <3>3, <3>4 DEF ReportedIsReal
    <3> QED BY <3>1, <3>2, <3>5 DEF ReportInv
  <2>3. CASE UNCHANGED policyVars
    BY <2>3 DEF policyVars, ReportInv, ReportedIsReal
  <2> QED BY <2>1, <2>2, <2>3 DEF PolicyNext
<1>3. ReportInv => ReportedIsReal
  BY DEF ReportInv
<1> QED BY <1>1, <1>2, <1>3, PTL DEF PolicySpec
===============================================================================
