----------------------------- MODULE MCSuAccess -----------------------------
(* Instances of SuAccess for TLC. *)
EXTENDS SuAccess, TLC

Row(p) == [policy |-> p, log |-> FALSE, notify |-> FALSE]

\* Two apps without a row, so that the user is asked, and root.
AppA == 10001
AppB == 10002
Callers == 1 :> AppA @@ 2 :> AppB @@ 3 :> AppB @@ 4 :> AID_ROOT
NoRows == [uid \in {} |-> Row("Query")]
OwnerManager == 0 :> 10009
JustDeny == {Row("Deny")}

\* A timestamp is looked at only by a request that loads the cache: the expiry
\* of one that none of them will see is left out.
SeenExpiry ==
  \A i \in fresh \ fresh' : \E r \in Reqs :
    \/ pc[r] = "idle" /\ ReqUid[r] = ReqUid[i] /\ cached = i
    \/ pc[r] = "check" /\ uses[r] = i

\* Likewise a change of the database no request will read.
SeenChange ==
  changes' # changes => \E r \in Reqs :
    /\ ReqUid[r] # AID_ROOT /\ pc[r] \in {"idle", "check", "settings", "policy"}
    /\ \/ cfg' # cfg /\ pc[r] # "policy"
       \/ ReqUid[r] \in DOMAIN policies' \ DOMAIN policies

\* A request of root touches nothing of the others': it comes before them, and no row
\* of the table is about it.
RootFirst ==
  \A r, s \in Reqs : ReqUid[r] = AID_ROOT /\ ReqUid[s] # AID_ROOT =>
    /\ pc'[s] # pc[s] => Decided(r)
    /\ changes' # changes => Decided(r) /\ AID_ROOT \notin DOMAIN policies'

\* Before its dialog is up, and once it has its answer, a request looks at and changes
\* only what its mutex guards: those steps commute with the others' and come first.
LocalFirst ==
  LET local == {r \in Reqs : pc[r] \in {"request", "decide"}} IN
  local # {} => \E r \in local : pc'[r] # pc[r]
=============================================================================
