------------------------------ MODULE DenyList ------------------------------
(***************************************************************************)
(* The deny list of core/deny/utils.cpp: two maps in memory behind         *)
(* data_lock, the table in the database, the switch denylist_enforced and  *)
(* the logcat thread, under concurrent requests.                           *)
(*                                                                         *)
(* What happens under data_lock is one step.  scan_deny_apps is also       *)
(* called without it, when zygote restarts: a step on the maps meanwhile   *)
(* is a data race, after which anything may happen, and torn says so.      *)
(***************************************************************************)
EXTENDS Naturals

CONSTANTS
  Pkgs, Isolated,  \* package names, and the one that stands for isolated services
  Procs, AllProcs, \* process names, and the empty name that means all of them
  AppIds,          \* app ids
  Threads,         \* threads of the pool that serve requests
  MaxRequests,     \* bound: requests
  MaxMoves         \* bound: apps that are uninstalled or installed again

ASSUME DenyAssumption ==
  /\ Isolated \notin Pkgs /\ AllProcs \notin Procs
  /\ AppIds \subseteq Nat \ {0} /\ MaxRequests \in Nat /\ MaxMoves \in Nat

VARIABLES
  app_id,          \* the app id of an installed package, else 0
  loaded,          \* pkg_to_procs_ and app_id_to_pkgs_ are there
  pkg_to_procs,    \* {} is a package that is not in the map
  app_id_to_pkgs,
  db,              \* the table denylist
  enforced,        \* denylist_enforced
  config,          \* the setting DenylistConfig
  monitors,        \* logcat threads
  pc, item,        \* what each thread is about to do, and with which entry
  requests, moves,
  (* History *)
  torn,            \* the maps were used while scan_deny_apps changed them
  moved,           \* packages whose app id has changed since the maps were filled
  unsure           \* packages with two requests at a time, or a failed query

maps == <<loaded, pkg_to_procs, app_id_to_pkgs>>
switch == <<enforced, config, monitors>>
bounds == <<requests, moves>>
vars == <<app_id, maps, db, switch, pc, item, bounds, torn, moved, unsure>>

Names == Pkgs \cup {Isolated}
Entries == Names \X Procs
Listed == {p \in Names : pkg_to_procs[p] # {}}
Rows(p) == {q \in Procs : <<p, q>> \in db}

\* Requests that have changed the maps and not yet the database.
Writing(p) == {t \in Threads : pc[t] \in {"insert", "delete"} /\ item[t][1] = p}
Scanning == {t \in Threads : pc[t] = "scan"}

Init ==
  /\ app_id \in [Pkgs -> AppIds]
  /\ loaded = FALSE
  /\ pkg_to_procs = [p \in Names |-> {}]
  /\ app_id_to_pkgs = [a \in AppIds |-> {}]
  /\ db = {} /\ enforced = FALSE /\ config = FALSE /\ monitors = 0
  /\ pc = [t \in Threads |-> "idle"]
  /\ item = [t \in Threads |-> <<Isolated, AllProcs>>]
  /\ requests = 0 /\ moves = 0
  /\ torn = FALSE /\ moved = {} /\ unsure = {}
-----------------------------------------------------------------------------
(* scan_deny_apps and ensure_data *)

Gone(p) == p # Isolated /\ app_id[p] = 0
Kept(procs) == [p \in Names |-> IF Gone(p) THEN {} ELSE procs[p]]
ByAppId(procs) == [a \in AppIds |-> {p \in Pkgs : procs[p] # {} /\ app_id[p] = a}]

\* app_id_to_pkgs is built anew; packages that are gone leave map and table,
\* but a DELETE may fail, and a request about one of them may have a query to come.
scan_deny_apps(procs) ==
  LET dead == {p \in Pkgs : procs[p] # {} /\ Gone(p)} IN
  /\ pkg_to_procs' = Kept(procs)
  /\ app_id_to_pkgs' = ByAppId(Kept(procs))
  /\ moved' = {}
  /\ \E failed \in SUBSET dead :
       /\ db' = {e \in db : e[1] \notin dead \ failed}
       /\ unsure' = unsure \cup failed \cup {p \in dead : Writing(p) # {}}

\* A step that uses the maps, under data_lock or not.
UseMaps == torn' = (torn \/ Scanning # {})

\* The first part of every request but disable_deny, when there are no maps; on
\* an error there are none afterwards and the request ends.
ensure_data ==
  /\ ~loaded /\ loaded' = TRUE
  /\ scan_deny_apps([p \in Names |-> Rows(p)])
  /\ UseMaps
  /\ UNCHANGED <<app_id, switch, pc, item, bounds>>

Goto(t, step) == pc' = [pc EXCEPT ![t] = step]
Asks(t) == pc[t] = "idle" /\ requests < MaxRequests /\ requests' = requests + 1
-----------------------------------------------------------------------------
(* add_list, rm_list, ls_list, after ensure_data.  A request that adds what is
   there or removes what is not changes nothing, and neither does is_deny_target. *)

\* update_app_id(id, p, remove): isolated services and unknown apps have no id.
update_app_id(pkgs, p, remove) ==
  [a \in AppIds |->
     IF p \in Pkgs /\ app_id[p] = a
       THEN IF remove THEN pkgs[a] \ {p} ELSE pkgs[a] \cup {p}
       ELSE pkgs[a]]

ClashWith(p) == IF Writing(p) # {} THEN {p} ELSE {}

\* Fault: app_id_to_pkgs is left alone.
add_list_NoId(t, p, q) ==
  /\ loaded /\ Asks(t) /\ ~Gone(p) /\ q \notin pkg_to_procs[p]
  /\ pkg_to_procs' = [pkg_to_procs EXCEPT ![p] = @ \cup {q}]
  /\ UNCHANGED app_id_to_pkgs
  /\ unsure' = unsure \cup ClashWith(p)
  /\ UseMaps /\ Goto(t, "insert") /\ item' = [item EXCEPT ![t] = <<p, q>>]
  /\ UNCHANGED <<app_id, loaded, db, switch, moves, moved>>

\* A new entry of an installed package; the row is inserted after unlocking.
add_list(t, p, q) ==
  /\ loaded /\ Asks(t) /\ ~Gone(p) /\ q \notin pkg_to_procs[p]
  /\ pkg_to_procs' = [pkg_to_procs EXCEPT ![p] = @ \cup {q}]
  /\ app_id_to_pkgs' = update_app_id(app_id_to_pkgs, p, FALSE)
  /\ unsure' = unsure \cup ClashWith(p)
  /\ UseMaps /\ Goto(t, "insert") /\ item' = [item EXCEPT ![t] = <<p, q>>]
  /\ UNCHANGED <<app_id, loaded, db, switch, moves, moved>>

\* An entry, or all of a package; its app id is looked up again.
rm_list(t, p, q) ==
  LET left == IF q = AllProcs THEN {} ELSE pkg_to_procs[p] \ {q} IN
  /\ loaded /\ Asks(t) /\ pkg_to_procs[p] # {} /\ (q = AllProcs \/ q \in pkg_to_procs[p])
  /\ pkg_to_procs' = [pkg_to_procs EXCEPT ![p] = left]
  /\ app_id_to_pkgs' = IF left = {} THEN update_app_id(app_id_to_pkgs, p, TRUE) ELSE app_id_to_pkgs
  /\ unsure' = unsure \cup ClashWith(p)
  /\ UseMaps /\ Goto(t, "delete") /\ item' = [item EXCEPT ![t] = <<p, q>>]
  /\ UNCHANGED <<app_id, loaded, db, switch, moves, moved>>

ls_list(t) ==
  /\ loaded /\ Asks(t)
  /\ scan_deny_apps(pkg_to_procs)
  /\ UseMaps
  /\ UNCHANGED <<app_id, loaded, switch, pc, item, moves>>

\* Fault: only the row of one process is deleted.
Delete_One(t) ==
  /\ pc[t] = "delete" /\ Goto(t, "idle")
  /\ db' = db \ {item[t]}
  /\ UNCHANGED <<app_id, maps, switch, item, bounds, torn, moved, unsure>>

\* The query after unlocking; when it fails the maps stay as they are.
Fails(t) == UNCHANGED db /\ unsure' = unsure \cup {item[t][1]}

Insert(t) ==
  /\ pc[t] = "insert" /\ Goto(t, "idle")
  /\ \/ item[t] \notin db /\ db' = db \cup {item[t]} /\ UNCHANGED unsure
     \/ Fails(t)
  /\ UNCHANGED <<app_id, maps, switch, item, bounds, torn, moved>>

Delete(t) ==
  /\ pc[t] = "delete" /\ Goto(t, "idle")
  /\ \/ /\ db' = {e \in db : ~(e[1] = item[t][1] /\ item[t][2] \in {e[2], AllProcs})}
        /\ UNCHANGED unsure
     \/ Fails(t)
  /\ UNCHANGED <<app_id, maps, switch, item, bounds, torn, moved>>
-----------------------------------------------------------------------------
(* ZYGOTE_RESTART calls scan_deny_apps without data_lock *)

ScanBegins(t) ==
  /\ Asks(t) /\ loaded
  /\ torn' = (torn \/ Scanning # {})
  /\ Goto(t, "scan")
  /\ app_id_to_pkgs' = [a \in AppIds |-> {}]
  /\ UNCHANGED <<app_id, loaded, pkg_to_procs, db, switch, item, moves, moved, unsure>>

ScanEnds(t) ==
  /\ pc[t] = "scan" /\ Goto(t, "idle")
  /\ scan_deny_apps(pkg_to_procs)
  /\ UNCHANGED <<app_id, loaded, switch, item, bounds, torn>>
-----------------------------------------------------------------------------
(* enable_deny, disable_deny, initialize_denylist and the logcat thread *)

\* The switch is looked at before the lock is taken.
EnableBegins(t) ==
  /\ Asks(t) /\ ~enforced
  /\ Goto(t, "enable")
  /\ UNCHANGED <<app_id, maps, db, switch, item, moves, torn, moved, unsure>>

\* Without zygisk a logcat thread is started; when it cannot be, the switch is
\* off again.
Enable(t) ==
  /\ loaded /\ pc[t] = "enable"
  /\ UseMaps
  /\ \/ enforced' = TRUE /\ monitors' = monitors + 1 /\ Goto(t, "set")
     \/ enforced' = FALSE /\ UNCHANGED monitors /\ Goto(t, "idle")
  /\ UNCHANGED <<app_id, maps, db, config, item, bounds, moved, unsure>>

Disable(t) ==
  /\ Asks(t)
  /\ enforced' = FALSE /\ Goto(t, "unset")
  /\ UNCHANGED <<app_id, maps, db, config, monitors, item, moves, torn, moved, unsure>>

SetConfig(t) ==
  /\ pc[t] \in {"set", "unset"} /\ Goto(t, "idle")
  /\ config' = (pc[t] = "set")
  /\ UNCHANGED <<app_id, maps, db, enforced, monitors, item, bounds, torn, moved, unsure>>

MonitorStops ==
  /\ ~enforced /\ monitors > 0
  /\ monitors' = monitors - 1
  /\ UNCHANGED <<app_id, maps, db, enforced, config, pc, item, bounds, torn, moved, unsure>>
-----------------------------------------------------------------------------
\* An app is uninstalled, or installed again with some app id.
Moves(p) ==
  /\ moves < MaxMoves /\ moves' = moves + 1
  /\ \E a \in AppIds \cup {0} : a # app_id[p] /\ app_id' = [app_id EXCEPT ![p] = a]
  /\ moved' = moved \cup {p}
  /\ UNCHANGED <<maps, db, switch, pc, item, requests, torn, unsure>>

\* The daemon dies; the next one enables the list when the setting says so.
DaemonRestarts ==
  /\ moves < MaxMoves /\ moves' = moves + 1
  /\ loaded' = FALSE
  /\ pkg_to_procs' = [p \in Names |-> {}] /\ app_id_to_pkgs' = [a \in AppIds |-> {}]
  /\ enforced' = FALSE /\ monitors' = 0
  /\ \E t \in Threads :
       pc' = [u \in Threads |-> IF u = t /\ config THEN "enable" ELSE "idle"]
  /\ torn' = FALSE /\ moved' = {} /\ unsure' = {}
  /\ UNCHANGED <<app_id, db, config, item, requests>>

Next ==
  \/ \E t \in Threads :
       \/ \E p \in Names, q \in Procs : add_list(t, p, q)
       \/ \E p \in Names, q \in Procs \cup {AllProcs} : rm_list(t, p, q)
       \/ ls_list(t) \/ Insert(t) \/ Delete(t)
       \/ ScanBegins(t) \/ ScanEnds(t)
       \/ EnableBegins(t) \/ Enable(t) \/ Disable(t) \/ SetConfig(t)
  \/ ensure_data \/ MonitorStops \/ DaemonRestarts
  \/ \E p \in Pkgs : Moves(p)

Spec == Init /\ [][Next]_vars
-----------------------------------------------------------------------------
TypeOK ==
  /\ app_id \in [Pkgs -> AppIds \cup {0}]
  /\ pkg_to_procs \in [Names -> SUBSET Procs] /\ app_id_to_pkgs \in [AppIds -> SUBSET Pkgs]
  /\ db \subseteq Entries
  /\ {loaded, enforced, config, torn} \subseteq BOOLEAN /\ monitors \in Nat
  /\ pc \in [Threads -> {"idle", "insert", "delete", "scan", "enable", "set", "unset"}]
  /\ item \in [Threads -> Names \X (Procs \cup {AllProcs})]
  /\ requests \in 0 .. MaxRequests /\ moves \in 0 .. MaxMoves
  /\ moved \subseteq Pkgs /\ unsure \subseteq Names

\* The two maps agree about every package whose app id is still the one they
\* were filled with: is_deny_target finds all entries of an app, and only them.
Steady == loaded /\ ~torn /\ Scanning = {}
MapsAgree ==
  Steady => \A p \in Pkgs \ moved, a \in AppIds :
              p \in app_id_to_pkgs[a] <=> p \in Listed /\ app_id[p] = a

\* The table holds what the map holds, so that nothing is lost or comes back
\* when the daemon starts again, for every package that is not being written.
TableFollows ==
  Steady => \A p \in Names \ unsure : Writing(p) = {} => Rows(p) = pkg_to_procs[p]

\* "app ID -> list of pkg names (string_view points to a pkg_to_procs key)"
ViewsPointToKeys == Steady => \A a \in AppIds : app_id_to_pkgs[a] \subseteq Listed
=============================================================================
