------------------------------ MODULE DenyProofs ------------------------------
(***************************************************************************)
(* Proofs about the deny list, for any packages, processes and threads and *)
(* any number of requests and of apps that come and go; and about the      *)
(* workers of deny/logcat.cpp, which never unmount in a namespace of       *)
(* zygote, for any number of processes and soft reboots. What a worker saw *)
(* may be old when it acts; the invariant says what can have changed       *)
(* since.                                                                  *)
(***************************************************************************)
EXTENDS DenyList, Logcat, TLAPS

(* The list *)

\* A request that has its query to come works on maps that are there.
Where ==
  \A t \in Threads :
    /\ pc[t] \in {"insert", "delete", "scan"} => loaded
    /\ pc[t] = "insert" => item[t] \in Entries

\* What the table will hold of p once the query of thread t has run.
After(t, p) ==
  IF pc[t] = "insert" THEN Rows(p) \cup {item[t][2]}
  ELSE {q \in Rows(p) : item[t][2] \notin {q, AllProcs}}

\* The map is ahead of the table by the one query that is still to come.
Synced(p) ==
  /\ Writing(p) = {} => Rows(p) = pkg_to_procs[p]
  /\ \A t \in Writing(p) : Writing(p) = {t} /\ pkg_to_procs[p] = After(t, p)
Ahead == loaded /\ ~torn => \A p \in Names \ unsure : Synced(p)

\* Every step keeps the types.
LEMMA TypeStep ==
  ASSUME TypeOK, Where, [Next]_vars
  PROVE  TypeOK'
<1> USE DenyAssumption DEF TypeOK, Where, Names, Entries, vars, maps, switch,
    bounds
<1>1. CASE ensure_data
  BY <1>1 DEF ensure_data, scan_deny_apps, Kept, ByAppId, Gone, Rows, UseMaps, Writing
<1>2. ASSUME NEW t \in Threads, NEW p \in Names, NEW q \in Procs, add_list(t, p, q)
      PROVE  TypeOK'
  BY <1>2 DEF add_list, update_app_id, Asks, UseMaps, Gone, ClashWith, Goto, Writing
<1>3. ASSUME NEW t \in Threads, NEW p \in Names, NEW q \in Procs \cup {AllProcs},
             rm_list(t, p, q)
      PROVE  TypeOK'
  BY <1>3 DEF rm_list, update_app_id, Asks, UseMaps, ClashWith, Goto, Writing
<1>4. ASSUME NEW t \in Threads, ls_list(t) PROVE TypeOK'
  BY <1>4 DEF ls_list, scan_deny_apps, Kept, ByAppId, Gone, UseMaps, Asks, Writing
<1>5. ASSUME NEW t \in Threads, Insert(t) PROVE TypeOK'
  BY <1>5 DEF Insert, Goto, Fails
<1>6. ASSUME NEW t \in Threads, Delete(t) PROVE TypeOK'
  BY <1>6 DEF Delete, Goto, Fails
<1>7. ASSUME NEW t \in Threads, ScanBegins(t) PROVE TypeOK'
  BY <1>7 DEF ScanBegins, Asks, Goto
<1>8. ASSUME NEW t \in Threads, ScanEnds(t) PROVE TypeOK'
  BY <1>8 DEF ScanEnds, scan_deny_apps, Kept, ByAppId, Gone, Goto, Writing
<1>9. ASSUME NEW t \in Threads, EnableBegins(t) PROVE TypeOK'
  BY <1>9 DEF EnableBegins, Asks, Goto
<1>10. ASSUME NEW t \in Threads, Enable(t) PROVE TypeOK'
  <2>1. enforced' \in BOOLEAN
    BY <1>10, Zenon DEF Enable
  <2> QED
    BY <1>10, <2>1 DEF Enable, UseMaps, Goto
<1>11. ASSUME NEW t \in Threads, Disable(t) PROVE TypeOK'
  <2>1. enforced' \in BOOLEAN
    BY <1>11, Zenon DEF Disable
  <2> QED
    BY <1>11, <2>1 DEF Disable, Asks, Goto
<1>12. ASSUME NEW t \in Threads, SetConfig(t) PROVE TypeOK'
  BY <1>12 DEF SetConfig, Goto
<1>13. CASE MonitorStops
  BY <1>13 DEF MonitorStops
<1>14. CASE DaemonRestarts
  <2>1. {loaded, enforced, torn}' \subseteq BOOLEAN
    BY <1>14, Zenon DEF DaemonRestarts
  <2>2. PICK t \in Threads :
          pc' = [u \in Threads |-> IF u = t /\ config THEN "enable" ELSE "idle"]
    BY <1>14 DEF DaemonRestarts
  <2> QED
    BY <1>14, <2>1, <2>2 DEF DaemonRestarts
<1>15. ASSUME NEW p \in Pkgs, Moves(p) PROVE TypeOK'
  BY <1>15 DEF Moves
<1>16. CASE UNCHANGED vars
  BY <1>16
<1> QED
  BY <1>1, <1>2, <1>3, <1>4, <1>5, <1>6, <1>7, <1>8, <1>9, <1>10, <1>11,
    <1>12, <1>13, <1>14, <1>15, <1>16 DEF Next

\* Every step keeps what is known of requests under way.
LEMMA WhereStep ==
  ASSUME TypeOK, Where, TypeOK', [Next]_vars
  PROVE  Where'
<1> USE DenyAssumption DEF TypeOK, Where, Names, Entries, vars, maps, switch,
    bounds
<1>1. CASE ensure_data
  BY <1>1 DEF ensure_data, scan_deny_apps, Kept, ByAppId, Gone, Rows, UseMaps, Writing
<1>2. ASSUME NEW t \in Threads, NEW p \in Names, NEW q \in Procs, add_list(t, p, q)
      PROVE  Where'
  BY <1>2 DEF add_list, update_app_id, Asks, UseMaps, Gone, ClashWith, Goto, Writing
<1>3. ASSUME NEW t \in Threads, NEW p \in Names, NEW q \in Procs \cup {AllProcs},
             rm_list(t, p, q)
      PROVE  Where'
  BY <1>3 DEF rm_list, update_app_id, Asks, UseMaps, ClashWith, Goto, Writing
<1>4. ASSUME NEW t \in Threads, ls_list(t) PROVE Where'
  BY <1>4 DEF ls_list, scan_deny_apps, Kept, ByAppId, Gone, UseMaps, Asks, Writing
<1>5. ASSUME NEW t \in Threads, Insert(t) PROVE Where'
  BY <1>5 DEF Insert, Goto, Fails
<1>6. ASSUME NEW t \in Threads, Delete(t) PROVE Where'
  BY <1>6 DEF Delete, Goto, Fails
<1>7. ASSUME NEW t \in Threads, ScanBegins(t) PROVE Where'
  BY <1>7 DEF ScanBegins, Asks, Goto
<1>8. ASSUME NEW t \in Threads, ScanEnds(t) PROVE Where'
  BY <1>8 DEF ScanEnds, scan_deny_apps, Kept, ByAppId, Gone, Goto, Writing
<1>9. ASSUME NEW t \in Threads, EnableBegins(t) PROVE Where'
  BY <1>9 DEF EnableBegins, Asks, Goto
<1>10. ASSUME NEW t \in Threads, Enable(t) PROVE Where'
  BY <1>10 DEF Enable, UseMaps, Goto
<1>11. ASSUME NEW t \in Threads, Disable(t) PROVE Where'
  BY <1>11 DEF Disable, Asks, Goto
<1>12. ASSUME NEW t \in Threads, SetConfig(t) PROVE Where'
  BY <1>12 DEF SetConfig, Goto
<1>13. CASE MonitorStops
  BY <1>13 DEF MonitorStops
<1>14. CASE DaemonRestarts
  BY <1>14 DEF DaemonRestarts
<1>15. ASSUME NEW p \in Pkgs, Moves(p) PROVE Where'
  BY <1>15 DEF Moves
<1>16. CASE UNCHANGED vars
  BY <1>16
<1> QED
  BY <1>1, <1>2, <1>3, <1>4, <1>5, <1>6, <1>7, <1>8, <1>9, <1>10, <1>11,
    <1>12, <1>13, <1>14, <1>15, <1>16 DEF Next

\* Every step that is no data race keeps the maps in agreement.
LEMMA MapsStep ==
  ASSUME TypeOK, MapsAgree, TypeOK', [Next]_vars
  PROVE  MapsAgree'
<1> USE DenyAssumption DEF TypeOK, MapsAgree, Steady, Scanning, Listed, Names,
    vars, maps, switch, bounds
<1>a. ASSUME UNCHANGED <<app_id, maps, torn, moved>>, Scanning \subseteq Scanning'
      PROVE  MapsAgree'
  <2>1. Steady' => Steady
    BY <1>a
  <2> QED BY <1>a, <2>1
<1>1. CASE ensure_data
  BY <1>1 DEF ensure_data, scan_deny_apps, Kept, ByAppId, Gone, Rows, UseMaps, Writing
<1>2. ASSUME NEW t \in Threads, NEW p \in Names, NEW q \in Procs, add_list(t, p, q)
      PROVE  MapsAgree'
  BY <1>2 DEF add_list, update_app_id, Asks, UseMaps, Gone, ClashWith, Goto, Writing
<1>3. ASSUME NEW t \in Threads, NEW p \in Names, NEW q \in Procs \cup {AllProcs},
             rm_list(t, p, q)
      PROVE  MapsAgree'
  BY <1>3 DEF rm_list, update_app_id, Asks, UseMaps, ClashWith, Goto, Writing
<1>4. ASSUME NEW t \in Threads, ls_list(t) PROVE MapsAgree'
  BY <1>4 DEF ls_list, scan_deny_apps, Kept, ByAppId, Gone, UseMaps, Asks, Writing
<1>5. ASSUME NEW t \in Threads, Insert(t) PROVE MapsAgree'
  <2>1. UNCHANGED <<app_id, maps, torn, moved>>
    BY <1>5 DEF Insert, Fails
  <2>2. Scanning \subseteq Scanning'
    BY <1>5 DEF Insert, Goto, Fails
  <2> QED BY <2>1, <2>2, <1>a
<1>6. ASSUME NEW t \in Threads, Delete(t) PROVE MapsAgree'
  <2>1. UNCHANGED <<app_id, maps, torn, moved>>
    BY <1>6 DEF Delete, Fails
  <2>2. Scanning \subseteq Scanning'
    BY <1>6 DEF Delete, Goto, Fails
  <2> QED BY <2>1, <2>2, <1>a
<1>7. ASSUME NEW t \in Threads, ScanBegins(t) PROVE MapsAgree'
  BY <1>7 DEF ScanBegins, Asks, Goto
<1>8. ASSUME NEW t \in Threads, ScanEnds(t) PROVE MapsAgree'
  BY <1>8 DEF ScanEnds, scan_deny_apps, Kept, ByAppId, Gone, Goto, Writing
<1>9. ASSUME NEW t \in Threads, EnableBegins(t) PROVE MapsAgree'
  <2>1. UNCHANGED <<app_id, maps, torn, moved>>
    BY <1>9 DEF EnableBegins
  <2>2. Scanning \subseteq Scanning'
    BY <1>9 DEF EnableBegins, Asks, Goto
  <2> QED BY <2>1, <2>2, <1>a
<1>10. ASSUME NEW t \in Threads, Enable(t) PROVE MapsAgree'
  BY <1>10 DEF Enable, UseMaps, Goto
<1>11. ASSUME NEW t \in Threads, Disable(t) PROVE MapsAgree'
  <2>1. UNCHANGED <<app_id, maps, torn, moved>>
    BY <1>11 DEF Disable
  <2>2. Scanning \subseteq Scanning'
    BY <1>11 DEF Disable, Asks, Goto
  <2> QED BY <2>1, <2>2, <1>a
<1>12. ASSUME NEW t \in Threads, SetConfig(t) PROVE MapsAgree'
  <2>1. UNCHANGED <<app_id, maps, torn, moved>>
    BY <1>12 DEF SetConfig
  <2>2. Scanning \subseteq Scanning'
    BY <1>12 DEF SetConfig, Goto
  <2> QED BY <2>1, <2>2, <1>a
<1>13. CASE MonitorStops
  BY <1>13 DEF MonitorStops
<1>14. CASE DaemonRestarts
  BY <1>14 DEF DaemonRestarts
<1>15. ASSUME NEW p \in Pkgs, Moves(p) PROVE MapsAgree'
  <2>1. \A o \in Pkgs \ {p} : app_id'[o] = app_id[o]
    BY <1>15 DEF Moves
  <2>2. moved' = moved \cup {p} /\ UNCHANGED <<maps, torn, pc>>
    BY <1>15 DEF Moves
  <2> QED
    BY <2>1, <2>2
<1>16. CASE UNCHANGED vars
  BY <1>16
<1> QED
  BY <1>1, <1>2, <1>3, <1>4, <1>5, <1>6, <1>7, <1>8, <1>9, <1>10, <1>11,
    <1>12, <1>13, <1>14, <1>15, <1>16 DEF Next

\* A step that leaves a package's entries and writers alone.
Untouched(o) ==
  /\ loaded /\ ~torn /\ o \notin unsure
  /\ Rows(o)' = Rows(o) /\ pkg_to_procs'[o] = pkg_to_procs[o]
  /\ Writing(o)' = Writing(o)
  /\ \A t \in Writing(o) : pc'[t] = pc[t] /\ item'[t] = item[t]

\* A package that no request touches stays as far ahead of its rows as it was.
LEMMA Frame ==
  ASSUME Ahead, NEW o \in Names, Untouched(o)
  PROVE  Synced(o)'
<1>1. Synced(o)
  BY DEF Ahead, Untouched
<1>2. \A t \in Writing(o) : After(t, o)' = After(t, o)
  BY DEF Untouched, After
<1> QED
  BY <1>1, <1>2 DEF Untouched, Synced

\* Every step that is no data race keeps the map one query ahead.
LEMMA AheadStep ==
  ASSUME TypeOK, Where, Ahead, TypeOK', [Next]_vars
  PROVE  Ahead'
<1> SUFFICES ASSUME loaded', ~torn', NEW o \in Names, o \notin unsure'
             PROVE  Synced(o)'
  BY DEF Ahead
<1> USE DenyAssumption DEF vars, maps, switch, bounds
<1>1. CASE ensure_data
  <2>1. Writing(o) = {} /\ Writing(o)' = {}
    BY <1>1 DEF ensure_data, Where, Writing
  <2>2. pkg_to_procs'[o] = IF Gone(o) THEN {} ELSE Rows(o)
    BY <1>1 DEF ensure_data, scan_deny_apps, Kept
  <2>3. Rows(o)' = IF Gone(o) THEN {} ELSE Rows(o)
    BY <1>1 DEF ensure_data, scan_deny_apps, Rows, Gone, Names
  <2> QED
    BY <2>1, <2>2, <2>3 DEF Synced
<1>2. ASSUME NEW t \in Threads, NEW p \in Names, NEW q \in Procs, add_list(t, p, q)
      PROVE  Synced(o)'
  <2> USE <1>2 DEF add_list
  <2>1. ~torn /\ o \notin unsure /\ Rows(o)' = Rows(o) /\ t \notin Writing(o)
    BY DEF UseMaps, Asks, Writing, Rows
  <2>a. pc' = [pc EXCEPT ![t] = "insert"] /\ item' = [item EXCEPT ![t] = <<p, q>>]
    BY DEF Goto
  <2>2. \A u \in Threads \ {t} : pc'[u] = pc[u] /\ item'[u] = item[u]
    BY <2>a DEF TypeOK
  <2>3. pc'[t] = "insert" /\ item'[t] = <<p, q>>
    BY <2>a DEF TypeOK
  <2>4. CASE o # p
    <3>1. Writing(o)' = Writing(o)
      BY <2>1, <2>2, <2>3, <2>4 DEF Writing
    <3>2. pkg_to_procs'[o] = pkg_to_procs[o]
      BY <2>4 DEF TypeOK
    <3> QED
      BY <2>1, <2>2, <3>1, <3>2, Frame DEF Untouched, Writing
  <2>5. CASE o = p
    <3>1. Writing(o) = {}
      BY <2>1, <2>5 DEF ClashWith
    <3>2. Writing(o)' = {t}
      BY <2>2, <2>3, <2>5, <3>1 DEF Writing
    <3>3. pkg_to_procs'[o] = Rows(o) \cup {q}
      <4>1. pkg_to_procs[o] = Rows(o)
        BY <2>1, <3>1 DEF Ahead, Synced
      <4> QED BY <2>5, <4>1 DEF TypeOK
    <3>4. After(t, o)' = Rows(o) \cup {q}
      BY <2>1, <2>3 DEF After
    <3> QED
      BY <3>2, <3>3, <3>4 DEF Synced
  <2> QED
    BY <2>4, <2>5
<1>3. ASSUME NEW t \in Threads, NEW p \in Names, NEW q \in Procs \cup {AllProcs},
             rm_list(t, p, q)
      PROVE  Synced(o)'
  <2> USE <1>3 DEF rm_list
  <2>1. ~torn /\ o \notin unsure /\ Rows(o)' = Rows(o) /\ t \notin Writing(o)
    BY DEF UseMaps, Asks, Writing, Rows
  <2>a. pc' = [pc EXCEPT ![t] = "delete"] /\ item' = [item EXCEPT ![t] = <<p, q>>]
    BY DEF Goto
  <2>2. \A u \in Threads \ {t} : pc'[u] = pc[u] /\ item'[u] = item[u]
    BY <2>a DEF TypeOK
  <2>3. pc'[t] = "delete" /\ item'[t] = <<p, q>>
    BY <2>a DEF TypeOK
  <2>4. CASE o # p
    <3>1. Writing(o)' = Writing(o)
      BY <2>1, <2>2, <2>3, <2>4 DEF Writing
    <3>2. pkg_to_procs'[o] = pkg_to_procs[o]
      BY <2>4 DEF TypeOK
    <3> QED
      BY <2>1, <2>2, <3>1, <3>2, Frame DEF Untouched, Writing
  <2>5. CASE o = p
    <3>1. Writing(o) = {}
      BY <2>1, <2>5 DEF ClashWith
    <3>2. Writing(o)' = {t}
      BY <2>2, <2>3, <2>5, <3>1 DEF Writing
    <3>3. pkg_to_procs[o] = Rows(o)
      BY <2>1, <3>1 DEF Ahead, Synced
    <3>4. pkg_to_procs'[o] = IF q = AllProcs THEN {} ELSE Rows(o) \ {q}
      BY <2>5, <3>3 DEF TypeOK
    <3>5. After(t, o)' = {r \in Rows(o) : q \notin {r, AllProcs}}
      BY <2>1, <2>3 DEF After
    <3> QED
      BY <3>2, <3>4, <3>5 DEF Synced
  <2> QED
    BY <2>4, <2>5
<1>4. ASSUME NEW t \in Threads, ls_list(t) PROVE Synced(o)'
  <2>1. ~torn /\ loaded /\ o \notin unsure
    BY <1>4 DEF ls_list, scan_deny_apps, UseMaps
  <2>2. Writing(o)' = Writing(o)
    BY <1>4 DEF ls_list, Writing, TypeOK
  <2>3. CASE o \in Pkgs /\ pkg_to_procs[o] # {} /\ Gone(o)
    <3>1. Writing(o) = {}
      BY <1>4, <2>3 DEF ls_list, scan_deny_apps
    <3>2. Rows(o)' = {} /\ pkg_to_procs'[o] = {}
      BY <1>4, <2>3 DEF ls_list, scan_deny_apps, Kept, Rows
    <3> QED
      BY <2>2, <3>1, <3>2 DEF Synced
  <2>4. CASE ~(o \in Pkgs /\ pkg_to_procs[o] # {} /\ Gone(o))
    <3>1. Rows(o)' = Rows(o)
      BY <1>4, <2>4 DEF ls_list, scan_deny_apps, Rows
    <3>2. pkg_to_procs'[o] = pkg_to_procs[o]
      BY <1>4, <2>4 DEF ls_list, scan_deny_apps, Kept, Gone, Names
    <3>3. \A u \in Writing(o) : pc'[u] = pc[u] /\ item'[u] = item[u]
      BY <1>4 DEF ls_list, Writing, TypeOK
    <3> QED
      BY <2>1, <2>2, <3>1, <3>2, <3>3, Frame DEF Untouched
  <2> QED
    BY <2>3, <2>4
<1>5. ASSUME NEW t \in Threads, Insert(t) PROVE Synced(o)'
  <2> USE <1>5 DEF Insert
  <2>1. loaded /\ ~torn /\ o \notin unsure /\ pkg_to_procs' = pkg_to_procs
    BY DEF Where, Fails
  <2>2. \A u \in Threads \ {t} : pc'[u] = pc[u] /\ item'[u] = item[u]
    BY DEF TypeOK, Goto
  <2>3. pc'[t] = "idle" /\ item[t] \in Names \X (Procs \cup {AllProcs})
    BY DEF TypeOK, Goto
  <2>4. CASE item[t][1] # o
    <3>1. Rows(o)' = Rows(o)
      BY <2>3, <2>4 DEF Rows, Fails, TypeOK, Entries
    <3>2. Writing(o)' = Writing(o)
      BY <2>2, <2>3, <2>4 DEF Writing
    <3> QED
      BY <2>1, <2>2, <2>4, <3>1, <3>2, Frame DEF Untouched, Writing
  <2>5. CASE item[t][1] = o
    <3>1. t \in Writing(o)
      BY <2>5 DEF Writing
    <3>2. Writing(o) = {t} /\ pkg_to_procs[o] = After(t, o)
      BY <2>1, <3>1 DEF Ahead, Synced
    <3>3. Writing(o)' = {}
      BY <2>2, <2>3, <3>2 DEF Writing
    <3>4. Rows(o)' = After(t, o)
      <4>1. item[t] = <<o, item[t][2]>> /\ item[t][2] \in Procs
        BY <2>5 DEF Where, Entries
      <4>2. db' = db \cup {item[t]}
        BY <2>5 DEF Fails
      <4> QED
        BY <4>1, <4>2 DEF After, Rows
    <3> QED
      BY <2>1, <3>2, <3>3, <3>4 DEF Synced
  <2> QED
    BY <2>4, <2>5
<1>6. ASSUME NEW t \in Threads, Delete(t) PROVE Synced(o)'
  <2> USE <1>6 DEF Delete
  <2>1. loaded /\ ~torn /\ o \notin unsure /\ pkg_to_procs' = pkg_to_procs
    BY DEF Where, Fails
  <2>2. \A u \in Threads \ {t} : pc'[u] = pc[u] /\ item'[u] = item[u]
    BY DEF TypeOK, Goto
  <2>3. pc'[t] = "idle" /\ item[t] \in Names \X (Procs \cup {AllProcs})
    BY DEF TypeOK, Goto
  <2>4. CASE item[t][1] # o
    <3>1. Rows(o)' = Rows(o)
      BY <2>3, <2>4 DEF Rows, Fails, TypeOK, Entries
    <3>2. Writing(o)' = Writing(o)
      BY <2>2, <2>3, <2>4 DEF Writing
    <3> QED
      BY <2>1, <2>2, <2>4, <3>1, <3>2, Frame DEF Untouched, Writing
  <2>5. CASE item[t][1] = o
    <3>1. t \in Writing(o)
      BY <2>5 DEF Writing
    <3>2. Writing(o) = {t} /\ pkg_to_procs[o] = After(t, o)
      BY <2>1, <3>1 DEF Ahead, Synced
    <3>3. Writing(o)' = {}
      BY <2>2, <2>3, <3>2 DEF Writing
    <3>4. Rows(o)' = After(t, o)
      <4>1. db' = {e \in db : ~(e[1] = o /\ item[t][2] \in {e[2], AllProcs})}
        BY <2>5 DEF Fails
      <4> QED
        BY <4>1 DEF After, Rows
    <3> QED
      BY <2>1, <3>2, <3>3, <3>4 DEF Synced
  <2> QED
    BY <2>4, <2>5
<1>7. ASSUME NEW t \in Threads, ScanBegins(t) PROVE Synced(o)'
  <2>1. Rows(o)' = Rows(o) /\ pkg_to_procs' = pkg_to_procs /\ loaded /\ ~torn
    BY <1>7 DEF ScanBegins, Rows, Asks, Goto
  <2>2. Writing(o)' = Writing(o) /\ o \notin unsure
    BY <1>7 DEF ScanBegins, Writing, TypeOK, Asks, Goto
  <2>3. \A u \in Writing(o) : pc'[u] = pc[u] /\ item'[u] = item[u]
    BY <1>7 DEF ScanBegins, Writing, TypeOK, Asks, Goto
  <2> QED
    BY <2>1, <2>2, <2>3, Frame DEF Untouched
<1>8. ASSUME NEW t \in Threads, ScanEnds(t) PROVE Synced(o)'
  <2>1. ~torn /\ loaded /\ o \notin unsure
    BY <1>8 DEF ScanEnds, scan_deny_apps
  <2>2. Writing(o)' = Writing(o)
    BY <1>8 DEF ScanEnds, Writing, TypeOK, Goto
  <2>3. CASE o \in Pkgs /\ pkg_to_procs[o] # {} /\ Gone(o)
    <3>1. Writing(o) = {}
      BY <1>8, <2>3 DEF ScanEnds, scan_deny_apps
    <3>2. Rows(o)' = {} /\ pkg_to_procs'[o] = {}
      BY <1>8, <2>3 DEF ScanEnds, scan_deny_apps, Kept, Rows
    <3> QED
      BY <2>2, <3>1, <3>2 DEF Synced
  <2>4. CASE ~(o \in Pkgs /\ pkg_to_procs[o] # {} /\ Gone(o))
    <3>1. Rows(o)' = Rows(o)
      BY <1>8, <2>4 DEF ScanEnds, scan_deny_apps, Rows
    <3>2. pkg_to_procs'[o] = pkg_to_procs[o]
      BY <1>8, <2>4 DEF ScanEnds, scan_deny_apps, Kept, Gone, Names
    <3>3. \A u \in Writing(o) : pc'[u] = pc[u] /\ item'[u] = item[u]
      BY <1>8 DEF ScanEnds, Writing, TypeOK, Goto
    <3> QED
      BY <2>1, <2>2, <3>1, <3>2, <3>3, Frame DEF Untouched
  <2> QED
    BY <2>3, <2>4
<1>9. ASSUME NEW t \in Threads, EnableBegins(t) PROVE Synced(o)'
  <2>1. Rows(o)' = Rows(o) /\ pkg_to_procs' = pkg_to_procs /\ loaded /\ ~torn
    BY <1>9 DEF EnableBegins, Rows, Asks, Goto
  <2>2. Writing(o)' = Writing(o) /\ o \notin unsure
    BY <1>9 DEF EnableBegins, Writing, TypeOK, Asks, Goto
  <2>3. \A u \in Writing(o) : pc'[u] = pc[u] /\ item'[u] = item[u]
    BY <1>9 DEF EnableBegins, Writing, TypeOK, Asks, Goto
  <2> QED
    BY <2>1, <2>2, <2>3, Frame DEF Untouched
<1>10. ASSUME NEW t \in Threads, Enable(t) PROVE Synced(o)'
  <2>1. Rows(o)' = Rows(o) /\ pkg_to_procs' = pkg_to_procs /\ loaded /\ ~torn
    BY <1>10 DEF Enable, Rows, UseMaps, Goto
  <2>2. Writing(o)' = Writing(o) /\ o \notin unsure
    BY <1>10 DEF Enable, Writing, TypeOK, UseMaps, Goto
  <2>3. \A u \in Writing(o) : pc'[u] = pc[u] /\ item'[u] = item[u]
    BY <1>10 DEF Enable, Writing, TypeOK, UseMaps, Goto
  <2> QED
    BY <2>1, <2>2, <2>3, Frame DEF Untouched
<1>11. ASSUME NEW t \in Threads, Disable(t) PROVE Synced(o)'
  <2>1. Rows(o)' = Rows(o) /\ pkg_to_procs' = pkg_to_procs /\ loaded /\ ~torn
    BY <1>11 DEF Disable, Rows, Asks, Goto
  <2>2. Writing(o)' = Writing(o) /\ o \notin unsure
    BY <1>11 DEF Disable, Writing, TypeOK, Asks, Goto
  <2>3. \A u \in Writing(o) : pc'[u] = pc[u] /\ item'[u] = item[u]
    BY <1>11 DEF Disable, Writing, TypeOK, Asks, Goto
  <2> QED
    BY <2>1, <2>2, <2>3, Frame DEF Untouched
<1>12. ASSUME NEW t \in Threads, SetConfig(t) PROVE Synced(o)'
  <2>1. Rows(o)' = Rows(o) /\ pkg_to_procs' = pkg_to_procs /\ loaded /\ ~torn
    BY <1>12 DEF SetConfig, Rows, Goto
  <2>2. Writing(o)' = Writing(o) /\ o \notin unsure
    BY <1>12 DEF SetConfig, Writing, TypeOK, Goto
  <2>3. \A u \in Writing(o) : pc'[u] = pc[u] /\ item'[u] = item[u]
    BY <1>12 DEF SetConfig, Writing, TypeOK, Goto
  <2> QED
    BY <2>1, <2>2, <2>3, Frame DEF Untouched
<1>13. CASE MonitorStops
  <2>1. Rows(o)' = Rows(o) /\ pkg_to_procs' = pkg_to_procs /\ loaded /\ ~torn
    BY <1>13 DEF MonitorStops, Rows
  <2>2. Writing(o)' = Writing(o) /\ o \notin unsure
    BY <1>13 DEF MonitorStops, Writing, TypeOK
  <2>3. \A u \in Writing(o) : pc'[u] = pc[u] /\ item'[u] = item[u]
    BY <1>13 DEF MonitorStops, Writing, TypeOK
  <2> QED
    BY <2>1, <2>2, <2>3, Frame DEF Untouched
<1>14. CASE DaemonRestarts
  BY <1>14 DEF DaemonRestarts
<1>15. ASSUME NEW p \in Pkgs, Moves(p) PROVE Synced(o)'
  <2>1. Rows(o)' = Rows(o) /\ pkg_to_procs' = pkg_to_procs /\ loaded /\ ~torn
    BY <1>15 DEF Moves, Rows
  <2>2. Writing(o)' = Writing(o) /\ o \notin unsure
    BY <1>15 DEF Moves, Writing, TypeOK
  <2>3. \A u \in Writing(o) : pc'[u] = pc[u] /\ item'[u] = item[u]
    BY <1>15 DEF Moves, Writing, TypeOK
  <2> QED
    BY <2>1, <2>2, <2>3, Frame DEF Untouched
<1>16. CASE UNCHANGED vars
  <2>1. Rows(o)' = Rows(o) /\ pkg_to_procs' = pkg_to_procs /\ loaded /\ ~torn
    BY <1>16 DEF Rows
  <2>2. Writing(o)' = Writing(o) /\ o \notin unsure
    BY <1>16 DEF Writing, TypeOK
  <2>3. \A u \in Writing(o) : pc'[u] = pc[u] /\ item'[u] = item[u]
    BY <1>16 DEF Writing, TypeOK
  <2> QED
    BY <2>1, <2>2, <2>3, Frame DEF Untouched
<1> QED
  BY <1>1, <1>2, <1>3, <1>4, <1>5, <1>6, <1>7, <1>8, <1>9, <1>10, <1>11,
    <1>12, <1>13, <1>14, <1>15, <1>16 DEF Next

-----------------------------------------------------------------------------
IInv == TypeOK /\ Where /\ MapsAgree /\ Ahead

\* When no scan and no query is under way the table holds what the map holds.
LEMMA AheadIsEnough ==
  ASSUME IInv PROVE TableFollows
BY DEF IInv, Ahead, Synced, TableFollows, Steady

\* A daemon that has just started has no maps, and so nothing to keep in step.
LEMMA InitIInv ==
  ASSUME Init PROVE IInv
<1> USE DenyAssumption DEF Init
<1>1. TypeOK
  <2>1. {loaded, enforced, config, torn} \subseteq BOOLEAN
    BY Zenon
  <2> QED
    BY <2>1 DEF TypeOK, Names, Entries
<1>2. Where /\ MapsAgree /\ Ahead
  BY DEF Where, MapsAgree, Ahead, Steady
<1> QED
  BY <1>1, <1>2 DEF IInv

\* Whatever requests, restarts of zygote and of the daemon, failed queries and
\* changes of the installed apps come together, the two maps agree and the
\* table follows them, unless scan_deny_apps without data_lock met another use.
THEOREM DenySafe == Spec => [](MapsAgree /\ TableFollows)
<1>1. Init => IInv
  BY InitIInv
<1>2. IInv /\ [Next]_vars => IInv'
  BY TypeStep, WhereStep, MapsStep, AheadStep DEF IInv
<1>3. IInv => MapsAgree /\ TableFollows
  BY AheadIsEnough DEF IInv
<1> QED
  BY <1>1, <1>2, <1>3, PTL DEF Spec

\* is_deny_target: while no scan runs, the map from app ids has all packages of an
\* app whose id is still the one it was filled with, and only them.
THEOREM DenyMapsAgree == Spec => []MapsAgree
BY DenySafe, PTL
-----------------------------------------------------------------------------
(* The workers *)

AnyNs ==
  {Ns(z) : z \in Nat} \cup {OwnNs(a) : a \in Apps} \cup {AzygoteNs, <<"none">>, <<"daemon">>}

WorkerType ==
  [at : {"none", "parent", "attach", "look", "sleep", "revert", "done"},
   ns : AnyNs, from : Nat, fd : BOOLEAN]

LcTypeOK ==
  /\ zygote \in Nat
  /\ app \in [Apps -> [at : {"none", "root", "app", "dead"}, parent : Nat, ns : AnyNs]]
  /\ worker \in [Apps -> WorkerType]

\* A process is in the namespace of the zygote that forked it, or its own.
AppNs(a) == app[a].at # "none" => app[a].ns \in {Ns(app[a].parent), OwnNs(a)}

\* A worker past parse_ppid knows the parent, and with a pidfd it is in one of
\* the namespaces the process has been in.
WorkerNs(a) ==
  /\ worker[a].at \in {"attach", "look", "sleep", "revert"} =>
       app[a].at # "none" /\ worker[a].from = app[a].parent
  /\ worker[a].fd => app[a].at # "none" /\ worker[a].ns \in {Ns(app[a].parent), OwnNs(a)}

\* A worker that is about to unmount does so in the process's own namespace:
\* a process does not go back.
RevertNs(a) ==
  worker[a].at = "revert" =>
    IF worker[a].fd THEN worker[a].ns = OwnNs(a) ELSE Alive(a) => app[a].ns = OwnNs(a)

LcInv ==
  /\ LcTypeOK
  /\ \A a \in Apps : AppNs(a) /\ WorkerNs(a) /\ RevertNs(a)
  /\ reverted \subseteq {OwnNs(a) : a \in Apps} \cup {AzygoteNs}

\* At the start of logcat no process runs, and nothing is unmounted.
LEMMA LcInitInv == LogcatInit => LcInv
<1> SUFFICES ASSUME LogcatInit PROVE LcInv
  OBVIOUS
<1>1. \A a \in Apps : app[a] = NoApp /\ worker[a] = NoWorker
  BY DEF LogcatInit
<1>2. LcTypeOK
  BY DEF LogcatInit, LcTypeOK, WorkerType, AnyNs, NoApp, NoWorker
<1>3. \A a \in Apps : AppNs(a) /\ WorkerNs(a) /\ RevertNs(a)
  <2> SUFFICES ASSUME NEW a \in Apps PROVE AppNs(a) /\ WorkerNs(a) /\ RevertNs(a)
    OBVIOUS
  <2>1. app[a].at = "none" /\ worker[a].at = "none" /\ ~worker[a].fd
    BY <1>1 DEF NoApp, NoWorker
  <2> QED BY <2>1 DEF AppNs, WorkerNs, RevertNs
<1>4. reverted = {}
  BY DEF LogcatInit
<1> QED BY <1>2, <1>3, <1>4 DEF LcInv

\* Steps of Android on one process.
LEMMA AndroidStep ==
  ASSUME LcInv, NEW b \in Apps, Fork(b) \/ Specialize(b) \/ Dies(b)
  PROVE  LcInv'
<1> USE DEF LcInv
<1>1. CASE Fork(b)
  <2>1. LcTypeOK'
    BY <1>1 DEF Fork, LcTypeOK, AnyNs
  <2>2. ASSUME NEW a \in Apps PROVE (AppNs(a) /\ WorkerNs(a) /\ RevertNs(a))'
    BY <1>1, <2>2 DEF Fork, LcTypeOK, AppNs, WorkerNs, RevertNs, Alive
  <2> QED BY <1>1, <2>1, <2>2 DEF Fork
<1>2. CASE Specialize(b)
  <2>1. LcTypeOK'
    BY <1>2 DEF Specialize, LcTypeOK, AnyNs
  <2>2. ASSUME NEW a \in Apps PROVE (AppNs(a) /\ WorkerNs(a) /\ RevertNs(a))'
    BY <1>2, <2>2 DEF Specialize, LcTypeOK, AppNs, WorkerNs, RevertNs, Alive
  <2> QED BY <1>2, <2>1, <2>2 DEF Specialize
<1>3. CASE Dies(b)
  <2>1. LcTypeOK'
    BY <1>3 DEF Dies, LcTypeOK
  <2>2. ASSUME NEW a \in Apps PROVE (AppNs(a) /\ WorkerNs(a) /\ RevertNs(a))'
    BY <1>3, <2>2 DEF Dies, LcTypeOK, AppNs, WorkerNs, RevertNs, Alive
  <2> QED BY <1>3, <2>1, <2>2 DEF Dies
<1> QED BY <1>1, <1>2, <1>3

\* A step that changes one worker and unmounts at most in the namespace of its
\* process.
LEMMA OneWorker ==
  ASSUME LcInv, NEW b \in Apps, NEW w \in WorkerType,
         worker' = [worker EXCEPT ![b] = w], UNCHANGED <<zygote, app>>,
         reverted' \subseteq reverted \cup {OwnNs(b)},
         w.at \in {"attach", "look", "sleep", "revert"} =>
           app[b].at # "none" /\ w.from = app[b].parent,
         w.fd => app[b].at # "none" /\ w.ns \in {Ns(app[b].parent), OwnNs(b)},
         w.at = "revert" =>
           IF w.fd THEN w.ns = OwnNs(b) ELSE Alive(b) => app[b].ns = OwnNs(b)
  PROVE  LcInv'
<1> USE DEF LcInv
<1>1. LcTypeOK'
  BY DEF LcTypeOK
<1>2. ASSUME NEW a \in Apps PROVE (AppNs(a) /\ WorkerNs(a) /\ RevertNs(a))'
  <2>1. CASE a = b
    <3>1. worker'[a] = w
      BY <2>1 DEF LcTypeOK
    <3> QED BY <2>1, <3>1 DEF AppNs, WorkerNs, RevertNs, Alive
  <2>2. CASE a # b
    <3>1. worker'[a] = worker[a]
      BY <2>2 DEF LcTypeOK
    <3> QED BY <3>1 DEF AppNs, WorkerNs, RevertNs, Alive
  <2> QED BY <2>1, <2>2
<1> QED BY <1>1, <1>2

\* Steps of a worker: what it becomes.
LEMMA WorkerStep ==
  ASSUME LcInv, NEW b \in Apps, Work(b)
  PROVE  LcInv'
<1>1. /\ worker[b] \in WorkerType /\ app[b].parent \in Nat /\ app[b].ns \in AnyNs
      /\ AppNs(b) /\ WorkerNs(b) /\ RevertNs(b)
  BY DEF LcInv, LcTypeOK
<1> DEFINE to(at) == [worker[b] EXCEPT !.at = at]
<1>2. ASSUME NEW at \in {"look", "sleep", "revert", "done"}
      PROVE  /\ to(at) \in WorkerType /\ to(at).at = at /\ to(at).ns = worker[b].ns
             /\ to(at).from = worker[b].from /\ to(at).fd = worker[b].fd
  BY <1>1 DEF WorkerType
<1> HIDE DEF to
<1>3. CASE parse_ppid(b)
  <2> DEFINE w == [worker[b] EXCEPT !.at = "attach", !.from = app[b].parent]
  <2>1. CASE Alive(b) /\ Goes(b, w)
    <3>1. /\ w \in WorkerType /\ w.at = "attach" /\ w.from = app[b].parent
          /\ w.ns = worker[b].ns /\ w.fd = worker[b].fd
      BY <1>1 DEF WorkerType
    <3> HIDE DEF w
    <3> QED BY <1>1, <2>1, <3>1, OneWorker DEF Goes, Alive, WorkerNs
  <2>2. CASE Done(b)
    BY <1>1, <1>2, <2>2, OneWorker DEF Done, Goes, WorkerNs, to
  <2> QED BY <1>3, <2>1, <2>2 DEF parse_ppid
<1>4. CASE Attach(b)
  <2> DEFINE w == [worker[b] EXCEPT !.at = "look", !.fd = TRUE, !.ns = app[b].ns]
  <2>1. CASE Alive(b) /\ Goes(b, w)
    <3>1. /\ w \in WorkerType /\ w.at = "look" /\ w.from = worker[b].from
          /\ w.ns = app[b].ns /\ w.fd
      BY <1>1 DEF WorkerType
    <3> HIDE DEF w
    <3> QED BY <1>1, <1>4, <2>1, <3>1, OneWorker DEF Attach, Goes, Alive, WorkerNs, AppNs
  <2>2. CASE Goes(b, to("look"))
    BY <1>1, <1>2, <1>4, <2>2, OneWorker DEF Attach, Goes, WorkerNs
  <2> QED BY <1>4, <2>1, <2>2 DEF Attach, to
<1>5. CASE Look(b)
  <2>1. CASE read_ns(b) # Ns(worker[b].from) /\ Goes(b, to("revert"))
    <3>1. worker[b].at = "look"
      BY <1>5 DEF Look
    <3>2. IF worker[b].fd THEN worker[b].ns = OwnNs(b) ELSE Alive(b) => app[b].ns = OwnNs(b)
      BY <1>1, <2>1, <3>1 DEF WorkerNs, AppNs, read_ns, Alive
    <3> QED BY <1>1, <1>2, <2>1, <3>1, <3>2, OneWorker DEF Goes, WorkerNs
  <2>2. CASE Goes(b, to("sleep"))
    BY <1>1, <1>2, <1>5, <2>2, OneWorker DEF Look, Goes, WorkerNs
  <2>3. CASE Done(b)
    BY <1>1, <1>2, <2>3, OneWorker DEF Done, Goes, WorkerNs, to
  <2> QED BY <1>5, <2>1, <2>2, <2>3 DEF Look, to
<1>6. CASE Again(b)
  <2> DEFINE n == IF worker[b].fd /\ Alive(b) THEN app[b].ns ELSE worker[b].ns
             w == [worker[b] EXCEPT !.at = "look", !.ns = n]
  <2>1. /\ w \in WorkerType /\ w.at = "look" /\ w.from = worker[b].from
        /\ w.ns = n /\ w.fd = worker[b].fd
    BY <1>1 DEF WorkerType
  <2>2. Goes(b, w) /\ worker[b].at = "sleep"
    BY <1>1, <1>6 DEF Again, WorkerType
  <2> HIDE DEF w
  <2> QED BY <1>1, <2>1, <2>2, OneWorker DEF Goes, Alive, WorkerNs, AppNs
<1>7. CASE revert_unmount(b)
  <2>1. worker' = [worker EXCEPT ![b] = to("done")]
    BY <1>1, <1>7 DEF revert_unmount, to
  <2>2. reverted' \subseteq reverted \cup {OwnNs(b)}
    BY <1>1, <1>7 DEF revert_unmount, RevertNs
  <2> QED BY <1>1, <1>2, <1>7, <2>1, <2>2, OneWorker DEF revert_unmount, WorkerNs
<1> QED BY <1>3, <1>4, <1>5, <1>6, <1>7 DEF Work

\* Steps of the thread, and those of Android on all processes.
LEMMA ThreadStep ==
  ASSUME LcInv, Thread \/ StartAppZygote \/ SoftReboot \/ UNCHANGED lcVars
  PROVE  LcInv'
<1> USE DEF LcInv
<1>1. CASE AmProcStart
  <2> DEFINE b == Head(log)[2]
  <2>1. worker' = worker \/ (b \in Apps /\ worker' = [worker EXCEPT ![b].at = "parent"])
    BY <1>1, DeniedAssumption DEF AmProcStart
  <2> HIDE DEF b
  <2>2. UNCHANGED <<zygote, app, reverted>>
    BY <1>1 DEF AmProcStart
  <2>3. CASE worker' = worker
    BY <2>2, <2>3 DEF LcTypeOK, AppNs, WorkerNs, RevertNs, Alive
  <2>4. CASE b \in Apps /\ worker' = [worker EXCEPT ![b].at = "parent"]
    <3> DEFINE w == [worker[b] EXCEPT !.at = "parent"]
    <3>1. /\ w \in WorkerType /\ w.at = "parent" /\ w.ns = worker[b].ns
          /\ w.fd = worker[b].fd
      BY <2>4 DEF LcTypeOK, WorkerType
    <3>2. worker' = [worker EXCEPT ![b] = w]
      BY <2>4
    <3> HIDE DEF w
    <3>3. WorkerNs(b)
      BY <2>4
    <3> QED BY <2>2, <2>4, <3>1, <3>2, <3>3, OneWorker DEF WorkerNs
  <2> QED BY <2>1, <2>3, <2>4
<1>2. CASE SoftReboot
  <2>1. LcTypeOK'
    <3>1. zygote' \in Nat /\ UNCHANGED worker
      BY <1>2 DEF SoftReboot, LcTypeOK
    <3>2. app' \in [Apps -> [at : {"none", "root", "app", "dead"}, parent : Nat, ns : AnyNs]]
      BY <1>2 DEF SoftReboot, LcTypeOK
    <3> QED BY <3>1, <3>2 DEF LcTypeOK
  <2>2. ASSUME NEW a \in Apps PROVE (AppNs(a) /\ WorkerNs(a) /\ RevertNs(a))'
    BY <1>2, <2>2 DEF SoftReboot, LcTypeOK, AppNs, WorkerNs, RevertNs, Alive
  <2> QED BY <1>2, <2>1, <2>2 DEF SoftReboot
<1>3. CASE AppZygoteReverted
  BY <1>3 DEF AppZygoteReverted, LcTypeOK, AppNs, WorkerNs, RevertNs, Alive
<1>4. CASE \/ check_zygote \/ AppZygote \/ AppZygoteInit \/ StartAppZygote
           \/ UNCHANGED lcVars
  BY <1>4 DEF check_zygote, AppZygote, AppZygoteInit, StartAppZygote, lcVars, LcTypeOK, AppNs,
              WorkerNs, RevertNs, Alive
<1> QED BY <1>1, <1>2, <1>3, <1>4 DEF Thread

\* process_events_buffer: for any processes, soft reboots and interleavings,
\* nothing is unmounted in a namespace of zygote.
THEOREM ZygoteNamespacesKept == LogcatSpec => []ZygoteNsKept
<1>1. LcInv /\ [LogcatNext]_lcVars => LcInv'
  BY AndroidStep, WorkerStep, ThreadStep DEF LogcatNext
<1>2. LcInv => ZygoteNsKept
  <2>1. \A z \in Zygotes : Ns(z) # AzygoteNs /\ \A a \in Apps : Ns(z) # OwnNs(a)
    BY DEF Ns, OwnNs, AzygoteNs
  <2>2. ASSUME LcInv, NEW z \in Zygotes, Ns(z) \in reverted PROVE FALSE
    <3>1. Ns(z) = AzygoteNs \/ \E a \in Apps : Ns(z) = OwnNs(a)
      BY <2>2 DEF LcInv
    <3> QED BY <2>1, <2>2, <3>1
  <2> QED BY <2>2 DEF ZygoteNsKept
<1> QED
  BY LcInitInv, <1>1, <1>2, PTL DEF LogcatSpec
===============================================================================
