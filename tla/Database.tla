------------------------------ MODULE Database ------------------------------
(***************************************************************************)
(* Opening magisk.db (core/sqlite.cpp): the library is loaded once, the    *)
(* version of the file decides which statements upgrade it, and only the   *)
(* last of them writes the new version.  Any may fail, or be the last      *)
(* before the device crashes.                                              *)
(***************************************************************************)
EXTENDS Naturals

CONSTANTS
  PolicyUids, \* the apps with a policy
  Versions,   \* the versions of the file there may be at first
  MaxCrashes  \* bound

\* "0 - 6: DB stored in app private data" (the changelog): there are no files
\* of versions 1 to 6.
ASSUME VersionsAssumption == Versions \subseteq {0} \cup {v \in Nat : v >= 7}

VARIABLES dbFile, conn, todo, dlInit, crashes

dbVars == <<dbFile, conn, todo, dlInit, crashes>>

DB_VERSION == 12
Tables == {"policies", "settings", "strings", "denylist", "hidelist", "logs"}

\* A file is its version, its tables, the rows of policies, and whether
\* policies has the column package_name.
EmptyFile == [ver |-> 0, tables |-> {}, rows |-> {}, pkgCol |-> FALSE]
OldTables(v) ==
  CASE v = 0 -> {}
    [] v \in 7..9 -> Tables \ {"denylist"}
    [] v = 10 -> Tables \ {"denylist", "logs"}
    [] v > 10 -> Tables \ {"hidelist", "logs"}

DatabaseInit ==
  /\ \E v \in Versions, rows \in SUBSET PolicyUids :
       dbFile = [ver |-> v, tables |-> OldTables(v), rows |-> IF v = 0 THEN {} ELSE rows,
                 pkgCol |-> v \in 7..11]
  /\ conn = "closed" /\ todo = "none" /\ dlInit = 0 /\ crashes = 0

---------------------------------------------------------------------------
\* open_and_init_db goes from version to version, each with its statements; a
\* transaction counts as one.  First is where a file of version v enters.
First(v) ==
  CASE v <= 6 -> "create policies"
    [] v \in {7, 8} -> "rebuild hidelist"
    [] v = 9 -> "drop logs"
    [] v = 10 -> "drop hidelist"
    [] v = 11 -> "rebuild policies"
    [] v = DB_VERSION -> "none"

\* Fault: a new file gets its version before its tables.
Following_VersionFirst(st) == IF st = "create policies" THEN "user_version" ELSE "none"

\* The statement after st; dbFile has its old version until the last.
Following(st) ==
  CASE st = "create policies" -> "create settings"
    [] st = "create settings" -> "create strings"
    [] st = "create strings" -> "create denylist"
    [] st = "rebuild hidelist" -> "drop logs"
    [] st = "drop logs" -> "drop hidelist"
    [] st = "drop hidelist" -> "delete magiskhide"
    [] st = "delete magiskhide" -> "create denylist"
    [] st = "create denylist" -> IF dbFile.ver <= 6 THEN "user_version" ELSE "rebuild policies"
    [] st = "rebuild policies" -> "user_version"
    [] st = "user_version" -> "none"

\* What a statement needs, and what it does.
Possible(st) ==
  CASE st = "rebuild hidelist" -> "hidelist" \in dbFile.tables
    [] st = "rebuild policies" -> "policies" \in dbFile.tables
    [] st = "delete magiskhide" -> "settings" \in dbFile.tables
    [] OTHER -> TRUE

\* Fault: the rebuilt table stays empty.
Effect_NoCopy(st) ==
  IF st = "rebuild policies" THEN [dbFile EXCEPT !.pkgCol = FALSE, !.rows = {}] ELSE dbFile

Effect(st) ==
  CASE st = "create policies" -> [dbFile EXCEPT !.tables = @ \cup {"policies"}]
    [] st = "create settings" -> [dbFile EXCEPT !.tables = @ \cup {"settings"}]
    [] st = "create strings" -> [dbFile EXCEPT !.tables = @ \cup {"strings"}]
    [] st = "create denylist" -> [dbFile EXCEPT !.tables = @ \cup {"denylist"}]
    [] st = "drop logs" -> [dbFile EXCEPT !.tables = @ \ {"logs"}]
    [] st = "drop hidelist" -> [dbFile EXCEPT !.tables = @ \ {"hidelist"}]
    [] st = "rebuild policies" -> [dbFile EXCEPT !.pkgCol = FALSE]
    [] st = "user_version" -> [dbFile EXCEPT !.ver = DB_VERSION]
    [] OTHER -> dbFile

\* load_sqlite: a failure is remembered.
load_sqlite ==
  /\ conn = "closed" /\ dlInit = 0
  /\ dlInit' \in {1, 2}
  /\ UNCHANGED <<dbFile, conn, todo, crashes>>

\* "Don't support downgrading database, delete and retry".
open_and_init_db ==
  /\ conn \in {"closed", "failed"} /\ dlInit = 1
  /\ dbFile' = IF dbFile.ver > DB_VERSION THEN EmptyFile ELSE dbFile
  /\ conn' = "upgrading" /\ todo' = First(dbFile'.ver)
  /\ UNCHANGED <<dlInit, crashes>>

\* A statement, which may fail for want of what it needs, or of space; an
\* error ends open_and_init_db, and the next use of the database tries again.
sql_exec_impl ==
  /\ conn = "upgrading" /\ todo # "none"
  /\ \/ Possible(todo) /\ dbFile' = Effect(todo) /\ todo' = Following(todo) /\ UNCHANGED conn
     \/ ~Possible(todo) /\ conn' = "failed" /\ UNCHANGED <<dbFile, todo>>
     \/ conn' = "closed" /\ todo' = "none" /\ UNCHANGED dbFile
  /\ UNCHANGED <<dlInit, crashes>>

Opened ==
  /\ conn = "upgrading" /\ todo = "none" /\ conn' = "open"
  /\ UNCHANGED <<dbFile, todo, dlInit, crashes>>

\* db_exec: the daemon keeps a decision.
db_exec ==
  /\ conn = "open"
  /\ \E u \in PolicyUids : dbFile' = [dbFile EXCEPT !.rows = @ \cup {u}]
  /\ UNCHANGED <<conn, todo, dlInit, crashes>>

Crash ==
  /\ crashes < MaxCrashes /\ crashes' = crashes + 1
  /\ conn' = "closed" /\ todo' = "none" /\ dlInit' = 0 /\ UNCHANGED dbFile

DatabaseNext == load_sqlite \/ open_and_init_db \/ sql_exec_impl \/ Opened \/ db_exec \/ Crash
DatabaseSpec == DatabaseInit /\ [][DatabaseNext]_dbVars

---------------------------------------------------------------------------
\* open_and_init_db: wherever a crash hits an upgrade, the database opens
\* again later, and what is open has the latest version and all its tables.
\* Files of versions 7 and 8 are the exception: once hidelist is dropped, the
\* statement that rebuilds it fails for ever.
OpenIsCurrent ==
  /\ conn = "failed" => dbFile.ver \in {7, 8} /\ "hidelist" \notin dbFile.tables
  /\ conn = "open" => /\ dbFile.ver = DB_VERSION /\ ~dbFile.pkgCol
                      /\ {"policies", "settings", "strings", "denylist"} \subseteq dbFile.tables

\* open_and_init_db: no upgrade and no crash loses a decision of the user; only
\* a file of a version to come is deleted.
PoliciesKept == [][dbFile.ver <= DB_VERSION => dbFile.rows \subseteq dbFile'.rows]_dbVars
=============================================================================
