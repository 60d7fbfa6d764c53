------------------------------- MODULE Logcat -------------------------------
(***************************************************************************)
(* The logcat thread of core/deny/logcat.cpp, which hides Magisk from the  *)
(* processes on the deny list when zygisk does not: it reads that a        *)
(* process was started, and forks a worker that waits for the process to   *)
(* leave zygote's mount namespace before it unmounts things in the new     *)
(* one.  Everything it looks at in /proc goes on changing meanwhile.       *)
(***************************************************************************)
EXTENDS Naturals, Sequences, FiniteSets

CONSTANTS
  Apps,         \* processes zygote forks
  Denied,       \* those on the deny list
  MaxReboots    \* bound: soft reboots

ASSUME DeniedAssumption == Denied \subseteq Apps

VARIABLES
  zygote,       \* the zygote that runs, which is also its mount namespace
  app,          \* processes: their state, parent and mount namespace
  log,          \* what the thread has not read yet
  zygote_map,   \* the zygotes it knows
  ready,        \* process_main_buffer's flag
  azygote,      \* the app zygote: "none", "starts", "runs", "stopped"
  worker,       \* the worker for each process
  reverted,     \* namespaces without Magisk's mounts
  pidfd         \* whether the kernel lets setns take a pidfd

lcVars == <<zygote, app, log, zygote_map, ready, azygote, worker, reverted, pidfd>>

Zygotes == 1..(MaxReboots + 1)
NoApp == [at |-> "none", parent |-> 0, ns |-> <<"none">>]
Ns(z) == <<"zygote", z>>
OwnNs(a) == <<"app", a>>
AzygoteNs == <<"app_zygote">>
Alive(a) == app[a].at \notin {"none", "dead"}
NoWorker == [at |-> "none", ns |-> <<"daemon">>, from |-> 0, fd |-> FALSE]

LogcatInit ==
  /\ zygote = 1 /\ app = [a \in Apps |-> NoApp] /\ log = <<>>
  /\ zygote_map = {1}  \* check_zygote at the start of logcat
  /\ ready = FALSE /\ azygote = "none"
  /\ worker = [a \in Apps |-> NoWorker] /\ reverted = {} /\ pidfd \in BOOLEAN

---------------------------------------------------------------------------
(* Android *)

\* A process is forked as root, in zygote's namespace, and then reported.
Fork(a) ==
  /\ app[a].at = "none"
  /\ app' = [app EXCEPT ![a] = [at |-> "root", parent |-> zygote, ns |-> Ns(zygote)]]
  /\ log' = Append(log, <<"am_proc_start", a>>)
  /\ UNCHANGED <<zygote, zygote_map, ready, azygote, worker, reverted, pidfd>>

\* Most get a namespace of their own, then their uid.
Specialize(a) ==
  /\ app[a].at = "root"
  /\ \/ app[a].ns = Ns(app[a].parent) /\ app' = [app EXCEPT ![a].ns = OwnNs(a)]
     \/ app' = [app EXCEPT ![a].at = "app"]
  /\ UNCHANGED <<zygote, log, zygote_map, ready, azygote, worker, reverted, pidfd>>

Dies(a) ==
  /\ Alive(a) /\ app' = [app EXCEPT ![a].at = "dead"]
  /\ UNCHANGED <<zygote, log, zygote_map, ready, azygote, worker, reverted, pidfd>>

SoftReboot ==
  /\ zygote < MaxReboots + 1 /\ zygote' = zygote + 1
  /\ app' = [a \in Apps |-> IF Alive(a) THEN [app[a] EXCEPT !.at = "dead"] ELSE app[a]]
  /\ log' = Append(log, <<"boot_progress_start", 0>>)
  /\ UNCHANGED <<zygote_map, ready, azygote, worker, reverted, pidfd>>

StartAppZygote ==
  /\ azygote = "none" /\ azygote' = "starts"
  /\ log' = log \o << <<"AppZygote", 0>>, <<"AppZygoteInit", 0>> >>
  /\ UNCHANGED <<zygote, app, zygote_map, ready, worker, reverted, pidfd>>

---------------------------------------------------------------------------
(* the thread *)

Reads(tag) == log # <<>> /\ Head(log)[1] = tag /\ log' = Tail(log)

\* process_events_buffer: a worker for a process on the list.
AmProcStart ==
  /\ Reads("am_proc_start")
  /\ LET a == Head(log)[2] IN
       worker' = IF a \in Denied THEN [worker EXCEPT ![a].at = "parent"] ELSE worker
  /\ UNCHANGED <<zygote, app, zygote_map, ready, azygote, reverted, pidfd>>

check_zygote ==
  /\ Reads("boot_progress_start") /\ zygote_map' = {zygote}
  /\ UNCHANGED <<zygote, app, ready, azygote, worker, reverted, pidfd>>

\* process_main_buffer: the app zygote is stopped while its mounts go.
AppZygote ==
  /\ Reads("AppZygote") /\ ready' = TRUE
  /\ UNCHANGED <<zygote, app, zygote_map, azygote, worker, reverted, pidfd>>

AppZygoteInit ==
  /\ Reads("AppZygoteInit") /\ ready' = FALSE
  /\ azygote' = IF ready THEN "stopped" ELSE azygote
  /\ UNCHANGED <<zygote, app, zygote_map, worker, reverted, pidfd>>

AppZygoteReverted ==
  /\ azygote = "stopped" /\ azygote' = "runs"
  /\ reverted' = reverted \cup {AzygoteNs}
  /\ UNCHANGED <<zygote, app, log, zygote_map, ready, worker, pidfd>>

---------------------------------------------------------------------------
(* a worker *)

Goes(a, w) ==
  /\ worker' = [worker EXCEPT ![a] = w]
  /\ UNCHANGED <<zygote, app, log, zygote_map, ready, azygote, reverted, pidfd>>
Done(a) == Goes(a, [worker[a] EXCEPT !.at = "done"])

\* parse_ppid: of a process that is gone, or not zygote's, nothing is done.
parse_ppid(a) ==
  /\ worker[a].at = "parent"
  /\ IF Alive(a) /\ app[a].parent \in zygote_map
     THEN Goes(a, [worker[a] EXCEPT !.at = "attach", !.from = app[a].parent])
     ELSE Done(a)

\* pidfd_open and setns, when the kernel can do that.
Attach(a) ==
  /\ worker[a].at = "attach"
  /\ IF pidfd /\ Alive(a)
     THEN Goes(a, [worker[a] EXCEPT !.at = "look", !.fd = TRUE, !.ns = app[a].ns])
     ELSE Goes(a, [worker[a] EXCEPT !.at = "look"])

\* read_ns: of the worker itself with a pidfd, else of the process.
read_ns(a) == IF worker[a].fd THEN worker[a].ns ELSE IF Alive(a) THEN app[a].ns ELSE <<"error">>

\* Fault: the namespace is taken to be new as soon as the process is no root.
Look_Uid(a) ==
  /\ worker[a].at = "look"
  /\ IF read_ns(a) # Ns(worker[a].from) \/ app[a].at # "root"
     THEN Goes(a, [worker[a] EXCEPT !.at = "revert"])
     ELSE Goes(a, [worker[a] EXCEPT !.at = "sleep"])

\* Fault: the worker looks only once.
Look_Once(a) ==
  /\ worker[a].at = "look"
  /\ IF read_ns(a) # Ns(worker[a].from) THEN Goes(a, [worker[a] EXCEPT !.at = "revert"])
     ELSE Done(a)

\* The condition of the loop, and its body: while the process is still root
\* it may yet leave the namespace.
Look(a) ==
  /\ worker[a].at = "look"
  /\ IF read_ns(a) # Ns(worker[a].from) THEN Goes(a, [worker[a] EXCEPT !.at = "revert"])
     ELSE IF app[a].at = "root" THEN Goes(a, [worker[a] EXCEPT !.at = "sleep"])
     ELSE Done(a)

\* usleep, and setns again.
Again(a) ==
  /\ worker[a].at = "sleep"
  /\ Goes(a, [worker[a] EXCEPT !.at = "look",
                !.ns = IF worker[a].fd /\ Alive(a) THEN app[a].ns ELSE @])

\* revert_unmount, which first switches to the process's namespace.
revert_unmount(a) ==
  /\ worker[a].at = "revert"
  /\ worker' = [worker EXCEPT ![a].at = "done"]
  /\ reverted' = IF worker[a].fd THEN reverted \cup {worker[a].ns}
                 ELSE IF Alive(a) THEN reverted \cup {app[a].ns} ELSE reverted
  /\ UNCHANGED <<zygote, app, log, zygote_map, ready, azygote, pidfd>>

---------------------------------------------------------------------------
Thread == AmProcStart \/ check_zygote \/ AppZygote \/ AppZygoteInit \/ AppZygoteReverted
Work(a) == parse_ppid(a) \/ Attach(a) \/ Look(a) \/ Again(a) \/ revert_unmount(a)

LogcatNext ==
  \/ Thread \/ StartAppZygote \/ SoftReboot
  \/ \E a \in Apps : Fork(a) \/ Specialize(a) \/ Dies(a) \/ Work(a)

\* The thread and its workers run, and a process does not stay half made.
LogcatFair ==
  WF_lcVars(Thread) /\ \A a \in Apps : WF_lcVars(Work(a)) /\ WF_lcVars(Specialize(a))
LogcatSpec == LogcatInit /\ [][LogcatNext]_lcVars /\ LogcatFair

---------------------------------------------------------------------------
\* process_events_buffer: however the worker's looks at /proc interleave with
\* the process leaving zygote's namespace, dying, or zygote restarting, nothing
\* is ever unmounted in a namespace of zygote, which all other apps inherit.
ZygoteNsKept == \A z \in Zygotes : Ns(z) \notin reverted

\* logcat: a process on the list that got a namespace of its own loses Magisk's
\* mounts there unless it dies first, and the app zygote is continued.  With a
\* pidfd the worker may have joined the old namespace, find the process no root
\* any more, and leave it alone.
DeniedReverted ==
  /\ \A a \in Denied : ~pidfd /\ app[a].ns = OwnNs(a) ~> OwnNs(a) \in reverted \/ ~Alive(a)
  /\ azygote = "starts" ~> azygote = "runs"
=============================================================================
