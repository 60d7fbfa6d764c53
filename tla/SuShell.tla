------------------------------ MODULE SuShell ------------------------------
(***************************************************************************)
(* The way from the su command to a root shell (core/su/su.cpp): the       *)
(* client and the daemon's child exchange the request, an acknowledgement, *)
(* the standard streams, a PTY and the exit code over one socket that the  *)
(* daemon's thread holds as well.  A shell may run su again.               *)
(***************************************************************************)
EXTENDS Naturals, Integers, Sequences, FiniteSets

CONSTANTS
  MaxSessions,  \* bound: su commands run in one behaviour
  OptLists,     \* the options they are run with, as <<option, argument>>
  MntNsModes,   \* the mount namespace mode of the settings
  CanFail       \* what may fail: "fork", "pty"

ASSUME SessionsAssumption == MaxSessions \in Nat

VARIABLES proc, sess

suShellVars == <<proc, sess>>

Sessions == 1..MaxSessions
Pids == 1..(MaxSessions + 1)  \* 1 is an app, s + 1 the shell of session s
GlobalNs == 0                 \* namespace 1 is the app's, s + 1 a new one
NoProc == [at |-> "none", restricted |-> FALSE, ns |-> GlobalNs, uid |-> 0, gid |-> 0]
App == [at |-> "alive", restricted |-> FALSE, ns |-> 1, uid |-> 10000, gid |-> 10000]

\* SuRequest::default.
EmptyRequest == [target_pid |-> -1, drop_cap |-> FALSE, gids |-> <<>>, interactive |-> FALSE, cmd |-> FALSE]
NoSess == [client |-> "none", daemon |-> "none", child |-> "none", by |-> 1, req |-> EmptyRequest,
           tty |-> FALSE, toC |-> <<>>, toD |-> <<>>, result |-> "none"]

SuShellInit ==
  /\ proc = [p \in Pids |-> IF p = 1 THEN App ELSE NoProc]
  /\ sess = [s \in Sessions |-> NoSess]

---------------------------------------------------------------------------
(* su_client_main *)

\* One option; "usage" ends the program.
ParseOpt(req, o) ==
  CASE o[1] = "d" -> [req EXCEPT !.drop_cap = TRUE]
    [] o[1] = "i" -> [req EXCEPT !.interactive = TRUE]
    [] o[1] = "c" -> [req EXCEPT !.cmd = TRUE]
    [] o[1] \in {"M", "t"} -> [req EXCEPT !.target_pid = IF o[1] = "M" THEN 0 ELSE o[2]]
    [] o[1] \in {"g", "G"} -> [req EXCEPT !.gids = Append(@, o[2])]

\* "Can't use -M and -t at the same time".
Usage(opts) == Cardinality({n \in DOMAIN opts : opts[n][1] \in {"M", "t"}}) > 1

Parse(opts) ==
  LET upto[n \in 0..Len(opts)] == IF n = 0 THEN EmptyRequest ELSE ParseOpt(upto[n - 1], opts[n]) IN
  upto[Len(opts)]

\* The client is a process of its own, with what it inherits from p.
Request(s, p, opts, isatty) ==
  /\ sess[s].client = "none" /\ proc[p].at = "alive" /\ ~Usage(opts)
  /\ \A r \in Sessions : r < s => sess[r].client # "none"
  /\ sess' = [sess EXCEPT ![s] =
       [NoSess EXCEPT !.client = "ack", !.daemon = "read", !.by = p, !.req = Parse(opts),
          !.toD = <<"request">>,
          !.tty = isatty /\ (Parse(opts).interactive \/ ~Parse(opts).cmd)]]
  /\ UNCHANGED proc

\* Nobody holds the daemon's end any more.
Hungup(s) == sess[s].daemon = "done" /\ sess[s].child \in {"none", "exec", "run", "gone"}

\* read_int, recv_fd: the next message, or -1 at the end.
Reads(s, m) ==
  \/ sess[s].toC # <<>> /\ m = Head(sess[s].toC)
  \/ sess[s].toC = <<>> /\ Hungup(s) /\ m = "eof"
Read(s) == IF sess[s].toC = <<>> THEN <<>> ELSE Tail(sess[s].toC)

ClientAck(s) ==
  /\ sess[s].client = "ack"
  /\ \E m \in {"0", "deny", "eof"} :
       /\ Reads(s, m)
       /\ sess' = [sess EXCEPT ![s].toC = Read(s),
                     ![s].client = IF m = "0" THEN "fds" ELSE "returned",
                     ![s].result = IF m = "0" THEN @ ELSE "EACCES"]
  /\ UNCHANGED proc

ClientSendsFds(s) ==
  /\ sess[s].client = "fds"
  /\ sess' = [sess EXCEPT ![s].toD = Append(@, "fds"),
                          ![s].client = IF sess[s].tty THEN "ptmx" ELSE "code"]
  /\ UNCHANGED proc

ClientRecvPtmx(s) ==
  /\ sess[s].client = "ptmx"
  /\ \E m \in {"ptmx", "code", "eof"} :
       /\ Reads(s, m)
       /\ sess' = [sess EXCEPT ![s].toC = Read(s),
                     ![s].client = IF m = "ptmx" THEN "pump" ELSE "code"]
  /\ UNCHANGED proc

\* pump_tty ends when the shell is gone from the PTY.
ClientPump(s) ==
  /\ sess[s].client = "pump" /\ sess[s].child = "gone"
  /\ sess' = [sess EXCEPT ![s].client = "code"]
  /\ UNCHANGED proc

\* A signal closes the streams, which ends it too.
sighandler(s) ==
  /\ sess[s].client = "pump"
  /\ sess' = [sess EXCEPT ![s].client = "code"]
  /\ UNCHANGED proc

ClientCode(s) ==
  /\ sess[s].client = "code"
  /\ \E m \in {"code", "eof"} :
       /\ Reads(s, m)
       /\ sess' = [sess EXCEPT ![s].toC = Read(s), ![s].client = "returned", ![s].result = m]
  /\ UNCHANGED proc

ClientDies(s) ==
  /\ sess[s].client \in {"ack", "fds", "ptmx", "pump", "code"}
  /\ sess' = [sess EXCEPT ![s].client = "dead"]
  /\ UNCHANGED proc

---------------------------------------------------------------------------
(* su_daemon_handler *)

\* The decision is SuAccess's; root asks nobody.
DaemonDecides(s, policy) ==
  /\ sess[s].daemon = "read" /\ sess[s].toD # <<>>
  /\ proc[sess[s].by].uid = 0 => policy = "Allow"
  /\ sess' = [sess EXCEPT ![s].toD = Tail(@),
                ![s].req.drop_cap = @ \/ policy = "Restrict",
                ![s].toC = IF policy = "Deny" THEN Append(@, "deny") ELSE @,
                ![s].daemon = IF policy = "Deny" THEN "done" ELSE "fork"]
  /\ UNCHANGED proc

\* Fault: when fork fails the socket is not closed.
DaemonForks_KeepSocket(s) ==
  /\ sess[s].daemon = "fork"
  /\ \/ sess' = [sess EXCEPT ![s].daemon = "wait", ![s].child = "ack"]
     \/ "fork" \in CanFail /\ sess' = [sess EXCEPT ![s].daemon = "leak"]
  /\ UNCHANGED proc

DaemonForks(s) ==
  /\ sess[s].daemon = "fork"
  /\ \/ sess' = [sess EXCEPT ![s].daemon = "wait", ![s].child = "ack"]
     \/ "fork" \in CanFail /\ sess' = [sess EXCEPT ![s].daemon = "done"]
  /\ UNCHANGED proc

DaemonWaits(s) ==
  /\ sess[s].daemon = "wait" /\ sess[s].child = "gone"
  /\ sess' = [sess EXCEPT ![s].daemon = "done", ![s].toC = Append(@, "code")]
  /\ UNCHANGED proc

---------------------------------------------------------------------------
(* exec_root_shell: any error exits the child *)

ChildAcks(s) ==
  /\ sess[s].child = "ack"
  /\ sess' = [sess EXCEPT ![s].child = "fds", ![s].toC = Append(@, "0")]
  /\ UNCHANGED proc

\* recv_fd three times, and the PTY if one of them is missing.
ChildStreams(s) ==
  LET c == sess[s].client IN
  /\ sess[s].child = "fds"
  /\ \/ /\ sess[s].toD # <<>>
        /\ sess' = [sess EXCEPT ![s].toD = Tail(@),
                      ![s].child = IF sess[s].tty /\ c = "dead" THEN "gone" ELSE "exec",
                      ![s].toC = IF sess[s].tty THEN Append(@, "ptmx") ELSE @]
     \/ /\ sess[s].toD # <<>> /\ sess[s].tty /\ "pty" \in CanFail
        /\ sess' = [sess EXCEPT ![s].toD = Tail(@), ![s].child = "gone"]
     \/ /\ sess[s].toD = <<>> /\ c = "dead"
        /\ sess' = [sess EXCEPT ![s].child = "gone"]
  /\ UNCHANGED proc

\* The client's capabilities are those of the process that ran it.
proc_is_restricted(s) == proc[sess[s].by].restricted

\* Fault: only the request counts.
drop_caps_Request(s) == sess[s].req.drop_cap

drop_caps(s) == sess[s].req.drop_cap \/ proc_is_restricted(s)

\* switch_mnt_ns to a process that is gone is not an error.
switch_mnt_ns(s, pid) ==
  IF pid = -1 THEN proc[sess[s].by].ns
  ELSE IF proc[pid].at = "alive" THEN proc[pid].ns ELSE GlobalNs

Namespace(s, mode) ==
  LET target == sess[s].req.target_pid
      m == IF target = 0 THEN "Global"
           ELSE IF target > 0 /\ mode = "Global" THEN "Requester" ELSE mode IN
  CASE m = "Global" -> GlobalNs
    [] m = "Requester" -> switch_mnt_ns(s, target)
    [] m = "Isolate" -> s + 1

set_identity(s) ==
  LET gids == sess[s].req.gids IN [uid |-> 0, gid |-> IF gids = <<>> THEN 0 ELSE gids[1]]

\* The environment and the status of the client are read from /proc: they are
\* gone when it is.
exec_root_shell(s, mode) ==
  /\ sess[s].child = "exec"
  /\ IF sess[s].client = "dead"
     THEN sess' = [sess EXCEPT ![s].child = "gone"] /\ UNCHANGED proc
     ELSE /\ sess' = [sess EXCEPT ![s].child = "run"]
          /\ proc' = [proc EXCEPT ![s + 1] =
                        [at |-> "alive", restricted |-> drop_caps(s), ns |-> Namespace(s, mode),
                         uid |-> set_identity(s).uid, gid |-> set_identity(s).gid]]

ShellExits(s) ==
  /\ sess[s].child = "run"
  /\ proc' = [proc EXCEPT ![s + 1].at = "dead"]
  /\ sess' = [sess EXCEPT ![s].child = "gone"]

---------------------------------------------------------------------------
Step(s) ==
  \/ ClientAck(s) \/ ClientSendsFds(s) \/ ClientRecvPtmx(s) \/ ClientPump(s) \/ ClientCode(s)
  \/ \E policy \in {"Allow", "Restrict", "Deny"} : DaemonDecides(s, policy)
  \/ DaemonForks(s) \/ DaemonWaits(s)
  \/ ChildAcks(s) \/ ChildStreams(s)
  \/ \E mode \in MntNsModes : exec_root_shell(s, mode)
  \/ ShellExits(s)

SuShellNext ==
  \E s \in Sessions :
    \/ Step(s) \/ sighandler(s) \/ ClientDies(s)
    \/ \E p \in Pids, opts \in OptLists, isatty \in BOOLEAN : Request(s, p, opts, isatty)

\* Threads and processes run, and shells end.
SuShellFair == \A s \in Sessions : WF_suShellVars(Step(s))
SuShellSpec == SuShellInit /\ [][SuShellNext]_suShellVars /\ SuShellFair

---------------------------------------------------------------------------
(* Properties *)

\* "it is a marker for restricted process": whatever su is run with, and
\* whenever its client dies, no shell that came out of a restricted one, or of
\* a request whose policy is Restrict or that asked for it, has its
\* capabilities back; and a client that was told EACCES has no shell.
RestrictedStays ==
  \A s \in Sessions : proc[s + 1].at # "none" =>
    /\ proc[sess[s].by].restricted \/ sess[s].req.drop_cap => proc[s + 1].restricted
    /\ sess[s].result # "EACCES"

\* su returns to its caller in every case: refused, no process or PTY to be
\* had, the child aborted half way, or the shell over.
ClientReturns ==
  \A s \in Sessions : sess[s].client = "ack" ~> sess[s].client \in {"returned", "dead"}
=============================================================================
