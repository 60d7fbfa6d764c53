------------------------------ MODULE SePatch ------------------------------
(***************************************************************************)
(* How magiskinit gets its own rules into the policy that init loads       *)
(* (init/selinux.rs, init/preload.c).  magiskinit hijacks the nodes init   *)
(* uses, forks a helper and executes the original init; from then on the   *)
(* two run concurrently and meet in FIFOs: opening one end blocks until    *)
(* the other end is opened.  Init itself is the platform's: its steps are  *)
(* the ones the comments of selinux.rs rely on.                            *)
(***************************************************************************)
EXTENDS Naturals

CONSTANTS
  Prompt,     \* init needs less than the helper's 100 ms between two polls
  SetupFails  \* whether a node may fail to be hijacked

VARIABLES
  strat,      \* the SePatchStrategy, or "none"
  init_at,    \* where init is
  helper_at,  \* where the helper is; "none" when it was not forked
  mocked,     \* the nodes that are hijacked
  policy,     \* how much of its policy init has written to the mock file
  sz,         \* the size the helper saw last
  kernel      \* the policy the kernel has

sevars == <<strat, init_at, helper_at, mocked, policy, sz, kernel>>

Strategies == {"LdPreload", "SelinuxFs", "Legacy"}
Full == 2  \* the size of a policy, written in so many pieces

SeInit ==
  /\ strat = "none" /\ init_at = "none" /\ helper_at = "none"
  /\ mocked = {} /\ policy = 0 /\ sz = 0 /\ kernel = "none"

\* handle_sepolicy_impl up to the fork.  An error on the way returns early:
\* nothing is forked, and what is hijacked already stays so.
Nodes(s) == CASE s = "LdPreload" -> {"preload", "ack"} [] s = "SelinuxFs" -> {"load", "enforce"}
              [] s = "Legacy" -> {"version"} [] OTHER -> {}
handle_sepolicy(s) ==
  /\ strat' = s /\ init_at' = "exec" /\ UNCHANGED <<policy, sz, kernel>>
  /\ \/ /\ mocked' = Nodes(s)
        /\ helper_at' = CASE s = "Legacy" -> "wait_fs" [] s \in Strategies \ {"Legacy"} -> "open"
                          [] OTHER -> "none"
     \/ /\ SetupFails /\ s \in Strategies /\ helper_at' = "none"
        /\ mocked' \in {{}, Nodes(s) \intersect {"preload", "load"}}

---------------------------------------------------------------------------
(* init *)

init_goes(to) == init_at' = to /\ UNCHANGED <<strat, helper_at, mocked, policy, sz, kernel>>

\* The node init opens next.
Node == CASE strat = "LdPreload" -> "ack" [] strat = "SelinuxFs" -> "enforce"
          [] OTHER -> IF policy = 0 THEN "version" ELSE "reqprot"

\* On Android 6 and 7 init mounts selinuxfs and opens the version file first.
InitStarts ==
  init_at = "exec" /\ init_goes(IF strat = "Legacy" THEN "reach" ELSE "write")

\* A FIFO blocks whoever opens it, also when it is unmounted meanwhile; any
\* other file opens at once.
InitOpens ==
  /\ init_at = "reach"
  /\ init_goes(IF Node \in mocked THEN "blocked"
               ELSE IF Node = "version" THEN "write" ELSE "done")

\* security_load_policy: preload.so's when it is loaded, else libselinux's,
\* whose load node may be hijacked.  The file grows piece by piece.
security_load_policy ==
  /\ init_at = "write"
  /\ IF policy > 0 \/ {"preload", "load"} \intersect mocked # {}
     THEN /\ policy' = IF policy < Full THEN policy + 1 ELSE policy
          /\ init_at' = IF policy < Full THEN "write" ELSE "reach"
          /\ UNCHANGED kernel
     ELSE kernel' = "stock" /\ init_at' = "done" /\ UNCHANGED policy
  /\ UNCHANGED <<strat, helper_at, mocked, sz>>

InitNext == InitStarts \/ InitOpens \/ security_load_policy

---------------------------------------------------------------------------
(* the helper *)

helper_goes(to) == helper_at' = to /\ UNCHANGED <<strat, policy, sz>>

\* Both ends of the FIFO open at once, or its reader gets what is written.
Meet(at, from, to, next) ==
  /\ helper_at = at /\ init_at = from
  /\ init_at' = to /\ helper_goes(next) /\ UNCHANGED <<mocked, kernel>>

\* Step 2, LEGACY only: wait for selinuxfs, hijack two nodes more, let init
\* go on, take the version file back, and poll until the policy "is fully
\* written".
wait_fs ==
  /\ helper_at = "wait_fs" /\ init_at # "exec"
  /\ mocked' = mocked \union {"load", "reqprot"}
  /\ helper_goes("open_version") /\ UNCHANGED <<init_at, kernel>>
open_version == Meet("open_version", "blocked", "write", "unmount")
unmount_version ==
  /\ helper_at = "unmount" /\ mocked' = mocked \ {"version"}
  /\ helper_goes("poll") /\ UNCHANGED <<init_at, kernel>>
\* Fault: the first bytes are taken for the policy.
poll_Once ==
  /\ helper_at = "poll" /\ sz' = policy
  /\ helper_at' = IF policy # 0 THEN "cleanup" ELSE "poll"
  /\ UNCHANGED <<strat, init_at, mocked, policy, kernel>>

poll ==
  /\ helper_at = "poll"
  /\ Prompt /\ sz > 0 => init_at = "blocked"
  /\ sz' = policy
  /\ helper_at' = IF sz # 0 /\ sz = policy THEN "cleanup" ELSE "poll"
  /\ UNCHANGED <<strat, init_at, mocked, policy, kernel>>

\* Step 3: the open blocks until init is at the node.
open == Meet("open", "blocked", "read", IF strat = "LdPreload" THEN "load" ELSE "cleanup")

\* cleanup_and_load: the hijacks go, then the policy is read, patched and
\* written to the kernel in one write.
cleanup ==
  /\ helper_at = "cleanup" /\ mocked' = {}
  /\ helper_goes("load") /\ UNCHANGED <<init_at, kernel>>
load ==
  /\ helper_at = "load"
  /\ kernel' = IF policy = Full THEN "patched" ELSE "torn"
  /\ mocked' = mocked \ {"preload", "ack"}
  /\ helper_goes("answer") /\ UNCHANGED init_at

\* Fault: LEGACY, too, writes to the FIFO it has opened before.
answer_Opened == Meet("answer", "read", "done", "exit")

\* The answer releases init; LEGACY opens the mock FIFO for that.
answer == Meet("answer", IF strat = "Legacy" THEN "blocked" ELSE "read", "done", "exit")

HelperNext ==
  \/ wait_fs \/ open_version \/ unmount_version \/ poll
  \/ open \/ cleanup \/ load \/ answer

=============================================================================
