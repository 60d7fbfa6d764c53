---------------------------- MODULE TaskService ----------------------------
(***************************************************************************)
(* What the daemon expects of its thread pool (core/thread.rs): a task     *)
(* given to exec_task is posted once, picked up by one thread, and runs to *)
(* its end once.  No task is dropped, repeated or run by two threads, and  *)
(* at most one task is posted and not yet picked up (the slot PoolInfo.task*)
(* holds one).  Nothing here says how threads are created, woken or ended. *)
(***************************************************************************)

CONSTANT Tasks

VARIABLE status     \* [Tasks -> {"new", "posted", "running", "done"}]

Init == status = [f \in Tasks |-> "new"]

Post(f) ==
  /\ status[f] = "new"
  /\ \A g \in Tasks : status[g] # "posted"
  /\ status' = [status EXCEPT ![f] = "posted"]

PickUp(f) ==
  /\ status[f] = "posted"
  /\ status' = [status EXCEPT ![f] = "running"]

Finish(f) ==
  /\ status[f] = "running"
  /\ status' = [status EXCEPT ![f] = "done"]

Next == \E f \in Tasks : Post(f) \/ PickUp(f) \/ Finish(f)

Spec == Init /\ [][Next]_status
=============================================================================
