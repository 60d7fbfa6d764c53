----------------------------- MODULE ThreadPool -----------------------------
(***************************************************************************)
(* The thread pool of magiskd and zygiskd, core/thread.rs.                 *)
(*                                                                         *)
(* One producer (the accept loop of daemon_entry, or the request loop of   *)
(* zygiskd) hands tasks to exec_task through a slot that holds one task.   *)
(* Threads are created on demand; the first CORE_POOL_SIZE of them wait    *)
(* for ever, the others end after THREAD_IDLE_MAX_SEC without work.        *)
(*                                                                         *)
(* PoolInfo is only touched with the mutex held, so every critical section *)
(* is one action.  A condition variable releases the mutex and blocks in   *)
(* one step; coming back from it is a separate step, because the thread    *)
(* must take the mutex again and others may run in between.                *)
(***************************************************************************)
EXTENDS Integers, FiniteSets

CONSTANTS
  Threads,          \* identities that threads of the pool may have
  Tasks,            \* the closures given to exec_task, each given once
  NoTask,           \* PoolInfo.task = None
  CORE_POOL_SIZE,   \* threads that never end
  MaxSpawnFailures  \* bound: how often pthread_create may fail

ASSUME CoreAssumption == CORE_POOL_SIZE \in Nat \ {0}
ASSUME SpawnAssumption == MaxSpawnFailures \in Nat
ASSUME ThreadsAssumption == IsFiniteSet(Threads)
ASSUME TasksAssumption == NoTask \notin Tasks

VARIABLES
  idle_threads,     \* PoolInfo.idle_threads
  total_threads,    \* PoolInfo.total_threads
  task,             \* PoolInfo.task
  state,            \* where each thread is in pool_loop
  core,             \* threads started with is_core_pool
  running,          \* the task each thread is executing
  main,             \* where the producer is in exec_task
  arg,              \* the task the producer holds
  done,             \* tasks that have returned
  failed            \* pthread_create calls that failed

poolInfo == <<idle_threads, total_threads, task>>
vars == <<poolInfo, state, core, running, main, arg, done, failed>>

(***************************************************************************)
(* "none"     no such thread          "woken"    left the wait, wants lock *)
(* "ready"    about to lock           "timedOut" wait expired, wants lock  *)
(* "waiting"  in task_is_some.wait    "running"  executing its task        *)
(***************************************************************************)
ThreadState == {"none", "ready", "waiting", "woken", "timedOut", "running"}

\* The producer: serving connections, about to lock, in task_is_none.wait,
\* or back from that wait and about to lock again.
MainState == {"accept", "calling", "waiting", "woken"}

In(S) == {t \in Threads : state[t] \in S}
Live == Threads \ In({"none"})
Idle == In({"waiting", "woken", "timedOut"})

Init ==
  /\ idle_threads = 0 /\ total_threads = 0 /\ task = NoTask
  /\ state = [t \in Threads |-> "none"]
  /\ core = {}
  /\ running = [t \in Threads |-> NoTask]
  /\ main = "accept" /\ arg = NoTask
  /\ done = {}
  /\ failed = 0
-----------------------------------------------------------------------------
Submitted == done \cup {running[t] : t \in Threads} \cup {task, arg}

\* A connection is accepted and its handler calls exec_task(f).
CallExecTask(f) ==
  /\ main = "accept"
  /\ f \notin Submitted
  /\ main' = "calling"
  /\ arg' = f
  /\ UNCHANGED <<poolInfo, state, core, running, done, failed>>

\* The while loop of exec_task_impl: the slot is taken, wait for task_is_none.
WaitTaskIsNone ==
  /\ main \in {"calling", "woken"}
  /\ task # NoTask
  /\ main' = "waiting"
  /\ UNCHANGED <<poolInfo, state, core, running, arg, done, failed>>

\* Nobody is idle: count one more thread and start it.
NewDaemonThread ==
  /\ idle_threads = 0
  /\ total_threads' = total_threads + 1
  /\ \/ \E t \in In({"none"}) :
          /\ state' = [state EXCEPT ![t] = "ready"]
          /\ core' = IF total_threads' <= CORE_POOL_SIZE
                       THEN core \cup {t} ELSE core
          /\ UNCHANGED failed
     \/ \* pthread_create fails; the return value is not looked at
        /\ failed < MaxSpawnFailures
        /\ failed' = failed + 1
        /\ UNCHANGED <<state, core>>

\* Somebody is idle: wake one thread of task_is_some, if one is in the wait.
NotifyTaskIsSome ==
  /\ idle_threads # 0
  /\ \/ \E t \in In({"waiting"}) : state' = [state EXCEPT ![t] = "woken"]
     \/ In({"waiting"}) = {} /\ UNCHANGED state
  /\ UNCHANGED <<total_threads, core, failed>>

\* The rest of exec_task_impl: fill the slot and find it a thread.
PostTask ==
  /\ main \in {"calling", "woken"}
  /\ task = NoTask
  /\ task' = arg
  /\ main' = "accept"
  /\ arg' = NoTask
  /\ NewDaemonThread \/ NotifyTaskIsSome
  /\ UNCHANGED <<idle_threads, running, done>>
-----------------------------------------------------------------------------
\* Faults: the producer is not notified; the slot is read and not emptied.
TakeTask_NoNotify(t) ==
  /\ task' = NoTask
  /\ running' = [running EXCEPT ![t] = task]
  /\ state' = [state EXCEPT ![t] = IF task = NoTask THEN "ready" ELSE "running"]
  /\ UNCHANGED main

TakeTask_KeepSlot(t) ==
  /\ running' = [running EXCEPT ![t] = task]
  /\ state' = [state EXCEPT ![t] = IF task = NoTask THEN "ready" ELSE "running"]
  /\ main' = IF main = "waiting" THEN "woken" ELSE main
  /\ UNCHANGED task

\* task.take() and task_is_none.notify_one(), then out of the mutex.
TakeTask(t) ==
  /\ task' = NoTask
  /\ running' = [running EXCEPT ![t] = task]
  /\ state' = [state EXCEPT ![t] = IF task = NoTask THEN "ready" ELSE "running"]
  /\ main' = IF main = "waiting" THEN "woken" ELSE main

\* A pass of pool_loop that finds the slot full: idle_threads goes up and down.
EnterAndTake(t) ==
  /\ state[t] = "ready"
  /\ task # NoTask
  /\ TakeTask(t)
  /\ UNCHANGED <<idle_threads, total_threads, core, arg, done, failed>>

\* A pass of pool_loop that finds the slot empty waits on task_is_some.
EnterAndWait(t) ==
  /\ state[t] = "ready"
  /\ task = NoTask
  /\ idle_threads' = idle_threads + 1
  /\ state' = [state EXCEPT ![t] = "waiting"]
  /\ UNCHANGED <<total_threads, task, core, running, main, arg, done, failed>>

\* Back from the wait with the mutex: take what is in the slot, maybe nothing.
ResumeAndTake(t) ==
  /\ state[t] = "woken"
  /\ idle_threads' = idle_threads - 1
  /\ TakeTask(t)
  /\ UNCHANGED <<total_threads, core, arg, done, failed>>

\* Fault: core threads wait with the timeout too.
IdleTimeout_CoreToo(t) ==
  /\ state[t] = "waiting"
  /\ state' = [state EXCEPT ![t] = "timedOut"]
  /\ UNCHANGED <<poolInfo, core, running, main, arg, done, failed>>

\* 60 seconds have passed in wait_timeout; the mutex is not held yet.
IdleTimeout(t) ==
  /\ state[t] = "waiting"
  /\ t \notin core
  /\ state' = [state EXCEPT ![t] = "timedOut"]
  /\ UNCHANGED <<poolInfo, core, running, main, arg, done, failed>>

\* With the mutex back after a timeout the thread ends, whatever the slot holds.
ExitIdle(t) ==
  /\ state[t] = "timedOut"
  /\ idle_threads' = idle_threads - 1
  /\ total_threads' = total_threads - 1
  /\ state' = [state EXCEPT ![t] = "none"]
  /\ UNCHANGED <<task, core, running, main, arg, done, failed>>

\* task() returns and the loop goes round.
FinishTask(t) ==
  /\ state[t] = "running"
  /\ done' = done \cup {running[t]}
  /\ running' = [running EXCEPT ![t] = NoTask]
  /\ state' = [state EXCEPT ![t] = "ready"]
  /\ UNCHANGED <<poolInfo, core, main, arg, failed>>

\* Condition variables may wake a thread nobody notified.
SpuriousWake(t) ==
  /\ state[t] = "waiting"
  /\ state' = [state EXCEPT ![t] = "woken"]
  /\ UNCHANGED <<poolInfo, core, running, main, arg, done, failed>>

SpuriousMainWake ==
  /\ main = "waiting"
  /\ main' = "woken"
  /\ UNCHANGED <<poolInfo, state, core, running, arg, done, failed>>
-----------------------------------------------------------------------------
Main == WaitTaskIsNone \/ PostTask
PoolLoop(t) == EnterAndTake(t) \/ EnterAndWait(t) \/ ResumeAndTake(t) \/ ExitIdle(t)

Next ==
  \/ \E f \in Tasks : CallExecTask(f)
  \/ Main
  \/ SpuriousMainWake
  \/ \E t \in Threads :
       PoolLoop(t) \/ IdleTimeout(t) \/ FinishTask(t) \/ SpuriousWake(t)

Spec == Init /\ [][Next]_vars

(***************************************************************************)
(* Threads and the producer keep getting the mutex and the processor.      *)
(* Nothing is promised of timeouts, spurious wake-ups, or how long a task  *)
(* runs: a SUPERUSER task lasts as long as the root shell it serves.       *)
(***************************************************************************)
Scheduling == WF_vars(Main) /\ \A t \in Threads : WF_vars(PoolLoop(t))
TasksEnd == \A t \in Threads : WF_vars(FinishTask(t))

FairSpec == Spec /\ Scheduling
FairSpecTasksEnd == FairSpec /\ TasksEnd
-----------------------------------------------------------------------------
TypeOK ==
  /\ idle_threads \in Int /\ total_threads \in Int
  /\ task \in Tasks \cup {NoTask}
  /\ state \in [Threads -> ThreadState]
  /\ core \subseteq Threads
  /\ running \in [Threads -> Tasks \cup {NoTask}]
  /\ main \in MainState
  /\ arg \in Tasks \cup {NoTask}
  /\ done \subseteq Tasks
  /\ failed \in 0 .. MaxSpawnFailures

\* The two counters of PoolInfo agree with the threads there are: every
\* thread that is in, or coming back from, its wait is counted idle exactly
\* once, and total_threads is off by the creations that failed.
CountersExact ==
  /\ idle_threads = Cardinality(Idle)
  /\ total_threads = Cardinality(Live) + failed

\* A thread that may end exists only beside a full core: exec_task_impl
\* decides by total_threads alone, after threads have ended and come back.
CoreFullFirst ==
  /\ core \subseteq Live
  /\ Cardinality(core) <= CORE_POOL_SIZE
  /\ Live # core => Cardinality(core) + failed >= CORE_POOL_SIZE

\* A posted task is never left to sleeping threads: some thread is on its way
\* to the slot or will come back to it when its own task returns.  This is what
\* keeps the window between a timeout and the exit it causes harmless as
\* long as tasks end; it rests on the core threads, which cannot time out.
TaskHasTaker ==
  task # NoTask /\ failed = 0 => In({"ready", "woken", "running"}) # {}

\* The producer never sleeps on task_is_none with the slot empty: no
\* notification is lost between the take and the wait.
NoLostNotify == main = "waiting" => task # NoTask

\* The pool implements the service the daemon relies on: posted once, picked
\* up by one thread, run once, with one task in the slot at a time.
Repeated(f) ==
  \/ \E t, u \in Threads : t # u /\ running[t] = f /\ running[u] = f
  \/ \E t \in Threads : running[t] = f /\ (f \in done \/ task = f)
  \/ task = f /\ f \in done
Phase(f) ==
  IF f \in done THEN "done"
  ELSE IF \E t \in Threads : running[t] = f THEN "running"
  ELSE IF task = f THEN "posted" ELSE "new"
StatusOf(f) == IF Repeated(f) THEN "repeated" ELSE Phase(f)
TaskStatus == [f \in Tasks |-> StatusOf(f)]
Service == INSTANCE TaskService WITH status <- TaskStatus
ImplementsService == Service!Spec

\* Every task given to exec_task is run to its end, when tasks end and
\* pthread_create does not fail: a timed-out thread that leaves a task
\* behind only delays it.
EveryTaskRuns == [](failed = 0) => \A f \in Tasks : arg = f ~> f \in done

\* The accept loop always gets back to accepting connections, when
\* pthread_create does not fail.  daemon_entry: "Loop forever to listen for
\* requests".
AcceptLoopLives == [](failed = 0) => (main # "accept" ~> main = "accept")
=============================================================================
