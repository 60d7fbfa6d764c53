-------------------------- MODULE ThreadPoolProofs --------------------------
(***************************************************************************)
(* The counters of the thread pool are exact, the core fills first, and a  *)
(* posted task always has a thread to take it, for every set of threads    *)
(* and tasks, every CORE_POOL_SIZE and every number of failed creations.   *)
(***************************************************************************)
EXTENDS ThreadPool, FiniteSetTheorems, TLAPS

\* A thread holds a task exactly while it runs one, and only threads outside
\* the core ever time out.
ThreadsConsistent ==
  /\ \A t \in Threads : state[t] = "running" <=> running[t] # NoTask
  /\ \A t \in core : state[t] # "timedOut"

\* The producer holds a task exactly while it is inside exec_task.
ProducerConsistent == arg = NoTask <=> main = "accept"

\* The inductive invariant.  TaskHasTaker needs CoreFullFirst (a thread that
\* timed out has a core beside it), which needs the exact counters.
IInv ==
  /\ TypeOK
  /\ CountersExact
  /\ CoreFullFirst
  /\ ThreadsConsistent
  /\ ProducerConsistent
  /\ TaskHasTaker
  /\ NoLostNotify

-----------------------------------------------------------------------------
\* Sets of threads selected by their state are finite.
LEMMA SelectFinite ==
  ASSUME NEW S
  PROVE  /\ IsFiniteSet(In(S))
         /\ IsFiniteSet(Live)
         /\ IsFiniteSet(Idle)
  BY ThreadsAssumption, FS_Subset DEF In, Live, Idle

\* The initial states satisfy the invariant.
LEMMA InitIInv == Init => IInv
<1> SUFFICES ASSUME Init PROVE IInv
  OBVIOUS
<1>1. TypeOK
  BY SpawnAssumption DEF Init, TypeOK, ThreadState, MainState
<1>2. Live = {} /\ Idle = {}
  BY DEF Init, Live, Idle, In
<1>3. CountersExact
  BY <1>2, FS_EmptySet DEF Init, CountersExact
<1>4. CoreFullFirst
  BY <1>2, FS_EmptySet, CoreAssumption DEF Init, CoreFullFirst
<1>5. ThreadsConsistent /\ ProducerConsistent /\ TaskHasTaker /\ NoLostNotify
  BY DEF Init, ThreadsConsistent, ProducerConsistent, TaskHasTaker, NoLostNotify
<1> QED
  BY <1>1, <1>3, <1>4, <1>5 DEF IInv

-----------------------------------------------------------------------------
\* Every step keeps the types.
LEMMA TypeStep == IInv /\ [Next]_vars => TypeOK'
<1> SUFFICES ASSUME IInv, [Next]_vars PROVE TypeOK'
  OBVIOUS
<1> USE SpawnAssumption DEF IInv, TypeOK, ThreadState, MainState, poolInfo
<1>1. CASE \E f \in Tasks : CallExecTask(f)
  BY <1>1 DEF CallExecTask
<1>2. CASE WaitTaskIsNone
  BY <1>2 DEF WaitTaskIsNone
<1>3. CASE PostTask
  <2>1. CASE NewDaemonThread
    BY <1>3, <2>1 DEF PostTask, NewDaemonThread, In
  <2>2. CASE NotifyTaskIsSome
    BY <1>3, <2>2 DEF PostTask, NotifyTaskIsSome, In
  <2> QED
    BY <1>3, <2>1, <2>2 DEF PostTask
<1>4. CASE SpuriousMainWake
  BY <1>4 DEF SpuriousMainWake
<1>5. ASSUME NEW t \in Threads,
             PoolLoop(t) \/ IdleTimeout(t) \/ FinishTask(t) \/ SpuriousWake(t)
      PROVE  TypeOK'
  <2>1. CASE EnterAndTake(t)
    BY <2>1 DEF EnterAndTake, TakeTask
  <2>2. CASE EnterAndWait(t)
    BY <2>2 DEF EnterAndWait
  <2>3. CASE ResumeAndTake(t)
    BY <2>3 DEF ResumeAndTake, TakeTask
  <2>4. CASE ExitIdle(t)
    BY <2>4 DEF ExitIdle
  <2>5. CASE IdleTimeout(t)
    BY <2>5 DEF IdleTimeout
  <2>6. CASE FinishTask(t)
    BY <2>6 DEF FinishTask, ThreadsConsistent
  <2>7. CASE SpuriousWake(t)
    BY <2>7 DEF SpuriousWake
  <2> QED
    BY <1>5, <2>1, <2>2, <2>3, <2>4, <2>5, <2>6, <2>7 DEF PoolLoop
<1>6. CASE UNCHANGED vars
  BY <1>6 DEF vars
<1> QED
  BY <1>1, <1>2, <1>3, <1>4, <1>5, <1>6 DEF Next, Main

-----------------------------------------------------------------------------
\* How Live and Idle change when one thread changes its state.
LEMMA MoveThread ==
  ASSUME TypeOK, NEW t \in Threads, NEW s \in ThreadState,
         state' = [state EXCEPT ![t] = s]
  PROVE  /\ Live' = IF s = "none" THEN Live \ {t} ELSE Live \cup {t}
         /\ Idle' = IF s \in {"waiting", "woken", "timedOut"}
                      THEN Idle \cup {t} ELSE Idle \ {t}
  BY DEF Live, Idle, In, TypeOK, ThreadState

\* Every step keeps the counters exact.
LEMMA CountersStep == IInv /\ [Next]_vars => CountersExact'
<1> SUFFICES ASSUME IInv, [Next]_vars PROVE CountersExact'
  OBVIOUS
<1> USE DEF ThreadState
<1>0. TypeOK /\ CountersExact
  BY DEF IInv
<1>a. /\ IsFiniteSet(Live) /\ IsFiniteSet(Idle)
      /\ Cardinality(Live) \in Nat /\ Cardinality(Idle) \in Nat
  BY SelectFinite, FS_CardinalityType
<1>c. failed \in Nat /\ total_threads \in Int /\ idle_threads \in Int
  BY <1>0, SpawnAssumption DEF TypeOK
<1>b. ASSUME UNCHANGED <<state, idle_threads, total_threads, failed>>
      PROVE  CountersExact'
  BY <1>0, <1>b DEF CountersExact, Live, Idle, In
<1>1. CASE \E f \in Tasks : CallExecTask(f)
  BY <1>1, <1>b DEF CallExecTask, poolInfo
<1>2. CASE WaitTaskIsNone
  BY <1>2, <1>b DEF WaitTaskIsNone, poolInfo
<1>3. CASE PostTask
  <2>1. CASE NewDaemonThread
    <3>1. CASE \E t \in In({"none"}) : state' = [state EXCEPT ![t] = "ready"] /\ UNCHANGED failed
      <4> PICK t \in In({"none"}) : state' = [state EXCEPT ![t] = "ready"]
        BY <3>1
      <4>1. t \in Threads /\ t \notin Live /\ t \notin Idle
        BY DEF In, Live, Idle
      <4>2. Live' = Live \cup {t} /\ Idle' = Idle
        <5>1. Idle \ {t} = Idle
          BY <4>1
        <5> QED
          BY <1>0, <4>1, <5>1, MoveThread
      <4>3. Cardinality(Live') = Cardinality(Live) + 1
        BY <4>1, <4>2, <1>a, FS_AddElement
      <4> QED
        <5>1. /\ total_threads' = total_threads + 1 /\ failed' = failed
              /\ idle_threads' = idle_threads
          BY <1>3, <2>1, <3>1 DEF PostTask, NewDaemonThread
        <5> QED
          BY <1>0, <1>a, <1>c, <4>2, <4>3, <5>1 DEF CountersExact
    <3>2. CASE failed' = failed + 1 /\ UNCHANGED state
      <4>1. Live' = Live /\ Idle' = Idle
        BY <3>2 DEF Live, Idle, In
      <4> QED
        <5>1. /\ total_threads' = total_threads + 1
              /\ idle_threads' = idle_threads
          BY <1>3, <2>1 DEF PostTask, NewDaemonThread
        <5> QED
          BY <1>0, <1>a, <1>c, <3>2, <4>1, <5>1 DEF CountersExact
    <3> QED
      BY <2>1, <3>1, <3>2 DEF NewDaemonThread
  <2>2. CASE NotifyTaskIsSome
    <3>1. CASE UNCHANGED state
      BY <1>b, <1>3, <2>2, <3>1 DEF PostTask, NotifyTaskIsSome
    <3>2. CASE \E t \in In({"waiting"}) : state' = [state EXCEPT ![t] = "woken"]
      <4> PICK t \in In({"waiting"}) : state' = [state EXCEPT ![t] = "woken"]
        BY <3>2
      <4>1. t \in Threads /\ t \in Live /\ t \in Idle
        BY DEF In, Live, Idle
      <4>2. Live' = Live /\ Idle' = Idle
        <5>1. Live \cup {t} = Live /\ Idle \cup {t} = Idle
          BY <4>1
        <5> QED
          BY <1>0, <4>1, <5>1, MoveThread
      <4> QED
        BY <1>0, <1>3, <2>2, <4>2 DEF CountersExact, PostTask, NotifyTaskIsSome
    <3> QED
      BY <2>2, <3>1, <3>2 DEF NotifyTaskIsSome
  <2> QED
    BY <1>3, <2>1, <2>2 DEF PostTask
<1>4. CASE SpuriousMainWake
  BY <1>4, <1>b DEF SpuriousMainWake, poolInfo
<1>5. ASSUME NEW t \in Threads,
             PoolLoop(t) \/ IdleTimeout(t) \/ FinishTask(t) \/ SpuriousWake(t)
      PROVE  CountersExact'
  <2>a. /\ Cardinality(Idle \cup {t}) = IF t \in Idle THEN Cardinality(Idle)
                                                     ELSE Cardinality(Idle) + 1
        /\ Cardinality(Idle \ {t}) = IF t \in Idle THEN Cardinality(Idle) - 1
                                                  ELSE Cardinality(Idle)
        /\ Cardinality(Live \ {t}) = IF t \in Live THEN Cardinality(Live) - 1
                                                  ELSE Cardinality(Live)
    BY <1>a, FS_AddElement, FS_RemoveElement
  <2>b. /\ t \in Live <=> state[t] # "none"
        /\ t \in Idle <=> state[t] \in {"waiting", "woken", "timedOut"}
    BY DEF Live, Idle, In
  <2>c. t \in Live => Live \cup {t} = Live
    OBVIOUS
  <2>d. t \in Idle => Idle \cup {t} = Idle
    OBVIOUS
  <2>e. t \notin Idle => Idle \ {t} = Idle
    OBVIOUS
  <2>1. CASE EnterAndTake(t)
    <3>1. state' = [state EXCEPT ![t] = "running"] /\ t \in Live /\ t \notin Idle
      BY <2>1, <2>b DEF EnterAndTake, TakeTask
    <3>2. Live' = Live /\ Idle' = Idle
      BY <1>0, <2>c, <2>e, <3>1, MoveThread
    <3> QED
      BY <1>0, <2>1, <3>2 DEF CountersExact, EnterAndTake
  <2>2. CASE EnterAndWait(t)
    <3>1. state' = [state EXCEPT ![t] = "waiting"] /\ t \in Live /\ t \notin Idle
      BY <2>2, <2>b DEF EnterAndWait
    <3>2. Live' = Live /\ Idle' = Idle \cup {t}
      BY <1>0, <2>c, <3>1, MoveThread
    <3> QED
      BY <1>0, <1>a, <2>2, <2>a, <3>1, <3>2 DEF CountersExact, EnterAndWait
  <2>3. CASE ResumeAndTake(t)
    <3>1. PICK s \in {"ready", "running"} :
            state' = [state EXCEPT ![t] = s] /\ t \in Live /\ t \in Idle
      BY <2>3, <2>b DEF ResumeAndTake, TakeTask
    <3>2. Live' = Live /\ Idle' = Idle \ {t}
      BY <1>0, <2>c, <3>1, MoveThread
    <3> QED
      BY <1>0, <1>a, <2>3, <2>a, <3>1, <3>2 DEF CountersExact, ResumeAndTake
  <2>4. CASE ExitIdle(t)
    <3>1. state' = [state EXCEPT ![t] = "none"] /\ t \in Live /\ t \in Idle
      BY <2>4, <2>b DEF ExitIdle
    <3>2. Live' = Live \ {t} /\ Idle' = Idle \ {t}
      BY <1>0, <3>1, MoveThread
    <3> QED
      BY <1>0, <1>a, <1>c, <2>4, <2>a, <3>1, <3>2 DEF CountersExact, ExitIdle
  <2>5. CASE IdleTimeout(t)
    <3>1. state' = [state EXCEPT ![t] = "timedOut"] /\ t \in Live /\ t \in Idle
      BY <2>5, <2>b DEF IdleTimeout
    <3>2. Live' = Live /\ Idle' = Idle
      BY <1>0, <2>c, <2>d, <3>1, MoveThread
    <3> QED
      BY <1>0, <2>5, <3>2 DEF CountersExact, IdleTimeout, poolInfo
  <2>6. CASE FinishTask(t)
    <3>1. state' = [state EXCEPT ![t] = "ready"] /\ t \in Live /\ t \notin Idle
      BY <2>6, <2>b DEF FinishTask
    <3>2. Live' = Live /\ Idle' = Idle
      BY <1>0, <2>c, <2>e, <3>1, MoveThread
    <3> QED
      BY <1>0, <2>6, <3>2 DEF CountersExact, FinishTask, poolInfo
  <2>7. CASE SpuriousWake(t)
    <3>1. state' = [state EXCEPT ![t] = "woken"] /\ t \in Live /\ t \in Idle
      BY <2>7, <2>b DEF SpuriousWake
    <3>2. Live' = Live /\ Idle' = Idle
      BY <1>0, <2>c, <2>d, <3>1, MoveThread
    <3> QED
      BY <1>0, <2>7, <3>2 DEF CountersExact, SpuriousWake, poolInfo
  <2> QED
    BY <1>5, <2>1, <2>2, <2>3, <2>4, <2>5, <2>6, <2>7 DEF PoolLoop
<1>6. CASE UNCHANGED vars
  BY <1>6, <1>b DEF vars, poolInfo
<1> QED
  BY <1>1, <1>2, <1>3, <1>4, <1>5, <1>6 DEF Next, Main

-----------------------------------------------------------------------------
\* Starting a thread keeps the core first: a thread outside the core is started
\* only when total_threads already counts CORE_POOL_SIZE of them.
LEMMA CoreSpawn ==
  ASSUME IInv, NewDaemonThread, TypeOK'
  PROVE  CoreFullFirst'
<1> USE DEF ThreadState
<1>0. TypeOK /\ CountersExact /\ CoreFullFirst
  BY DEF IInv
<1>a. /\ IsFiniteSet(Live) /\ Cardinality(Live) \in Nat
      /\ IsFiniteSet(core) /\ Cardinality(core) \in Nat
      /\ Cardinality(core) <= Cardinality(Live)
  BY <1>0, SelectFinite, FS_CardinalityType, FS_Subset DEF CoreFullFirst
<1>b. failed \in Nat /\ total_threads \in Int /\ CORE_POOL_SIZE \in Nat
  BY <1>0, SpawnAssumption, CoreAssumption DEF TypeOK
<1>c. total_threads = Cardinality(Live) + failed
  BY <1>0 DEF CountersExact
<1>d. total_threads' = total_threads + 1
  BY DEF NewDaemonThread
<1>1. CASE failed' = failed + 1 /\ UNCHANGED <<state, core>>
  <2>1. Live' = Live
    BY <1>1 DEF Live, In
  <2> QED
    BY <1>0, <1>1, <1>a, <1>b, <2>1 DEF CoreFullFirst
<1>2. ASSUME NEW t \in In({"none"}),
             state' = [state EXCEPT ![t] = "ready"], failed' = failed,
             core' = IF total_threads' <= CORE_POOL_SIZE
                       THEN core \cup {t} ELSE core
      PROVE  CoreFullFirst'
  <2>1. t \in Threads /\ t \notin Live /\ Live' = Live \cup {t}
    BY <1>0, <1>2, MoveThread DEF In, Live
  <2>2. t \notin core
    BY <1>0, <2>1 DEF CoreFullFirst
  <2>3. Cardinality(core \cup {t}) = Cardinality(core) + 1
    BY <1>a, <2>2, FS_AddElement
  <2>4. CASE total_threads' <= CORE_POOL_SIZE
    <3>1. core' = core \cup {t}
      BY <1>2, <2>4
    <3>2. core' \subseteq Live' /\ Cardinality(core') <= CORE_POOL_SIZE
      BY <1>0, <1>a, <1>b, <1>c, <1>d, <2>1, <2>3, <2>4, <3>1 DEF CoreFullFirst
    <3>3. Live' # core' => Live # core
      BY <2>1, <3>1
    <3>4. Live' # core' => Cardinality(core') + failed' >= CORE_POOL_SIZE
      BY <1>0, <1>2, <1>a, <1>b, <2>3, <3>1, <3>3 DEF CoreFullFirst
    <3> QED
      BY <3>2, <3>4 DEF CoreFullFirst
  <2>5. CASE ~(total_threads' <= CORE_POOL_SIZE)
    <3>1. core' = core
      BY <1>2, <2>5
    <3>2. core' \subseteq Live' /\ Cardinality(core') <= CORE_POOL_SIZE
      BY <1>0, <2>1, <3>1 DEF CoreFullFirst
    <3>3. Cardinality(core) + failed >= CORE_POOL_SIZE
      <4>1. CASE Live = core
        BY <1>a, <1>b, <1>c, <1>d, <2>5, <4>1
      <4>2. CASE Live # core
        BY <1>0, <4>2 DEF CoreFullFirst
      <4> QED
        BY <4>1, <4>2
    <3> QED
      BY <1>2, <3>1, <3>2, <3>3 DEF CoreFullFirst
  <2> QED
    BY <2>4, <2>5
<1> QED
  BY <1>1, <1>2 DEF NewDaemonThread

\* Every step keeps the core first.
LEMMA CoreStep == IInv /\ [Next]_vars => CoreFullFirst'
<1> SUFFICES ASSUME IInv, [Next]_vars PROVE CoreFullFirst'
  OBVIOUS
<1> USE DEF ThreadState
<1>0. TypeOK /\ CoreFullFirst /\ TypeOK'
  BY TypeStep DEF IInv
<1>b. ASSUME UNCHANGED <<core, failed>>, Live' = Live PROVE CoreFullFirst'
  BY <1>0, <1>b DEF CoreFullFirst
<1>c. ASSUME UNCHANGED state PROVE Live' = Live
  BY <1>c DEF Live, In
<1>1. CASE \E f \in Tasks : CallExecTask(f)
  BY <1>1, <1>b, <1>c DEF CallExecTask
<1>2. CASE WaitTaskIsNone
  BY <1>2, <1>b, <1>c DEF WaitTaskIsNone
<1>3. CASE PostTask
  <2>1. CASE NewDaemonThread
    BY <1>0, <2>1, CoreSpawn
  <2>2. CASE NotifyTaskIsSome
    <3>1. CASE UNCHANGED state
      BY <1>b, <1>c, <2>2, <3>1 DEF NotifyTaskIsSome
    <3>2. ASSUME NEW t \in In({"waiting"}), state' = [state EXCEPT ![t] = "woken"]
          PROVE  Live' = Live
      <4>1. t \in Threads /\ Live \cup {t} = Live
        BY DEF In, Live
      <4> QED
        BY <1>0, <3>2, <4>1, MoveThread
    <3> QED
      BY <1>b, <2>2, <3>1, <3>2 DEF NotifyTaskIsSome
  <2> QED
    BY <1>3, <2>1, <2>2 DEF PostTask
<1>4. CASE SpuriousMainWake
  BY <1>4, <1>b, <1>c DEF SpuriousMainWake
<1>5. ASSUME NEW t \in Threads,
             PoolLoop(t) \/ IdleTimeout(t) \/ FinishTask(t) \/ SpuriousWake(t)
      PROVE  CoreFullFirst'
  <2>1. t \in Live <=> state[t] # "none"
    BY DEF Live, In
  <2>2. ASSUME NEW s \in ThreadState \ {"none"}, t \in Live,
               state' = [state EXCEPT ![t] = s]
        PROVE  Live' = Live
    <3>1. Live \cup {t} = Live
      BY <2>2
    <3> QED
      BY <1>0, <2>2, <3>1, MoveThread
  <2>3. CASE EnterAndTake(t)
    BY <1>b, <2>1, <2>2, <2>3 DEF EnterAndTake, TakeTask
  <2>4. CASE EnterAndWait(t)
    BY <1>b, <2>1, <2>2, <2>4 DEF EnterAndWait
  <2>5. CASE ResumeAndTake(t)
    BY <1>b, <2>1, <2>2, <2>5 DEF ResumeAndTake, TakeTask
  <2>6. CASE ExitIdle(t)
    <3>1. state[t] = "timedOut" /\ t \notin core /\ t \in Live
      BY <2>1, <2>6 DEF ExitIdle, IInv, ThreadsConsistent
    <3>2. Live' = Live \ {t} /\ UNCHANGED <<core, failed>>
      BY <1>0, <2>6, MoveThread DEF ExitIdle
    <3>3. Live # core /\ core \subseteq Live'
      BY <1>0, <3>1, <3>2 DEF CoreFullFirst
    <3> QED
      BY <1>0, <3>2, <3>3 DEF CoreFullFirst
  <2>7. CASE IdleTimeout(t)
    BY <1>b, <2>1, <2>2, <2>7 DEF IdleTimeout
  <2>8. CASE FinishTask(t)
    BY <1>b, <2>1, <2>2, <2>8 DEF FinishTask
  <2>9. CASE SpuriousWake(t)
    BY <1>b, <2>1, <2>2, <2>9 DEF SpuriousWake
  <2> QED
    BY <1>5, <2>3, <2>4, <2>5, <2>6, <2>7, <2>8, <2>9 DEF PoolLoop
<1>6. CASE UNCHANGED vars
  BY <1>6, <1>b, <1>c DEF vars
<1> QED
  BY <1>1, <1>2, <1>3, <1>4, <1>5, <1>6 DEF Next, Main

-----------------------------------------------------------------------------
\* Every step keeps the threads and the producer consistent, and never lets the
\* producer sleep on an empty slot.
LEMMA ConsistencyStep ==
  IInv /\ [Next]_vars => ThreadsConsistent' /\ ProducerConsistent' /\ NoLostNotify'
<1> SUFFICES ASSUME IInv, [Next]_vars
             PROVE  ThreadsConsistent' /\ ProducerConsistent' /\ NoLostNotify'
  OBVIOUS
<1>0. /\ TypeOK /\ core \subseteq Live /\ ThreadsConsistent
      /\ ProducerConsistent /\ NoLostNotify
  BY DEF IInv, CoreFullFirst
<1> USE <1>0, TasksAssumption
    DEF TypeOK, ThreadState, MainState, ThreadsConsistent, ProducerConsistent,
        NoLostNotify, poolInfo
<1>1. CASE \E f \in Tasks : CallExecTask(f)
  BY <1>1 DEF CallExecTask
<1>2. CASE WaitTaskIsNone
  BY <1>2 DEF WaitTaskIsNone
<1>3. CASE PostTask
  <2>1. CASE NewDaemonThread
    <3>1. ASSUME NEW t \in In({"none"}), state' = [state EXCEPT ![t] = "ready"],
                 core' \subseteq core \cup {t}
          PROVE  ThreadsConsistent'
      BY <1>3, <3>1 DEF PostTask, In
    <3>2. CASE UNCHANGED <<state, core>>
      BY <1>3, <3>2 DEF PostTask
    <3>3. ThreadsConsistent'
      BY <2>1, <3>1, <3>2 DEF NewDaemonThread
    <3> QED
      BY <1>3, <3>3 DEF PostTask
  <2>2. CASE NotifyTaskIsSome
    BY <1>3, <2>2 DEF PostTask, NotifyTaskIsSome, In
  <2> QED
    BY <1>3, <2>1, <2>2 DEF PostTask
<1>4. CASE SpuriousMainWake
  BY <1>4 DEF SpuriousMainWake
<1>5. ASSUME NEW t \in Threads,
             PoolLoop(t) \/ IdleTimeout(t) \/ FinishTask(t) \/ SpuriousWake(t)
      PROVE  ThreadsConsistent' /\ ProducerConsistent' /\ NoLostNotify'
  <2>1. CASE EnterAndTake(t)
    BY <2>1 DEF EnterAndTake, TakeTask
  <2>2. CASE EnterAndWait(t)
    BY <2>2 DEF EnterAndWait
  <2>3. CASE ResumeAndTake(t)
    BY <2>3 DEF ResumeAndTake, TakeTask
  <2>4. CASE ExitIdle(t)
    BY <2>4 DEF ExitIdle
  <2>5. CASE IdleTimeout(t)
    BY <2>5 DEF IdleTimeout
  <2>6. CASE FinishTask(t)
    BY <2>6 DEF FinishTask
  <2>7. CASE SpuriousWake(t)
    BY <2>7 DEF SpuriousWake
  <2> QED
    BY <1>5, <2>1, <2>2, <2>3, <2>4, <2>5, <2>6, <2>7 DEF PoolLoop
<1>6. CASE UNCHANGED vars
  BY <1>6 DEF vars
<1> QED
  BY <1>1, <1>2, <1>3, <1>4, <1>5, <1>6 DEF Next, Main

-----------------------------------------------------------------------------
\* Where the producer notifies and nobody is in the wait, every idle thread is
\* on its way out of it.  If they are all timed out, the core is not among
\* them, and the core is full.
LEMMA NotifyTaker ==
  ASSUME IInv, failed = 0, idle_threads # 0, In({"waiting"}) = {}
  PROVE  In({"ready", "woken", "running"}) # {}
<1>0. TypeOK /\ CountersExact /\ CoreFullFirst /\ ThreadsConsistent
  BY DEF IInv
<1>1. PICK t \in Idle : TRUE
  <2>1. IsFiniteSet(Idle)
    BY SelectFinite
  <2> QED
    BY <1>0, <2>1, FS_EmptySet DEF CountersExact
<1>2. CASE state[t] = "woken"
  BY <1>1, <1>2 DEF In, Idle
<1>3. CASE state[t] # "woken"
  <2>1. state[t] = "timedOut" /\ t \in Live /\ t \notin core
    BY <1>0, <1>1, <1>3 DEF In, Idle, Live, ThreadsConsistent
  <2>2. Cardinality(core) + failed >= CORE_POOL_SIZE
    BY <1>0, <2>1 DEF CoreFullFirst
  <2>3. core # {}
    BY <2>2, CoreAssumption, FS_EmptySet
  <2>4. PICK c \in core : TRUE
    BY <2>3
  <2>5. c \in Threads /\ state[c] \notin {"none", "waiting", "timedOut"}
    BY <1>0, <2>4 DEF CoreFullFirst, ThreadsConsistent, Live, In
  <2> QED
    BY <1>0, <2>5 DEF TypeOK, ThreadState, In
<1> QED
  BY <1>2, <1>3

\* Every step leaves a posted task with a thread to take it.
LEMMA TakerStep == IInv /\ [Next]_vars => TaskHasTaker'
<1> SUFFICES ASSUME IInv, [Next]_vars, task' # NoTask, failed' = 0
             PROVE  In({"ready", "woken", "running"})' # {}
  BY DEF TaskHasTaker
<1> DEFINE Taker == In({"ready", "woken", "running"})
<1>0. TypeOK /\ TaskHasTaker
  BY DEF IInv
<1> USE DEF TypeOK, ThreadState, poolInfo
<1>a. ASSUME UNCHANGED <<state, task, failed>> PROVE Taker' # {}
  BY <1>0, <1>a DEF TaskHasTaker, In
<1>b. ASSUME NEW t \in Threads, NEW s \in {"ready", "woken", "running"},
             state' = [state EXCEPT ![t] = s]
      PROVE  Taker' # {}
  <2>1. t \in Taker'
    BY <1>0, <1>b DEF In
  <2> QED
    BY <2>1
<1>1. CASE \E f \in Tasks : CallExecTask(f)
  BY <1>1, <1>a DEF CallExecTask
<1>2. CASE WaitTaskIsNone
  BY <1>2, <1>a DEF WaitTaskIsNone
<1>3. CASE PostTask
  <2>1. CASE NewDaemonThread
    <3>1. failed' # failed + 1
      BY <1>0, SpawnAssumption
    <3>2. PICK t \in In({"none"}) : state' = [state EXCEPT ![t] = "ready"]
      BY <2>1, <3>1 DEF NewDaemonThread
    <3> QED
      BY <1>b, <3>2 DEF In
  <2>2. CASE NotifyTaskIsSome
    <3>1. CASE \E t \in In({"waiting"}) : state' = [state EXCEPT ![t] = "woken"]
      BY <1>b, <3>1 DEF In
    <3>2. CASE In({"waiting"}) = {} /\ UNCHANGED state
      <4>1. Taker # {}
        BY <2>2, <3>2, NotifyTaker DEF NotifyTaskIsSome
      <4> QED
        BY <3>2, <4>1 DEF In
    <3> QED
      BY <2>2, <3>1, <3>2 DEF NotifyTaskIsSome
  <2> QED
    BY <1>3, <2>1, <2>2 DEF PostTask
<1>4. CASE SpuriousMainWake
  BY <1>4, <1>a DEF SpuriousMainWake
<1>5. ASSUME NEW t \in Threads,
             PoolLoop(t) \/ IdleTimeout(t) \/ FinishTask(t) \/ SpuriousWake(t)
      PROVE  Taker' # {}
  <2>1. CASE EnterAndTake(t)
    BY <2>1 DEF EnterAndTake, TakeTask
  <2>2. CASE EnterAndWait(t)
    BY <2>2 DEF EnterAndWait
  <2>3. CASE ResumeAndTake(t)
    BY <2>3 DEF ResumeAndTake, TakeTask
  <2>4. CASE ExitIdle(t)
    BY <1>0, <2>4 DEF ExitIdle, TaskHasTaker, In
  <2>5. CASE IdleTimeout(t)
    BY <1>0, <2>5 DEF IdleTimeout, TaskHasTaker, In
  <2>6. CASE FinishTask(t)
    BY <1>b, <2>6 DEF FinishTask
  <2>7. CASE SpuriousWake(t)
    BY <1>b, <2>7 DEF SpuriousWake
  <2> QED
    BY <1>5, <2>1, <2>2, <2>3, <2>4, <2>5, <2>6, <2>7 DEF PoolLoop
<1>6. CASE UNCHANGED vars
  BY <1>6, <1>a DEF vars
<1> QED
  BY <1>1, <1>2, <1>3, <1>4, <1>5, <1>6 DEF Next, Main

-----------------------------------------------------------------------------
\* In every reachable state of the pool the counters of PoolInfo are exact, the
\* core is filled first, a posted task has a thread to take it, and the
\* producer never sleeps on an empty slot.
THEOREM PoolSafe ==
  Spec => [](TypeOK /\ CountersExact /\ CoreFullFirst /\ TaskHasTaker /\ NoLostNotify)
<1>1. IInv /\ [Next]_vars => IInv'
  BY TypeStep, CountersStep, CoreStep, ConsistencyStep, TakerStep DEF IInv
<1>2. IInv => TypeOK /\ CountersExact /\ CoreFullFirst /\ TaskHasTaker /\ NoLostNotify
  BY DEF IInv
<1> QED
  BY InitIInv, <1>1, <1>2, PTL DEF Spec

-----------------------------------------------------------------------------
\* No task is in two places: held by the producer, in the slot, run by a
\* thread, or done.
TasksOnce ==
  /\ \A t, u \in Threads : running[t] # NoTask /\ running[t] = running[u] => t = u
  /\ \A t \in Threads : /\ running[t] \notin done
                        /\ running[t] # NoTask => running[t] \notin {task, arg}
  /\ task # NoTask => task # arg
  /\ task \notin done /\ arg \notin done

\* Every step keeps tasks in one place.
LEMMA OnceStep == IInv /\ TasksOnce /\ [Next]_vars => TasksOnce'
<1> SUFFICES ASSUME IInv, TasksOnce, [Next]_vars PROVE TasksOnce'
  OBVIOUS
<1>0. TypeOK /\ ThreadsConsistent /\ ProducerConsistent
  BY DEF IInv
<1> USE <1>0, TasksAssumption
    DEF TypeOK, ThreadState, MainState, ThreadsConsistent, ProducerConsistent,
        TasksOnce, poolInfo
<1>1. CASE \E f \in Tasks : CallExecTask(f)
  BY <1>1 DEF CallExecTask, Submitted
<1>2. CASE WaitTaskIsNone
  BY <1>2 DEF WaitTaskIsNone
<1>3. CASE PostTask
  BY <1>3 DEF PostTask
<1>4. CASE SpuriousMainWake
  BY <1>4 DEF SpuriousMainWake
<1>5. ASSUME NEW t \in Threads,
             PoolLoop(t) \/ IdleTimeout(t) \/ FinishTask(t) \/ SpuriousWake(t)
      PROVE  TasksOnce'
  <2>1. CASE EnterAndTake(t)
    BY <2>1 DEF EnterAndTake, TakeTask
  <2>2. CASE EnterAndWait(t)
    BY <2>2 DEF EnterAndWait
  <2>3. CASE ResumeAndTake(t)
    BY <2>3 DEF ResumeAndTake, TakeTask
  <2>4. CASE ExitIdle(t)
    BY <2>4 DEF ExitIdle
  <2>5. CASE IdleTimeout(t)
    BY <2>5 DEF IdleTimeout
  <2>6. CASE FinishTask(t)
    BY <2>6 DEF FinishTask
  <2>7. CASE SpuriousWake(t)
    BY <2>7 DEF SpuriousWake
  <2> QED
    BY <1>5, <2>1, <2>2, <2>3, <2>4, <2>5, <2>6, <2>7 DEF PoolLoop
<1>6. CASE UNCHANGED vars
  BY <1>6 DEF vars
<1> QED
  BY <1>1, <1>2, <1>3, <1>4, <1>5, <1>6 DEF Next, Main

\* A task in one place is not repeated, so its status is its phase.
LEMMA StatusIsPhase ==
  ASSUME TasksOnce
  PROVE  TaskStatus = [f \in Tasks |-> Phase(f)]
<1>1. \A f \in Tasks : ~Repeated(f)
  BY TasksAssumption DEF Repeated, TasksOnce
<1> QED
  BY <1>1 DEF TaskStatus, StatusOf

\* The same after a step.
LEMMA StatusIsPhaseNext ==
  ASSUME TasksOnce'
  PROVE  TaskStatus' = [f \in Tasks |-> Phase(f)']
<1>1. \A f \in Tasks : ~Repeated(f)'
  BY TasksAssumption DEF Repeated, TasksOnce
<1> QED
  BY <1>1 DEF TaskStatus, StatusOf

\* What the status of a task is, without the order of the cases.
LEMMA StatusCases ==
  ASSUME TypeOK, TasksOnce, NEW f \in Tasks
  PROVE  /\ TaskStatus[f] = "done" <=> f \in done
         /\ TaskStatus[f] = "running" <=> \E t \in Threads : running[t] = f
         /\ TaskStatus[f] = "posted" <=> task = f
         /\ TaskStatus[f] \in {"new", "posted", "running", "done"}
  BY StatusIsPhase, TasksAssumption DEF Phase, TasksOnce, TypeOK

\* A thread that takes a task from the slot is the service's PickUp.
LEMMA TakeIsPickUp ==
  ASSUME TypeOK, TasksOnce, TasksOnce', NEW t \in Threads, running[t] = NoTask,
         TakeTask(t), done' = done
  PROVE  [Service!Next]_TaskStatus
<1>1. CASE task = NoTask
  <2>1. running' = running /\ task' = task
    BY <1>1 DEF TakeTask, TypeOK
  <2> QED
    BY <2>1, StatusIsPhase, StatusIsPhaseNext DEF Phase
<1>2. CASE task # NoTask
  <2>1. task \in Tasks /\ TaskStatus[task] = "posted"
    BY <1>2, StatusCases DEF TypeOK
  <2>2. ASSUME NEW g \in Tasks
        PROVE  (\E u \in Threads : running'[u] = g)
                 <=> g = task \/ \E u \in Threads : running[u] = g
    BY <1>2, TasksAssumption DEF TakeTask, TypeOK
  <2>3. TaskStatus' = [TaskStatus EXCEPT ![task] = "running"]
    <3>1. ASSUME NEW g \in Tasks
          PROVE  Phase(g)' = IF g = task THEN "running" ELSE Phase(g)
      BY <2>2, TasksAssumption DEF Phase, TasksOnce, TakeTask
    <3> QED
      BY <3>1, StatusIsPhase, StatusIsPhaseNext
  <2> QED
    BY <2>1, <2>3 DEF Service!Next, Service!PickUp
<1> QED
  BY <1>1, <1>2

\* Every step of the pool is a step of the service or leaves it alone.
LEMMA ServiceStep == IInv /\ TasksOnce /\ [Next]_vars => [Service!Next]_TaskStatus
<1> SUFFICES ASSUME IInv, TasksOnce, [Next]_vars PROVE [Service!Next]_TaskStatus
  OBVIOUS
<1>0. TypeOK /\ ThreadsConsistent /\ ProducerConsistent /\ TasksOnce'
  BY OnceStep DEF IInv
<1>a. ASSUME UNCHANGED <<done, running, task>> PROVE [Service!Next]_TaskStatus
  BY <1>0, <1>a, StatusIsPhase, StatusIsPhaseNext DEF Phase
<1> USE DEF poolInfo
<1>1. CASE \E f \in Tasks : CallExecTask(f)
  BY <1>1, <1>a DEF CallExecTask
<1>2. CASE WaitTaskIsNone
  BY <1>2, <1>a DEF WaitTaskIsNone
<1>3. CASE PostTask
  <2>1. arg \in Tasks /\ arg # NoTask
    BY <1>0, <1>3 DEF PostTask, TypeOK, ProducerConsistent
  <2>2. \A g \in Tasks : TaskStatus[g] # "posted"
    BY <1>0, <1>3, TasksAssumption, StatusCases DEF PostTask
  <2>3. TaskStatus[arg] = "new"
    BY <1>0, <2>1, <2>2, StatusCases DEF TasksOnce
  <2>4. TaskStatus' = [TaskStatus EXCEPT ![arg] = "posted"]
    <3>1. ASSUME NEW g \in Tasks
          PROVE  Phase(g)' = IF g = arg THEN "posted" ELSE Phase(g)
      BY <1>3, <2>1, TasksAssumption DEF Phase, TasksOnce, PostTask
    <3> QED
      BY <1>0, <3>1, StatusIsPhase, StatusIsPhaseNext
  <2> QED
    BY <2>1, <2>2, <2>3, <2>4 DEF Service!Next, Service!Post
<1>4. CASE SpuriousMainWake
  BY <1>4, <1>a DEF SpuriousMainWake
<1>5. ASSUME NEW t \in Threads,
             PoolLoop(t) \/ IdleTimeout(t) \/ FinishTask(t) \/ SpuriousWake(t)
      PROVE  [Service!Next]_TaskStatus
  <2>1. CASE EnterAndTake(t)
    BY <1>0, <2>1, TakeIsPickUp DEF EnterAndTake, ThreadsConsistent
  <2>2. CASE EnterAndWait(t)
    BY <1>a, <2>2 DEF EnterAndWait
  <2>3. CASE ResumeAndTake(t)
    BY <1>0, <2>3, TakeIsPickUp DEF ResumeAndTake, ThreadsConsistent
  <2>4. CASE ExitIdle(t)
    BY <1>a, <2>4 DEF ExitIdle
  <2>5. CASE IdleTimeout(t)
    BY <1>a, <2>5 DEF IdleTimeout
  <2>6. CASE FinishTask(t)
    <3> DEFINE f == running[t]
    <3>1. f \in Tasks /\ TaskStatus[f] = "running"
      BY <1>0, <2>6, StatusCases DEF FinishTask, TypeOK, ThreadsConsistent
    <3>2. TaskStatus' = [TaskStatus EXCEPT ![f] = "done"]
      <4>1. ASSUME NEW g \in Tasks
            PROVE  (\E u \in Threads : running'[u] = g)
                     <=> g # f /\ \E u \in Threads : running[u] = g
        BY <1>0, <2>6, <3>1, TasksAssumption DEF FinishTask, TypeOK, TasksOnce
      <4>2. ASSUME NEW g \in Tasks
            PROVE  Phase(g)' = IF g = f THEN "done" ELSE Phase(g)
        <5>1. done' = done \cup {f} /\ task' = task
          BY <2>6 DEF FinishTask
        <5> HIDE DEF f
        <5> QED
          BY <4>1, <4>2, <5>1 DEF Phase
      <4> QED
        BY <1>0, <4>2, StatusIsPhase, StatusIsPhaseNext
    <3> QED
      BY <3>1, <3>2 DEF Service!Next, Service!Finish
  <2>7. CASE SpuriousWake(t)
    BY <1>a, <2>7 DEF SpuriousWake
  <2> QED
    BY <1>5, <2>1, <2>2, <2>3, <2>4, <2>5, <2>6, <2>7 DEF PoolLoop
<1>6. CASE UNCHANGED vars
  BY <1>6, <1>a DEF vars
<1> QED
  BY <1>1, <1>2, <1>3, <1>4, <1>5, <1>6 DEF Next, Main

\* The pool implements the task service: whatever threads come, go, time out or
\* fail to start, a task is posted, picked up and run at most once, in order.
THEOREM PoolImplementsService == Spec => ImplementsService
<1>1. Init => IInv /\ TasksOnce
  BY InitIInv, TasksAssumption DEF Init, TasksOnce
<1>2. IInv /\ TasksOnce /\ [Next]_vars => (IInv /\ TasksOnce)'
  BY TypeStep, CountersStep, CoreStep, ConsistencyStep, TakerStep, OnceStep DEF IInv
<1>3. Init => Service!Init
  BY TasksAssumption DEF Init, Service!Init, TaskStatus, StatusOf, Phase, Repeated
<1> QED
  BY <1>1, <1>2, <1>3, ServiceStep, PTL DEF Spec, ImplementsService, Service!Spec
=============================================================================
