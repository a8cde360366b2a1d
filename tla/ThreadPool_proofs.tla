-------------------------- MODULE ThreadPool_proofs -------------------------
(***************************************************************************)
(* The idle count of ThreadPool is exact, for every number of threads and  *)
(* every set of tasks.                                                     *)
(***************************************************************************)
EXTENDS ThreadPool, FiniteSetTheorems, TLAPS

\* A queue that is not empty has a first task, and a rest.
LEMMA QueueFacts ==
  ASSUME NEW s \in Seq(Tasks), s # << >>
  PROVE  Head(s) \in Tasks /\ Tail(s) \in Seq(Tasks)
OBVIOUS

\* Every step keeps the types.
LEMMA TypeStep == TypeOK /\ [Next]_vars => TypeOK'
<1> SUFFICES ASSUME TypeOK, [Next]_vars PROVE TypeOK'
  OBVIOUS
<1> USE NoTaskAssumption, ThreadsAssumption
<1>1. ASSUME NEW f \in Tasks, Submit(f) PROVE TypeOK'
  BY <1>1 DEF Submit, TypeOK, Threads, Workers
<1>2. CASE AddThread
  BY <1>2 DEF AddThread, TypeOK, Threads, Workers
<1>3. CASE DestroyBegin
  BY <1>3 DEF DestroyBegin, TypeOK, Threads, Workers
<1>4. ASSUME NEW w \in Threads, WorkerStep(w) \/ TaskReturns(w) PROVE TypeOK'
  <2>1. w \in Workers
    BY DEF Threads, Workers, TypeOK
  <2>2. CASE CheckDone(w)
    BY <2>1, <2>2 DEF CheckDone, TypeOK, Threads
  <2>3. CASE TryPop(w)
    BY <2>1, <2>3, QueueFacts DEF TryPop, TypeOK, Threads
  <2>4. CASE StartTask(w)
    BY <2>1, <2>4 DEF StartTask, TypeOK, Threads
  <2>5. CASE FinishTask(w)
    BY <2>1, <2>5 DEF FinishTask, TypeOK, Threads
  <2>6. CASE TaskReturns(w)
    BY <2>1, <2>6 DEF TaskReturns, TypeOK, Threads
  <2> QED
    BY <1>4, <2>2, <2>3, <2>4, <2>5, <2>6 DEF WorkerStep
<1>5. CASE UNCHANGED vars
  BY <1>5 DEF vars, TypeOK, Threads, Workers
<1> QED
  BY <1>1, <1>2, <1>3, <1>4, <1>5 DEF Next, Owner

\* The pool's fields and its threads' positions have their types.
THEOREM TypeCorrect == Spec => []TypeOK
<1>1. Init => TypeOK
  <2> SUFFICES ASSUME Init PROVE TypeOK
    OBVIOUS
  <2>1. thread_num \in 0..MaxThreads /\ idleThreadNum \in Int
    BY ThreadsAssumption DEF Init
  <2>2. /\ worker = [w \in Workers |-> "polling"]
        /\ task = [w \in Workers |-> NoTask]
    BY DEF Init
  <2>4. tasks \in Seq(Tasks) /\ done \in BOOLEAN
    <3>1. << >> \in Seq(Tasks)
      OBVIOUS
    <3> QED
      BY <3>1 DEF Init
  <2>3. \A w \in Workers : worker[w] = "polling" /\ task[w] = NoTask
    BY <2>2
  <2> QED
    BY <2>1, <2>2, <2>3, <2>4, NoTaskAssumption DEF TypeOK
<1> QED
  BY <1>1, TypeStep, PTL DEF Spec

-----------------------------------------------------------------------------
\* The busy threads are finitely many.
LEMMA BusyFinite == TypeOK => IsFiniteSet(Busy) /\ Cardinality(Busy) \in Nat
<1> SUFFICES ASSUME TypeOK PROVE IsFiniteSet(Busy)
  BY FS_CardinalityType
<1>1. thread_num \in Int /\ IsFiniteSet(1..thread_num)
  BY FS_Interval DEF TypeOK
<1> QED
  BY <1>1, FS_Subset DEF Busy, Threads

\* A step that leaves the busy threads and both counts alone keeps the count.
LEMMA CountUnmoved ==
  ASSUME IdleExact, Busy' = Busy, UNCHANGED <<thread_num, idleThreadNum>>
  PROVE  IdleExact'
BY DEF IdleExact

\* Every step keeps the count exact.
LEMMA IdleStep == TypeOK /\ IdleExact /\ [Next]_vars => IdleExact'
<1> SUFFICES ASSUME TypeOK, IdleExact, [Next]_vars PROVE IdleExact'
  OBVIOUS
<1> USE DEF TypeOK
<1>1. ASSUME NEW f \in Tasks, Submit(f) PROVE IdleExact'
  <2>1. Busy' = Busy
    BY <1>1 DEF Submit, Busy, Threads
  <2> QED
    BY <1>1, <2>1, CountUnmoved DEF Submit
<1>2. CASE AddThread
  <2>1. Busy' = Busy
    <3>1. worker[thread_num + 1] = "polling"
      BY <1>2, ThreadsAssumption DEF AddThread, Threads, Workers
    <3>2. Threads' = Threads \cup {thread_num + 1}
      BY <1>2 DEF AddThread, Threads
    <3> QED
      BY <1>2, <3>1, <3>2 DEF AddThread, Busy
  <2> QED
    BY <1>2, <2>1, BusyFinite DEF AddThread, IdleExact
<1>3. CASE DestroyBegin
  <2>1. Busy' = Busy
    BY <1>3 DEF DestroyBegin, Busy, Threads
  <2> QED
    BY <1>3, <2>1, CountUnmoved DEF DestroyBegin
<1>4. ASSUME NEW w \in Threads, WorkerStep(w) \/ TaskReturns(w) PROVE IdleExact'
  <2>1. w \in Workers
    BY ThreadsAssumption DEF Threads, Workers
  <2>2. CASE CheckDone(w)
    <3>1. Busy' = Busy
      BY <2>1, <2>2 DEF CheckDone, Busy, Threads
    <3> QED
      BY <2>2, <3>1, CountUnmoved DEF CheckDone
  <2>3. CASE TryPop(w)
    <3>1. \/ worker' = [worker EXCEPT ![w] = "taken"]
          \/ worker' = [worker EXCEPT ![w] = "polling"]
      BY <2>3 DEF TryPop
    <3>2. worker[w] = "trying" /\ thread_num' = thread_num
      BY <2>3 DEF TryPop
    <3>3. \A u \in Threads : worker'[u] = worker[u] \/ u = w
      BY <2>1, <3>1, ThreadsAssumption DEF Threads, Workers
    <3>4. w \notin Busy /\ worker'[w] \notin {"running", "returned"}
      BY <2>1, <3>1, <3>2 DEF Busy
    <3>5. Busy' = Busy
      BY <3>2, <3>3, <3>4 DEF Busy, Threads
    <3> QED
      BY <2>3, <3>5, CountUnmoved DEF TryPop
  <2>4. CASE StartTask(w)
    <3>1. w \notin Busy /\ Busy' = Busy \cup {w}
      BY <2>1, <2>4 DEF StartTask, Busy, Threads
    <3>2. Cardinality(Busy') = Cardinality(Busy) + 1
      BY <3>1, BusyFinite, FS_AddElement
    <3> QED
      BY <2>4, <3>2, BusyFinite DEF StartTask, IdleExact
  <2>5. CASE FinishTask(w)
    <3>1. w \in Busy /\ Busy' = Busy \ {w}
      BY <2>1, <2>5 DEF FinishTask, Busy, Threads
    <3>2. Cardinality(Busy') = Cardinality(Busy) - 1
      BY <3>1, BusyFinite, FS_RemoveElement
    <3> QED
      BY <2>5, <3>2, BusyFinite DEF FinishTask, IdleExact
  <2>6. CASE TaskReturns(w)
    <3>1. Busy' = Busy
      BY <2>1, <2>6 DEF TaskReturns, Busy, Threads
    <3> QED
      BY <2>6, <3>1, CountUnmoved DEF TaskReturns
  <2> QED
    BY <1>4, <2>2, <2>3, <2>4, <2>5, <2>6 DEF WorkerStep
<1>5. CASE UNCHANGED vars
  <2>1. Busy' = Busy
    BY <1>5 DEF vars, Busy, Threads
  <2> QED
    BY <1>5, <2>1, CountUnmoved DEF vars
<1> QED
  BY <1>1, <1>2, <1>3, <1>4, <1>5 DEF Next, Owner

\* The count that publish() reads is the number of threads without a task.
THEOREM IdleCount == Spec => []IdleExact
<1>1. Init => IdleExact
  <2> SUFFICES ASSUME Init PROVE IdleExact
    OBVIOUS
  <2>1. Busy = {}
    BY ThreadsAssumption DEF Init, Busy, Threads, Workers
  <2>2. thread_num \in Int
    BY ThreadsAssumption DEF Init
  <2> QED
    BY <2>1, <2>2, FS_EmptySet DEF Init, IdleExact
<1> QED
  BY <1>1, IdleStep, TypeCorrect, PTL DEF Spec
=============================================================================
