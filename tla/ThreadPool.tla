----------------------------- MODULE ThreadPool -----------------------------
(***************************************************************************)
(* ThreadPool of lightMQ's socketx: threads that poll one queue of tasks,  *)
(* an atomic count of the idle threads that callers of submit() look at to *)
(* decide on another thread, and a destructor that joins all threads.      *)
(*                                                                         *)
(* tasks is an squeue, whose mutex makes push, try_pop and empty one step  *)
(* each.  Thread w of worker() is                                          *)
(*   polling   at the head of its loop      trying    about to call try_pop*)
(*   taken     holding a task               running   in the task, counted *)
(*   returned  back from the task, the idle count not yet incremented      *)
(*   ended     out of the loop                                             *)
(***************************************************************************)
EXTENDS Integers, Sequences, FiniteSets

CONSTANTS Tasks,          \* what can be submitted
          NoTask,         \* an empty std::function
          InitialThreads, \* the nums the constructor is called with: the
                          \* default, hardware_concurrency(), may be 0
          MaxThreads,     \* bound: threads ever created
          MaxTasks        \* bound: tasks waiting when another is submitted

ASSUME NoTaskAssumption == NoTask \notin Tasks
ASSUME ThreadsAssumption ==
  /\ MaxThreads \in Nat
  /\ InitialThreads \subseteq 0..MaxThreads
ASSUME MaxTasksAssumption == MaxTasks \in Nat

VARIABLES tasks,
          done,
          thread_num,
          idleThreadNum,
          worker,  \* where each thread is
          task     \* the task each thread holds

vars == <<tasks, done, thread_num, idleThreadNum, worker, task>>

Workers == 1..MaxThreads
Threads == 1..thread_num
Busy == {w \in Threads : worker[w] \in {"running", "returned"}}

-----------------------------------------------------------------------------
Init ==
  /\ tasks = << >>
  /\ done = FALSE
  /\ thread_num \in InitialThreads
  /\ idleThreadNum = thread_num
  /\ worker = [w \in Workers |-> "polling"]
  /\ task = [w \in Workers |-> NoTask]

Submit(f) ==
  /\ tasks' = Append(tasks, f)
  /\ UNCHANGED <<done, thread_num, idleThreadNum, worker, task>>

AddThread ==
  /\ thread_num < MaxThreads
  /\ idleThreadNum' = idleThreadNum + 1
  /\ thread_num' = thread_num + 1
  /\ UNCHANGED <<tasks, done, worker, task>>

CheckDone(w) ==
  /\ worker[w] = "polling"
  /\ worker' = [worker EXCEPT ![w] = IF done THEN "ended" ELSE "trying"]
  /\ UNCHANGED <<tasks, done, thread_num, idleThreadNum, task>>

\* Faulty variant: wait_pop in place of try_pop.
WaitPop(w) ==
  /\ worker[w] = "trying"
  /\ tasks # << >>
  /\ task' = [task EXCEPT ![w] = Head(tasks)]
  /\ tasks' = Tail(tasks)
  /\ worker' = [worker EXCEPT ![w] = "taken"]
  /\ UNCHANGED <<done, thread_num, idleThreadNum>>

TryPop(w) ==
  /\ worker[w] = "trying"
  /\ \/ /\ tasks # << >>
        /\ task' = [task EXCEPT ![w] = Head(tasks)]
        /\ tasks' = Tail(tasks)
        /\ worker' = [worker EXCEPT ![w] = "taken"]
     \/ /\ tasks = << >>
        /\ worker' = [worker EXCEPT ![w] = "polling"]
        /\ UNCHANGED <<tasks, task>>
  /\ UNCHANGED <<done, thread_num, idleThreadNum>>

StartTask(w) ==
  /\ worker[w] = "taken"
  /\ idleThreadNum' = idleThreadNum - 1
  /\ worker' = [worker EXCEPT ![w] = "running"]
  /\ UNCHANGED <<tasks, done, thread_num, task>>

TaskReturns(w) ==
  /\ worker[w] = "running"
  /\ worker' = [worker EXCEPT ![w] = "returned"]
  /\ UNCHANGED <<tasks, done, thread_num, idleThreadNum, task>>

\* Faulty variant: a finished task leaves its thread counted as busy.
FinishTaskUncounted(w) ==
  /\ worker[w] = "returned"
  /\ worker' = [worker EXCEPT ![w] = "polling"]
  /\ task' = [task EXCEPT ![w] = NoTask]
  /\ UNCHANGED <<tasks, done, thread_num, idleThreadNum>>

\* Faulty variant: the thread keeps its task.
FinishTaskHeld(w) ==
  /\ worker[w] = "returned"
  /\ idleThreadNum' = idleThreadNum + 1
  /\ worker' = [worker EXCEPT ![w] = "polling"]
  /\ UNCHANGED <<tasks, done, thread_num, task>>

FinishTask(w) ==
  /\ worker[w] = "returned"
  /\ idleThreadNum' = idleThreadNum + 1
  /\ worker' = [worker EXCEPT ![w] = "polling"]
  /\ task' = [task EXCEPT ![w] = NoTask]
  /\ UNCHANGED <<tasks, done, thread_num>>

\* ~ThreadPool sets done, and then joins every thread.
DestroyBegin ==
  /\ ~done
  /\ done' = TRUE
  /\ UNCHANGED <<tasks, thread_num, idleThreadNum, worker, task>>

\* What a thread of the pool does between two tasks.
WorkerStep(w) ==
  CheckDone(w) \/ TryPop(w) \/ StartTask(w) \/ FinishTask(w)

\* The owner of the pool, who destroys it, calls nothing afterwards.
Owner ==
  /\ ~done
  /\ \/ Len(tasks) < MaxTasks /\ \E f \in Tasks : Submit(f)
     \/ AddThread
     \/ DestroyBegin

Next == Owner \/ \E w \in Threads : WorkerStep(w) \/ TaskReturns(w)

Spec == Init /\ [][Next]_vars

\* The scheduler runs every thread, and every task returns.
Fairness ==
  \A w \in Workers : WF_vars(w \in Threads /\ (WorkerStep(w) \/ TaskReturns(w)))

FairSpec == Spec /\ Fairness

-----------------------------------------------------------------------------
\* The types of the pool's fields and of its threads' positions.
TypeOK ==
  /\ tasks \in Seq(Tasks)
  /\ done \in BOOLEAN
  /\ thread_num \in 0..MaxThreads
  /\ idleThreadNum \in Int
  /\ worker \in [Workers -> {"polling", "trying", "taken", "running",
                             "returned", "ended"}]
  /\ task \in [Workers -> Tasks \cup {NoTask}]
  /\ \A w \in Workers :
       /\ task[w] # NoTask <=> worker[w] \in {"taken", "running", "returned"}
       /\ w \notin Threads => worker[w] = "polling"

\* The atomic count that publish() in PubSub.cpp looks at is the number of
\* threads that are not in a task, with a lag of one step at either end of it,
\* however takes, returns and new threads interleave.
IdleExact == idleThreadNum = thread_num - Cardinality(Busy)

\* ~ThreadPool returns: every thread sees done and ends, also with an empty
\* queue, and with tasks left in it.
DestructorReturns == done ~> \A w \in Threads : worker[w] = "ended"
=============================================================================
