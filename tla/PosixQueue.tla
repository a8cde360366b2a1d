----------------------------- MODULE PosixQueue -----------------------------
(***************************************************************************)
(* PosixQueue<T> of pubsub/MsgQueue.h: a list of items behind one mutex,   *)
(* with a condition variable for threads that wait for room, one for       *)
(* threads that wait for an item, a count of each kind of waiter, and a    *)
(* destructor that aborts the waiters before it frees everything.          *)
(*                                                                         *)
(* The mutex makes the code between two lock/unlock (or lock/wait) points  *)
(* one step, so each action runs a thread from the moment it holds the     *)
(* mutex until it waits on a condition variable or returns.  A thread's pc *)
(*   idle     in no operation                                              *)
(*   lock     called, not yet past pthread_mutex_lock                      *)
(*   wait     asleep in pthread_cond_wait or pthread_cond_timedwait        *)
(*   woken    that wait has ended without a timeout; the mutex is not      *)
(*            reacquired yet, nor the waiting count decremented            *)
(*   expired  the same, after ETIMEDOUT                                    *)
(***************************************************************************)
EXTENDS QueueCalls, FiniteSets

CONSTANTS Capacities,   \* the max_items values the constructor is called with
          Calls,        \* the calls each thread makes, in any order
          MaxBacklog,   \* bound: no enqueue starts at a list this long
          LateCallers   \* may a call be on its way to the mutex when the
                        \* destructor is entered?

ASSUME ThreadsAssumption == IsFiniteSet(Threads)
ASSUME CapacitiesAssumption == Capacities \subseteq Nat
ASSUME CallsAssumption == Calls \in [Threads -> SUBSET AllCalls]
ASSUME MaxBacklogAssumption == MaxBacklog \in Nat
ASSUME LateCallersAssumption == LateCallers \in BOOLEAN

VARIABLES m_maxItems,
          m_items,
          m_pushersWaitingCount,
          m_poppersWaitingCount,
          m_aborting,
          dtor,    \* how far ~PosixQueue has come
          pc, call, ret

vars == <<m_maxItems, m_items, m_pushersWaitingCount, m_poppersWaitingCount,
          m_aborting, dtor, pc, call, ret>>

counts == <<m_pushersWaitingCount, m_poppersWaitingCount>>

-----------------------------------------------------------------------------
Full == m_maxItems # 0 /\ Len(m_items) >= m_maxItems

\* The threads asleep on m_canPushCondition (ops = Pushing) or on
\* m_canPopCondition (ops = Popping), and those the matching count includes.
Asleep(ops) == {t \in Threads : pc[t] = "wait" /\ call[t].op \in ops}
Waiters(ops) ==
  {t \in Threads : pc[t] \in {"wait", "woken", "expired"} /\ call[t].op \in ops}

\* t holds the mutex at the head of its while loop, because it just locked it
\* or because its wait ended with neither a timeout nor an abort.
AtLoop(t) == pc[t] = "lock" \/ (pc[t] = "woken" /\ ~m_aborting)

\* Faulty variant: the decrement after the wait is forgotten.
WaitOverForgotten(t, n) == n

\* The waiting count n once t has decremented it after a wait.
WaitOver(t, n) == IF pc[t] = "lock" THEN n ELSE n - 1

\* t starts a wait: it counts itself in and releases the mutex.
Sleep(t) ==
  /\ pc' = [pc EXCEPT ![t] = "wait"]
  /\ UNCHANGED <<m_maxItems, m_items, m_aborting, dtor, call, ret>>

\* t returns r, after a broadcast that wakes the threads of S.
Return(t, r, S) ==
  /\ pc' = [u \in Threads |-> IF u = t THEN "idle"
                              ELSE IF u \in S THEN "woken" ELSE pc[u]]
  /\ call' = [call EXCEPT ![t] = NoCall]
  /\ ret' = [ret EXCEPT ![t] = r]
  /\ UNCHANGED <<m_maxItems, m_aborting, dtor>>

-----------------------------------------------------------------------------
Init ==
  /\ m_maxItems \in Capacities
  /\ m_items = << >>
  /\ m_pushersWaitingCount = 0
  /\ m_poppersWaitingCount = 0
  /\ m_aborting = FALSE
  /\ dtor = "alive"
  /\ pc = [t \in Threads |-> "idle"]
  /\ call = [t \in Threads |-> NoCall]
  /\ ret = [t \in Threads |-> Failure]

\* A thread calls an operation.  Nobody calls one on a queue whose destructor
\* has been entered.
Enter(t) ==
  /\ dtor = "alive"
  /\ pc[t] = "idle"
  /\ \E c \in Calls[t] :
       /\ c.op = "enqueue" => Len(m_items) < MaxBacklog
       /\ call' = [call EXCEPT ![t] = c]
  /\ pc' = [pc EXCEPT ![t] = "lock"]
  /\ UNCHANGED <<m_maxItems, m_items, counts, m_aborting, dtor, ret>>

EnqueueWait(t) ==
  /\ call[t].op = "enqueue"
  /\ AtLoop(t)
  /\ Full
  /\ m_pushersWaitingCount' = WaitOver(t, m_pushersWaitingCount) + 1
  /\ UNCHANGED m_poppersWaitingCount
  /\ Sleep(t)

\* Faulty variant: a woken pusher pushes without testing the length again (an
\* if where the code has a while).
EnqueuePushUnchecked(t) ==
  /\ call[t].op = "enqueue"
  /\ AtLoop(t)
  /\ pc[t] = "lock" => ~Full
  /\ m_items' = Append(m_items, call[t].item)
  /\ m_pushersWaitingCount' = WaitOver(t, m_pushersWaitingCount)
  /\ UNCHANGED m_poppersWaitingCount
  /\ Return(t, Success(NoItem), Asleep(Popping))

\* Faulty variant: the item pushed is not the caller's.
EnqueuePushNull(t) ==
  /\ call[t].op = "enqueue"
  /\ AtLoop(t)
  /\ ~Full
  /\ m_items' = Append(m_items, NoItem)
  /\ m_pushersWaitingCount' = WaitOver(t, m_pushersWaitingCount)
  /\ UNCHANGED m_poppersWaitingCount
  /\ Return(t, Success(NoItem), Asleep(Popping))

EnqueuePush(t) ==
  /\ call[t].op = "enqueue"
  /\ AtLoop(t)
  /\ ~Full
  /\ m_items' = Append(m_items, call[t].item)
  /\ m_pushersWaitingCount' = WaitOver(t, m_pushersWaitingCount)
  /\ UNCHANGED m_poppersWaitingCount
  /\ Return(t, Success(NoItem),
            IF m_poppersWaitingCount # 0 THEN Asleep(Popping) ELSE {})

\* dequeue and peek wait alike.
PopWait(t) ==
  /\ call[t].op \in Popping
  /\ call[t].timeout # 0
  /\ AtLoop(t)
  /\ m_items = << >>
  /\ m_poppersWaitingCount' = WaitOver(t, m_poppersWaitingCount) + 1
  /\ UNCHANGED m_pushersWaitingCount
  /\ Sleep(t)

\* Faulty variant: pushers are woken only when the list becomes empty by a pop
\* that waited.
DequeuePopQuiet(t) ==
  /\ call[t].op = "dequeue"
  /\ AtLoop(t)
  /\ m_items # << >>
  /\ m_items' = Tail(m_items)
  /\ m_poppersWaitingCount' = WaitOver(t, m_poppersWaitingCount)
  /\ UNCHANGED m_pushersWaitingCount
  /\ Return(t, Success(Head(m_items)),
            IF pc[t] = "woken" THEN Asleep(Pushing) ELSE {})

\* Faulty variant: the newest item is taken, not the oldest.
DequeuePopBack(t) ==
  /\ call[t].op = "dequeue"
  /\ AtLoop(t)
  /\ m_items # << >>
  /\ m_items' = SubSeq(m_items, 1, Len(m_items) - 1)
  /\ m_poppersWaitingCount' = WaitOver(t, m_poppersWaitingCount)
  /\ UNCHANGED m_pushersWaitingCount
  /\ Return(t, Success(m_items[Len(m_items)]), Asleep(Pushing))

DequeuePop(t) ==
  /\ call[t].op = "dequeue"
  /\ AtLoop(t)
  /\ m_items # << >>
  /\ m_items' = Tail(m_items)
  /\ m_poppersWaitingCount' = WaitOver(t, m_poppersWaitingCount)
  /\ UNCHANGED m_pushersWaitingCount
  /\ Return(t, Success(Head(m_items)),
            IF m_maxItems # 0 /\ m_pushersWaitingCount # 0
              THEN Asleep(Pushing) ELSE {})

PeekHead(t) ==
  /\ call[t].op = "peek"
  /\ AtLoop(t)
  /\ m_items # << >>
  /\ m_poppersWaitingCount' = WaitOver(t, m_poppersWaitingCount)
  /\ UNCHANGED <<m_items, m_pushersWaitingCount>>
  /\ Return(t, Success(Head(m_items)), {})

\* dequeue or peek with timeout 0 on an empty list.
PopEmpty(t) ==
  /\ call[t].op \in Popping
  /\ call[t].timeout = 0
  /\ pc[t] = "lock"
  /\ m_items = << >>
  /\ UNCHANGED <<m_items, counts>>
  /\ Return(t, Failure, {})

\* A wait ended with ETIMEDOUT, or with m_aborting set: the loop is left with
\* result -1, and the list is not looked at again.
GiveUp(t) ==
  /\ pc[t] = "expired" \/ (pc[t] = "woken" /\ m_aborting)
  /\ IF call[t].op \in Pushing
       THEN /\ m_pushersWaitingCount' = m_pushersWaitingCount - 1
            /\ UNCHANGED m_poppersWaitingCount
       ELSE /\ m_poppersWaitingCount' = m_poppersWaitingCount - 1
            /\ UNCHANGED m_pushersWaitingCount
  /\ UNCHANGED m_items
  /\ Return(t, Failure, {})

\* Faulty variant: the result of pthread_cond_timedwait is not looked at.
TimeOutIgnored(t) ==
  /\ pc[t] = "wait"
  /\ call[t].timeout # Forever
  /\ pc' = [pc EXCEPT ![t] = "woken"]
  /\ UNCHANGED <<m_maxItems, m_items, counts, m_aborting, dtor, call, ret>>

\* pthread_cond_timedwait reaches its absolute deadline.
TimeOut(t) ==
  /\ pc[t] = "wait"
  /\ call[t].timeout # Forever
  /\ pc' = [pc EXCEPT ![t] = "expired"]
  /\ UNCHANGED <<m_maxItems, m_items, counts, m_aborting, dtor, call, ret>>

\* POSIX lets either wait return with nothing signalled.
SpuriousWakeup(t) ==
  /\ pc[t] = "wait"
  /\ pc' = [pc EXCEPT ![t] = "woken"]
  /\ UNCHANGED <<m_maxItems, m_items, counts, m_aborting, dtor, call, ret>>

\* What t does while it holds the mutex.
Run(t) ==
  \/ EnqueueWait(t) \/ EnqueuePush(t)
  \/ PopWait(t) \/ DequeuePop(t) \/ PeekHead(t) \/ PopEmpty(t)
  \/ GiveUp(t)

-----------------------------------------------------------------------------
\* ~PosixQueue is entered, and with it abort().
DtorEnter ==
  /\ dtor = "alive"
  /\ LateCallers \/ \A t \in Threads : pc[t] # "lock"
  /\ dtor' = "entered"
  /\ UNCHANGED <<m_maxItems, m_items, counts, m_aborting, pc, call, ret>>

\* Faulty variant: abort() waits for the poppers only.
NoPopperCounted == m_poppersWaitingCount = 0

NobodyCounted == m_poppersWaitingCount = 0 /\ m_pushersWaitingCount = 0

\* abort() deletes the items it finds, with the mutex held, once both counts
\* are 0, and then releases the mutex.
DeleteItems ==
  /\ NobodyCounted
  /\ m_items' = << >>
  /\ dtor' = "cleared"

\* Faulty variant: abort() broadcasts m_canPopCondition only.
AbortBeginPoppersOnly ==
  /\ dtor = "entered"
  /\ m_aborting' = TRUE
  /\ pc' = [t \in Threads |-> IF t \in Asleep(Popping) THEN "woken" ELSE pc[t]]
  /\ \/ DeleteItems
     \/ ~NobodyCounted /\ dtor' = "draining" /\ UNCHANGED m_items
  /\ UNCHANGED <<m_maxItems, counts, call, ret>>

\* abort() holds the mutex: it sets m_aborting, broadcasts both conditions, and
\* either finds both counts 0 or starts the loop on its own abort_condition,
\* which nobody signals.
AbortBegin ==
  /\ dtor = "entered"
  /\ m_aborting' = TRUE
  /\ pc' = [t \in Threads |-> IF pc[t] = "wait" THEN "woken" ELSE pc[t]]
  /\ \/ DeleteItems
     \/ ~NobodyCounted /\ dtor' = "draining" /\ UNCHANGED m_items
  /\ UNCHANGED <<m_maxItems, counts, call, ret>>

\* The loop of timed waits (20 ms, then every time it gets the mutex) ends.
AbortDrained ==
  /\ dtor = "draining"
  /\ DeleteItems
  /\ UNCHANGED <<m_maxItems, counts, m_aborting, pc, call, ret>>

\* pthread_cond_destroy, twice, and pthread_mutex_destroy.
Destroy ==
  /\ dtor = "cleared"
  /\ dtor' = "destroyed"
  /\ UNCHANGED <<m_maxItems, m_items, counts, m_aborting, pc, call, ret>>

Dtor == AbortBegin \/ AbortDrained \/ Destroy

\* A thread step on a destroyed mutex or condition is undefined: none follows.
Next ==
  \/ /\ dtor # "destroyed"
     /\ \E t \in Threads : Enter(t) \/ Run(t) \/ TimeOut(t) \/ SpuriousWakeup(t)
  \/ DtorEnter \/ Dtor

Spec == Init /\ [][Next]_vars

\* Every thread that wants the mutex gets it and the destructor goes on.  The
\* deadline of a timed wait is absolute and computed once per call, so a call
\* that goes back to sleep again and again still reaches it.
Fairness ==
  /\ \A t \in Threads : /\ WF_vars(dtor # "destroyed" /\ Run(t))
                        /\ SF_vars(dtor # "destroyed" /\ TimeOut(t))
  /\ WF_vars(Dtor)

FairSpec == Spec /\ Fairness

-----------------------------------------------------------------------------
\* The types of the fields, of the destructor's progress and of the calls.
TypeOK ==
  /\ m_maxItems \in Nat
  /\ m_items \in Seq(Items)
  /\ m_pushersWaitingCount \in Int
  /\ m_poppersWaitingCount \in Int
  /\ m_aborting \in BOOLEAN
  /\ dtor \in {"alive", "entered", "draining", "cleared", "destroyed"}
  /\ pc \in [Threads -> {"idle", "lock", "wait", "woken", "expired"}]
  /\ call \in [Threads -> AllCalls \cup {NoCall}]
  /\ ret \in [Threads -> Results]
  /\ \A t \in Threads : pc[t] = "idle" <=> call[t] = NoCall

\* The two counters that decide whether a push or a pop broadcasts at all, and
\* whether abort() may free the queue, count the waiting threads exactly,
\* however wakeups, timeouts and aborts interleave.
WaitersCounted ==
  /\ m_pushersWaitingCount = Cardinality(Waiters(Pushing))
  /\ m_poppersWaitingCount = Cardinality(Waiters(Popping))

\* No wakeup is lost: no thread sleeps waiting for an item while there is one,
\* nor for room while there is room; so producers and consumers never all
\* sleep.  (enqueue and dequeue skip the broadcast when the count is 0.)
NoLostWakeup ==
  /\ Asleep(Popping) # {} => m_items = << >>
  /\ Asleep(Pushing) # {} => Full

\* The list never outgrows m_maxItems, although a woken pusher competes for
\* the room with pushers that never waited.
WithinCapacity == m_maxItems # 0 => Len(m_items) <= m_maxItems

\* When the mutex and the conditions are destroyed no thread is inside an
\* operation: the counts abort() waits on cover every thread that the queue
\* made wait (MsgQueue.h:209-215), if no call was still on its way in.
DestroyedQuiet == dtor = "destroyed" => \A t \in Threads : pc[t] = "idle"

\* abort() makes the other threads exit: none sleeps once m_aborting is set,
\* as MsgQueue.h:202 has it ("tell other threads that they should exit
\* immediately").  A call that gets the mutex after abort() breaks this.
AbortedNobodySleeps == m_aborting => Asleep(Pushing \cup Popping) = {}

\* Every call is one atomic operation of a bounded FIFO queue.
FIFO == INSTANCE BoundedFIFO
          WITH capacity <- m_maxItems, contents <- m_items, closing <- m_aborting
ImplementsFIFO == FIFO!Spec

\* A call that gives a timeout returns: neither broadcasts that send it back to
\* sleep nor a running abort() can hold it for ever.
TimedCallReturns ==
  \A t \in Threads :
    (pc[t] # "idle" /\ call[t].timeout # Forever) ~> (pc[t] = "idle")

\* The destructor finishes: abort's wait on a condition nobody signals ends
\* because every counted waiter leaves.
DtorFinishes == dtor = "entered" ~> dtor = "destroyed"
=============================================================================
