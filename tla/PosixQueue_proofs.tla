-------------------------- MODULE PosixQueue_proofs -------------------------
(***************************************************************************)
(* The safety properties of PosixQueue and its refinement of BoundedFIFO,  *)
(* for every set of threads, capacity, set of calls and backlog.           *)
(***************************************************************************)
EXTENDS PosixQueue, FiniteSetTheorems, TLAPS

Ops == Pushing \cup Popping
Pcs == {"idle", "lock", "wait", "woken", "expired"}

\* The call records: a call is not NoCall, its operation pushes or pops, and a
\* pushing call carries an item.
LEMMA CallFacts ==
  /\ \A c \in AllCalls : /\ c # NoCall
                         /\ c.op \in Ops
                         /\ c.op \in Pushing => c.item \in Items
  /\ NoCall.op \notin Ops
BY DEF AllCalls, NoCall, Ops, Pushing, Popping

\* The two kinds of operation are disjoint and are what their names say.
LEMMA OpFacts ==
  /\ Pushing = {"enqueue"} /\ Popping = {"dequeue", "peek"}
  /\ Pushing \cap Popping = {}
BY DEF Pushing, Popping

\* The results the operations return.
LEMMA ResultFacts ==
  /\ Failure \in Results
  /\ \A i \in Items \cup {NoItem} : Success(i) \in Results
BY DEF Failure, Success, Results

\* A thread that has been called is in a real call, and only such a thread runs.
LEMMA InCall ==
  ASSUME TypeOK, NEW t \in Threads, pc[t] # "idle"
  PROVE  call[t] \in AllCalls
BY DEF TypeOK

\* What Return does to the typed variables, whoever it wakes.
LEMMA ReturnTypes ==
  ASSUME TypeOK, NEW t \in Threads, NEW r \in Results,
         NEW S \in SUBSET (Asleep(Pushing) \cup Asleep(Popping)),
         Return(t, r, S)
  PROVE  /\ pc' \in [Threads -> Pcs]
         /\ call' \in [Threads -> AllCalls \cup {NoCall}]
         /\ ret' \in [Threads -> Results]
         /\ \A u \in Threads : pc'[u] = "idle" <=> call'[u] = NoCall
         /\ UNCHANGED <<m_maxItems, m_aborting, dtor>>
<1>1. \A u \in S : u \in Threads /\ pc[u] = "wait"
  BY DEF Asleep
<1>2. \A u \in Threads \ {t} : pc'[u] = "idle" <=> pc[u] = "idle"
  BY <1>1 DEF Return, TypeOK
<1>3. \A u \in Threads \ {t} : call'[u] = call[u]
  BY DEF Return, TypeOK
<1>4. pc'[t] = "idle" /\ call'[t] = NoCall
  BY DEF Return, TypeOK
<1>5. \A u \in Threads : pc'[u] = "idle" <=> call'[u] = NoCall
  BY <1>2, <1>3, <1>4 DEF TypeOK
<1> QED
  BY <1>5 DEF Return, TypeOK, Pcs

\* What Sleep does to the typed variables.
LEMMA SleepTypes ==
  ASSUME TypeOK, NEW t \in Threads, pc[t] # "idle", Sleep(t)
  PROVE  /\ pc' \in [Threads -> Pcs]
         /\ \A u \in Threads : pc'[u] = "idle" <=> call'[u] = NoCall
         /\ UNCHANGED <<m_maxItems, m_items, m_aborting, dtor, call, ret>>
BY DEF Sleep, TypeOK, Pcs

\* The empty list is a list of items.
LEMMA EmptyList == << >> \in Seq(Items)
OBVIOUS

\* The head of a non-empty list is an item, and its tail a list.
LEMMA ListFacts ==
  ASSUME NEW s \in Seq(Items), s # << >>
  PROVE  /\ Head(s) \in Items
         /\ Tail(s) \in Seq(Items)
         /\ Len(Tail(s)) = Len(s) - 1
OBVIOUS

-----------------------------------------------------------------------------
\* Every step keeps the types.
LEMMA TypeStep == TypeOK /\ [Next]_vars => TypeOK'
<1> SUFFICES ASSUME TypeOK, [Next]_vars PROVE TypeOK'
  OBVIOUS
<1>1. ASSUME NEW t \in Threads, Enter(t) PROVE TypeOK'
  <2>1. PICK c \in Calls[t] : call' = [call EXCEPT ![t] = c]
    BY <1>1 DEF Enter
  <2>2. c \in AllCalls /\ c # NoCall
    BY <2>1, CallsAssumption, CallFacts
  <2> QED
    BY <1>1, <2>1, <2>2 DEF Enter, counts, TypeOK
<1>2. ASSUME NEW t \in Threads, Run(t) PROVE TypeOK'
  <2>1. pc[t] # "idle" /\ call[t] \in AllCalls
    BY <1>2, InCall, CallFacts, OpFacts
    DEF Run, EnqueueWait, EnqueuePush, PopWait, DequeuePop, PeekHead, PopEmpty, GiveUp, AtLoop, TypeOK
  <2>2. WaitOver(t, m_pushersWaitingCount) \in Int
        /\ WaitOver(t, m_poppersWaitingCount) \in Int
    BY DEF WaitOver, TypeOK
  <2>3. CASE EnqueueWait(t)
    <3>1. m_pushersWaitingCount' \in Int /\ m_poppersWaitingCount' \in Int
      BY <2>2, <2>3 DEF EnqueueWait, TypeOK
    <3>2. Sleep(t)
      BY <2>3 DEF EnqueueWait
    <3> QED
      BY <2>1, <3>1, <3>2, SleepTypes DEF TypeOK, Pcs
  <2>4. CASE EnqueuePush(t)
    <3>1. m_items' \in Seq(Items)
      BY <2>1, <2>4, CallFacts, OpFacts DEF EnqueuePush, TypeOK
    <3> QED
      BY <2>2, <2>4, <3>1, ReturnTypes, ResultFacts DEF EnqueuePush, TypeOK, Pcs
  <2>5. CASE PopWait(t)
    <3>1. m_pushersWaitingCount' \in Int /\ m_poppersWaitingCount' \in Int
      BY <2>2, <2>5 DEF PopWait, TypeOK
    <3>2. Sleep(t)
      BY <2>5 DEF PopWait
    <3> QED
      BY <2>1, <3>1, <3>2, SleepTypes DEF TypeOK, Pcs
  <2>6. CASE DequeuePop(t)
    <3>1. m_items' \in Seq(Items) /\ Success(Head(m_items)) \in Results
      BY <2>6, ListFacts, ResultFacts DEF DequeuePop, TypeOK
    <3> QED
      BY <2>2, <2>6, <3>1, ReturnTypes DEF DequeuePop, TypeOK, Pcs
  <2>7. CASE PeekHead(t)
    <3>1. Success(Head(m_items)) \in Results
      BY <2>7, ListFacts, ResultFacts DEF PeekHead, TypeOK
    <3> QED
      BY <2>2, <2>7, <3>1, ReturnTypes DEF PeekHead, TypeOK, Pcs
  <2>8. CASE PopEmpty(t)
    BY <2>8, ReturnTypes, ResultFacts DEF PopEmpty, counts, TypeOK, Pcs
  <2>9. CASE GiveUp(t)
    <3>1. m_pushersWaitingCount' \in Int /\ m_poppersWaitingCount' \in Int
      BY <2>9 DEF GiveUp, TypeOK
    <3> QED
      BY <2>9, <3>1, ReturnTypes, ResultFacts DEF GiveUp, TypeOK, Pcs
  <2> QED
    BY <1>2, <2>3, <2>4, <2>5, <2>6, <2>7, <2>8, <2>9 DEF Run
<1>3. ASSUME NEW t \in Threads, TimeOut(t) \/ SpuriousWakeup(t) PROVE TypeOK'
  BY <1>3 DEF TimeOut, SpuriousWakeup, counts, TypeOK
<1>4. CASE DtorEnter
  BY <1>4 DEF DtorEnter, counts, TypeOK
<1>5. CASE AbortBegin
  <2>1. pc' \in [Threads -> Pcs] /\ \A u \in Threads : pc'[u] = "idle" <=> pc[u] = "idle"
    BY <1>5 DEF AbortBegin, TypeOK, Pcs
  <2>2. m_items' \in {m_items, << >>} /\ dtor' \in {"draining", "cleared"}
    BY <1>5 DEF AbortBegin, DeleteItems
  <2>3. /\ m_aborting' \in BOOLEAN
        /\ m_maxItems' = m_maxItems /\ call' = call /\ ret' = ret
        /\ m_pushersWaitingCount' = m_pushersWaitingCount
        /\ m_poppersWaitingCount' = m_poppersWaitingCount
    BY <1>5 DEF AbortBegin, counts
  <2> QED
    BY <2>1, <2>2, <2>3, EmptyList DEF TypeOK, Pcs
<1>6. CASE AbortDrained
  BY <1>6 DEF AbortDrained, DeleteItems, counts, TypeOK
<1>7. CASE Destroy
  BY <1>7 DEF Destroy, counts, TypeOK
<1>8. CASE UNCHANGED vars
  BY <1>8 DEF vars, TypeOK
<1> QED
  BY <1>1, <1>2, <1>3, <1>4, <1>5, <1>6, <1>7, <1>8 DEF Next, Dtor

\* The initial values have their types.
LEMMA TypeInit == ASSUME Init PROVE TypeOK
<1>1. m_maxItems \in Nat /\ m_items \in Seq(Items) /\ ret \in [Threads -> Results]
  BY CapacitiesAssumption, EmptyList, ResultFacts DEF Init
<1>2. \A t \in Threads : pc[t] = "idle" <=> call[t] = NoCall
  BY DEF Init
<1>3. pc \in [Threads -> Pcs] /\ call \in [Threads -> AllCalls \cup {NoCall}]
  BY DEF Init, Pcs
<1>4. m_pushersWaitingCount \in Int /\ m_poppersWaitingCount \in Int
  BY DEF Init
<1>5. m_aborting \in BOOLEAN
  BY Zenon DEF Init
<1>6. dtor \in {"alive", "entered", "draining", "cleared", "destroyed"}
  BY DEF Init
<1> QED
  BY <1>1, <1>2, <1>3, <1>4, <1>5, <1>6 DEF TypeOK, Pcs

\* TypeOK is inductive on its own: the fields, the destructor's progress and
\* the calls keep their types, and a thread is idle iff it is in no call.
THEOREM TypeCorrect == Spec => []TypeOK
BY TypeInit, TypeStep, PTL DEF Spec

-----------------------------------------------------------------------------
\* How far the destructor has come bounds what the threads can be doing.
DtorProgress ==
  /\ m_aborting <=> dtor \in {"draining", "cleared", "destroyed"}
  /\ ~LateCallers =>
       /\ dtor # "alive" => \A t \in Threads : pc[t] # "lock"
       /\ m_aborting => \A t \in Threads : pc[t] # "wait"
       /\ dtor \in {"cleared", "destroyed"} => \A t \in Threads : pc[t] = "idle"

\* A call waits, and a wait expires, only if its timeout allows it.
WaitsAllowed ==
  \A t \in Threads :
    /\ pc[t] \in {"wait", "woken", "expired"} /\ call[t].op \in Popping
         => call[t].timeout # 0
    /\ pc[t] = "expired" => call[t].timeout # Forever

\* The inductive invariant.  NoLostWakeup needs WaitersCounted (a broadcast is
\* skipped only when the count says that nobody waits); WithinCapacity needs
\* nothing else; the destructor's part needs WaitersCounted (abort() looks at
\* the counts, not at the threads).
IInv ==
  /\ TypeOK
  /\ WaitersCounted
  /\ NoLostWakeup
  /\ WithinCapacity
  /\ DtorProgress
  /\ WaitsAllowed

Sides == {Pushing, Popping}

\* The waiters of one kind are finitely many, and joining or leaving them
\* changes their number by one.
LEMMA Counting ==
  ASSUME NEW ops \in Sides, NEW t \in Threads
  PROVE  LET W == Waiters(ops)
         IN  /\ Cardinality(W) \in Nat
             /\ Cardinality(W) = 0 <=> W = {}
             /\ t \in W => Cardinality(W \ {t}) = Cardinality(W) - 1
             /\ t \notin W => W \ {t} = W
             /\ Cardinality(W \cup {t}) = Cardinality(W \ {t}) + 1
<1> DEFINE W == Waiters(ops)
<1>1. W \in SUBSET Threads /\ IsFiniteSet(W)
  BY ThreadsAssumption, FS_Subset DEF Waiters
<1>2. IsFiniteSet(W \ {t})
  BY <1>1, FS_Subset
<1>3. Cardinality(W) \in Nat /\ (Cardinality(W) = 0 <=> W = {})
  BY <1>1, FS_CardinalityType, FS_EmptySet
<1>4. t \in W => Cardinality(W \ {t}) = Cardinality(W) - 1
  BY <1>1, FS_RemoveElement
<1>5. t \notin W => W \ {t} = W
  OBVIOUS
<1>6. Cardinality((W \ {t}) \cup {t}) = Cardinality(W \ {t}) + 1
  BY <1>2, FS_AddElement
<1>7. (W \ {t}) \cup {t} = W \cup {t}
  OBVIOUS
<1> QED
  BY <1>3, <1>4, <1>5, <1>6, <1>7

\* A returning thread leaves the waiters; the ones it wakes stay among them
\* until they run.
LEMMA ReturnWaiters ==
  ASSUME TypeOK, NEW t \in Threads, NEW r, NEW ops \in Sides,
         NEW S \in SUBSET (Asleep(Pushing) \cup Asleep(Popping)),
         Return(t, r, S)
  PROVE  Waiters(ops)' = Waiters(ops) \ {t}
<1>1. \A u \in S : u \in Threads /\ pc[u] = "wait"
  BY DEF Asleep
<1>2. ASSUME NEW u \in Threads, u # t
      PROVE  u \in Waiters(ops)' <=> u \in Waiters(ops)
  <2>1. call'[u] = call[u]
    BY <1>2 DEF Return, TypeOK
  <2>2. pc'[u] = pc[u] \/ (pc[u] = "wait" /\ pc'[u] = "woken")
    BY <1>1, <1>2 DEF Return, TypeOK
  <2> QED
    BY <2>1, <2>2 DEF Waiters
<1>3. t \notin Waiters(ops)'
  BY DEF Return, Waiters, TypeOK
<1>4. Waiters(ops) \subseteq Threads /\ Waiters(ops)' \subseteq Threads
  BY DEF Waiters
<1> QED
  BY <1>2, <1>3, <1>4

\* A thread that goes to sleep joins the waiters of its own kind.
LEMMA SleepWaiters ==
  ASSUME TypeOK, NEW t \in Threads, Sleep(t), NEW ops \in Sides
  PROVE  /\ call[t].op \in ops => Waiters(ops)' = Waiters(ops) \cup {t}
         /\ call[t].op \notin ops => Waiters(ops)' = Waiters(ops)
BY DEF Sleep, Waiters, TypeOK

\* A thread at its loop has, once it has decremented, counted the others.
LEMMA OthersCounted ==
  ASSUME TypeOK, NEW t \in Threads, AtLoop(t), NEW ops \in Sides, call[t].op \in ops
  PROVE  WaitOver(t, Cardinality(Waiters(ops))) = Cardinality(Waiters(ops) \ {t})
<1>1. CASE pc[t] = "lock"
  <2>1. t \notin Waiters(ops)
    BY <1>1 DEF Waiters
  <2> QED
    BY <1>1, <2>1, Counting DEF WaitOver
<1>2. CASE pc[t] = "woken"
  <2>1. t \in Waiters(ops)
    BY <1>2 DEF Waiters
  <2> QED
    BY <1>2, <2>1, Counting DEF WaitOver
<1> QED
  BY <1>1, <1>2 DEF AtLoop

\* A thread of one kind is no waiter of the other.
LEMMA OtherSide ==
  ASSUME NEW t \in Threads
  PROVE  /\ call[t].op \in Pushing => Waiters(Popping) \ {t} = Waiters(Popping)
         /\ call[t].op \in Popping => Waiters(Pushing) \ {t} = Waiters(Pushing)
BY OpFacts DEF Waiters

-----------------------------------------------------------------------------
\* The counts stay exact: whatever a step does to a count, it does to the set
\* of waiting threads.
LEMMA CountsStep == TypeOK /\ WaitersCounted /\ [Next]_vars => WaitersCounted'
<1> SUFFICES ASSUME TypeOK, WaitersCounted, [Next]_vars PROVE WaitersCounted'
  OBVIOUS
<1> USE DEF Sides
<1>1. ASSUME Waiters(Pushing)' = Waiters(Pushing),
             Waiters(Popping)' = Waiters(Popping),
             UNCHANGED counts
      PROVE  WaitersCounted'
  BY <1>1 DEF WaitersCounted, counts
<1>2. ASSUME NEW t \in Threads, Enter(t) PROVE WaitersCounted'
  <2>1. \A u \in Threads \ {t} : pc'[u] = pc[u] /\ call'[u] = call[u]
    BY <1>2 DEF Enter, TypeOK
  <2>2. pc[t] = "idle" /\ pc'[t] = "lock"
    BY <1>2 DEF Enter, TypeOK
  <2>3. \A ops \in Sides : Waiters(ops)' = Waiters(ops)
    BY <2>1, <2>2 DEF Waiters
  <2> QED
    BY <1>1, <1>2, <2>3 DEF Enter
<1>3. ASSUME NEW t \in Threads, EnqueueWait(t) \/ PopWait(t) PROVE WaitersCounted'
  <2>1. Sleep(t) /\ AtLoop(t)
    BY <1>3 DEF EnqueueWait, PopWait
  <2>2. CASE EnqueueWait(t)
    <3>1. call[t].op \in Pushing /\ call[t].op \notin Popping
      BY <2>2, OpFacts DEF EnqueueWait
    <3>2. Waiters(Pushing)' = Waiters(Pushing) \cup {t} /\ Waiters(Popping)' = Waiters(Popping)
      BY <2>1, <3>1, SleepWaiters
    <3>3. m_pushersWaitingCount' = Cardinality(Waiters(Pushing) \ {t}) + 1
      BY <2>1, <2>2, <3>1, OthersCounted DEF EnqueueWait, WaitersCounted
    <3>4. m_poppersWaitingCount' = m_poppersWaitingCount
      BY <2>2 DEF EnqueueWait
    <3> QED
      BY <3>2, <3>3, <3>4, Counting DEF WaitersCounted
  <2>3. CASE PopWait(t)
    <3>1. call[t].op \in Popping /\ call[t].op \notin Pushing
      BY <2>3, OpFacts DEF PopWait
    <3>2. Waiters(Popping)' = Waiters(Popping) \cup {t} /\ Waiters(Pushing)' = Waiters(Pushing)
      BY <2>1, <3>1, SleepWaiters
    <3>3. m_poppersWaitingCount' = Cardinality(Waiters(Popping) \ {t}) + 1
      BY <2>1, <2>3, <3>1, OthersCounted DEF PopWait, WaitersCounted
    <3>4. m_pushersWaitingCount' = m_pushersWaitingCount
      BY <2>3 DEF PopWait
    <3> QED
      BY <3>2, <3>3, <3>4, Counting DEF WaitersCounted
  <2> QED
    BY <1>3, <2>2, <2>3
<1>4. ASSUME NEW t \in Threads, EnqueuePush(t) PROVE WaitersCounted'
  <2>1. Waiters(Pushing)' = Waiters(Pushing) \ {t} /\ Waiters(Popping)' = Waiters(Popping) \ {t}
    BY <1>4, ReturnWaiters DEF EnqueuePush
  <2>2. call[t].op \in Pushing
    BY <1>4, OpFacts DEF EnqueuePush
  <2>3. m_pushersWaitingCount' = Cardinality(Waiters(Pushing) \ {t})
    BY <1>4, <2>2, OthersCounted DEF EnqueuePush, WaitersCounted
  <2>4. m_poppersWaitingCount' = m_poppersWaitingCount
    BY <1>4 DEF EnqueuePush
  <2> QED
    BY <2>1, <2>2, <2>3, <2>4, OtherSide DEF WaitersCounted
<1>5. ASSUME NEW t \in Threads, DequeuePop(t) \/ PeekHead(t) PROVE WaitersCounted'
  <2>1. Waiters(Pushing)' = Waiters(Pushing) \ {t} /\ Waiters(Popping)' = Waiters(Popping) \ {t}
    BY <1>5, ReturnWaiters DEF DequeuePop, PeekHead
  <2>2. call[t].op \in Popping /\ AtLoop(t)
    BY <1>5, OpFacts DEF DequeuePop, PeekHead
  <2>3. m_poppersWaitingCount' = WaitOver(t, m_poppersWaitingCount)
        /\ m_pushersWaitingCount' = m_pushersWaitingCount
    BY <1>5 DEF DequeuePop, PeekHead
  <2>4. m_poppersWaitingCount' = Cardinality(Waiters(Popping) \ {t})
    BY <2>2, <2>3, OthersCounted DEF WaitersCounted
  <2> QED
    BY <2>1, <2>2, <2>3, <2>4, OtherSide DEF WaitersCounted
<1>6. ASSUME NEW t \in Threads, PopEmpty(t) PROVE WaitersCounted'
  <2>1. Waiters(Pushing)' = Waiters(Pushing) \ {t} /\ Waiters(Popping)' = Waiters(Popping) \ {t}
    BY <1>6, ReturnWaiters DEF PopEmpty
  <2>2. t \notin Waiters(Pushing) /\ t \notin Waiters(Popping)
    BY <1>6 DEF PopEmpty, Waiters
  <2> QED
    BY <1>1, <1>6, <2>1, <2>2, Counting DEF PopEmpty
<1>7. ASSUME NEW t \in Threads, GiveUp(t) PROVE WaitersCounted'
  <2>1. Waiters(Pushing)' = Waiters(Pushing) \ {t} /\ Waiters(Popping)' = Waiters(Popping) \ {t}
    BY <1>7, ReturnWaiters DEF GiveUp
  <2>2. pc[t] \in {"woken", "expired"} /\ call[t].op \in Ops
    BY <1>7, InCall, CallFacts DEF GiveUp
  <2>3. CASE call[t].op \in Pushing
    <3>1. t \in Waiters(Pushing)
      BY <2>2, <2>3 DEF Waiters
    <3>2. m_pushersWaitingCount' = m_pushersWaitingCount - 1
          /\ m_poppersWaitingCount' = m_poppersWaitingCount
      BY <1>7, <2>3 DEF GiveUp
    <3> QED
      BY <2>1, <2>3, <3>1, <3>2, Counting, OtherSide DEF WaitersCounted
  <2>4. CASE call[t].op \notin Pushing
    <3>1. t \in Waiters(Popping) /\ call[t].op \in Popping
      BY <2>2, <2>4 DEF Waiters, Ops
    <3>2. m_poppersWaitingCount' = m_poppersWaitingCount - 1
          /\ m_pushersWaitingCount' = m_pushersWaitingCount
      BY <1>7, <2>4 DEF GiveUp
    <3> QED
      BY <2>1, <3>1, <3>2, Counting, OtherSide DEF WaitersCounted
  <2> QED
    BY <2>3, <2>4
<1>8. ASSUME NEW t \in Threads, TimeOut(t) \/ SpuriousWakeup(t) PROVE WaitersCounted'
  <2>1. \A u \in Threads : pc'[u] = pc[u] \/ (pc[u] = "wait" /\ pc'[u] \in {"woken", "expired"})
    BY <1>8 DEF TimeOut, SpuriousWakeup, TypeOK
  <2>2. \A ops \in Sides : Waiters(ops)' = Waiters(ops)
    BY <1>8, <2>1 DEF TimeOut, SpuriousWakeup, Waiters
  <2> QED
    BY <1>1, <1>8, <2>2 DEF TimeOut, SpuriousWakeup
<1>9. CASE AbortBegin
  <2>1. \A u \in Threads : pc'[u] = pc[u] \/ (pc[u] = "wait" /\ pc'[u] = "woken")
    BY <1>9 DEF AbortBegin, TypeOK
  <2>2. \A ops \in Sides : Waiters(ops)' = Waiters(ops)
    BY <1>9, <2>1 DEF AbortBegin, Waiters
  <2> QED
    BY <1>1, <1>9, <2>2 DEF AbortBegin
<1>10. CASE DtorEnter \/ AbortDrained \/ Destroy \/ UNCHANGED vars
  <2>1. UNCHANGED <<counts, pc, call>>
    BY <1>10 DEF DtorEnter, AbortDrained, Destroy, vars, counts
  <2> QED
    BY <1>1, <2>1 DEF Waiters
<1> QED
  BY <1>2, <1>3, <1>4, <1>5, <1>6, <1>7, <1>8, <1>9, <1>10 DEF Next, Run, Dtor

-----------------------------------------------------------------------------
\* A returning thread wakes nobody but sleepers, and puts nobody to sleep.
LEMMA ReturnSleepers ==
  ASSUME TypeOK, NEW t \in Threads, NEW r, NEW ops \in Sides,
         NEW S \in SUBSET (Asleep(Pushing) \cup Asleep(Popping)),
         Return(t, r, S)
  PROVE  Asleep(ops)' \subseteq Asleep(ops) \ S
BY DEF Return, Asleep, TypeOK

\* A count of 0 means that nobody sleeps.
LEMMA NobodySleeps ==
  ASSUME WaitersCounted
  PROVE  /\ m_pushersWaitingCount = 0 => Asleep(Pushing) = {}
         /\ m_poppersWaitingCount = 0 => Asleep(Popping) = {}
<1>1. \A ops \in Sides : Asleep(ops) \subseteq Waiters(ops)
  BY DEF Asleep, Waiters
<1>2. \A ops \in Sides : Cardinality(Waiters(ops)) = 0 => Waiters(ops) = {}
  <2> SUFFICES ASSUME NEW ops \in Sides, Cardinality(Waiters(ops)) = 0
               PROVE  Waiters(ops) = {}
    OBVIOUS
  <2> IsFiniteSet(Waiters(ops))
    BY ThreadsAssumption, FS_Subset DEF Waiters
  <2> QED
    BY FS_EmptySet
<1> QED
  BY <1>1, <1>2 DEF WaitersCounted, Sides

\* No step loses a wakeup: a push that could strand a sleeping popper and a pop
\* that could strand a sleeping pusher wake them all, unless nobody sleeps.
LEMMA WakeupStep ==
  TypeOK /\ WaitersCounted /\ NoLostWakeup /\ [Next]_vars => NoLostWakeup'
<1> SUFFICES ASSUME TypeOK, WaitersCounted, NoLostWakeup, [Next]_vars
             PROVE  NoLostWakeup'
  OBVIOUS
<1>1. ASSUME Asleep(Pushing)' \subseteq Asleep(Pushing),
             Asleep(Popping)' \subseteq Asleep(Popping),
             UNCHANGED <<m_items, m_maxItems>>
      PROVE  NoLostWakeup'
  BY <1>1 DEF NoLostWakeup, Full
<1>2. ASSUME NEW t \in Threads,
             Enter(t) \/ TimeOut(t) \/ SpuriousWakeup(t) \/ PeekHead(t)
             \/ PopEmpty(t) \/ GiveUp(t)
      PROVE  NoLostWakeup'
  <2>1. \A u \in Threads : pc'[u] = "wait" => pc[u] = "wait" /\ call'[u] = call[u]
    BY <1>2 DEF Enter, TimeOut, SpuriousWakeup, PeekHead, PopEmpty, GiveUp, Return, TypeOK
  <2>2. UNCHANGED <<m_items, m_maxItems>>
    BY <1>2 DEF Enter, TimeOut, SpuriousWakeup, PeekHead, PopEmpty, GiveUp, Return
  <2>3. Asleep(Pushing)' \subseteq Asleep(Pushing) /\ Asleep(Popping)' \subseteq Asleep(Popping)
    BY <2>1 DEF Asleep
  <2> QED
    BY <1>1, <2>2, <2>3
<1>3. ASSUME NEW t \in Threads, EnqueueWait(t) PROVE NoLostWakeup'
  <2>1. Asleep(Popping)' \subseteq Asleep(Popping)
    BY <1>3, OpFacts DEF EnqueueWait, Sleep, Asleep, TypeOK
  <2> QED
    BY <1>3, <2>1 DEF NoLostWakeup, EnqueueWait, Sleep, Full
<1>4. ASSUME NEW t \in Threads, PopWait(t) PROVE NoLostWakeup'
  <2>1. Asleep(Pushing)' \subseteq Asleep(Pushing)
    BY <1>4, OpFacts DEF PopWait, Sleep, Asleep, TypeOK
  <2> QED
    BY <1>4, <2>1 DEF NoLostWakeup, PopWait, Sleep, Full
<1>5. ASSUME NEW t \in Threads, EnqueuePush(t) PROVE NoLostWakeup'
  <2> DEFINE S == IF m_poppersWaitingCount # 0 THEN Asleep(Popping) ELSE {}
  <2>1. S = Asleep(Popping)
    BY NobodySleeps
  <2>2. Return(t, Success(NoItem), S)
    BY <1>5 DEF EnqueuePush
  <2>3. Asleep(Popping)' = {} /\ Asleep(Pushing)' \subseteq Asleep(Pushing)
    BY <2>1, <2>2, ReturnSleepers DEF Sides
  <2>4. Asleep(Pushing)' # {} => FALSE
    BY <1>5, <2>3 DEF EnqueuePush, NoLostWakeup
  <2> QED
    BY <2>3, <2>4 DEF NoLostWakeup
<1>6. ASSUME NEW t \in Threads, DequeuePop(t) PROVE NoLostWakeup'
  <2> DEFINE S == IF m_maxItems # 0 /\ m_pushersWaitingCount # 0
                    THEN Asleep(Pushing) ELSE {}
  <2>1. S = Asleep(Pushing)
    <3>1. m_maxItems = 0 => Asleep(Pushing) = {}
      BY DEF NoLostWakeup, Full
    <3> QED
      BY <3>1, NobodySleeps
  <2>2. Return(t, Success(Head(m_items)), S)
    BY <1>6 DEF DequeuePop
  <2>3. Asleep(Pushing)' = {} /\ Asleep(Popping)' \subseteq Asleep(Popping)
    BY <2>1, <2>2, ReturnSleepers DEF Sides
  <2>4. Asleep(Popping)' # {} => FALSE
    BY <1>6, <2>3 DEF DequeuePop, NoLostWakeup
  <2> QED
    BY <2>3, <2>4 DEF NoLostWakeup
<1>7. CASE AbortBegin
  <2>1. \A u \in Threads : pc'[u] # "wait"
    BY <1>7 DEF AbortBegin, TypeOK
  <2> QED
    BY <2>1 DEF NoLostWakeup, Asleep
<1>8. CASE AbortDrained
  <2>1. Asleep(Pushing) = {} /\ Asleep(Popping) = {}
    BY <1>8, NobodySleeps DEF AbortDrained, DeleteItems, NobodyCounted
  <2> QED
    BY <1>8, <2>1 DEF AbortDrained, NoLostWakeup, Asleep
<1>9. CASE DtorEnter \/ Destroy \/ UNCHANGED vars
  <2>1. UNCHANGED <<m_items, m_maxItems, pc, call>>
    BY <1>9 DEF DtorEnter, Destroy, vars
  <2> QED
    BY <1>1, <2>1 DEF Asleep
<1> QED
  BY <1>2, <1>3, <1>4, <1>5, <1>6, <1>7, <1>8, <1>9 DEF Next, Run, Dtor

\* Only a push lengthens the list, and it tests the length first.
LEMMA CapacityStep == TypeOK /\ WithinCapacity /\ [Next]_vars => WithinCapacity'
<1> SUFFICES ASSUME TypeOK, WithinCapacity, [Next]_vars PROVE WithinCapacity'
  OBVIOUS
<1>1. m_maxItems' = m_maxItems
  BY DEF Next, Enter, Run, EnqueueWait, EnqueuePush, PopWait, DequeuePop, PeekHead,
         PopEmpty, GiveUp, Return, Sleep, TimeOut, SpuriousWakeup, DtorEnter, Dtor,
         AbortBegin, AbortDrained, Destroy, vars
<1>2. ASSUME NEW t \in Threads, EnqueuePush(t) PROVE WithinCapacity'
  <2>1. Len(m_items') = Len(m_items) + 1
    BY <1>2, InCall, CallFacts, OpFacts DEF EnqueuePush, AtLoop, TypeOK
  <2> QED
    BY <1>1, <1>2, <2>1 DEF EnqueuePush, Full, WithinCapacity, TypeOK
<1>3. ASSUME NEW t \in Threads, DequeuePop(t) PROVE WithinCapacity'
  <2>1. Len(m_items') = Len(m_items) - 1
    BY <1>3, ListFacts DEF DequeuePop, TypeOK
  <2> QED
    BY <1>1, <2>1 DEF WithinCapacity, TypeOK
<1>4. CASE m_items' \in {m_items, << >>}
  BY <1>1, <1>4 DEF WithinCapacity, TypeOK
<1>5. \/ m_items' \in {m_items, << >>}
      \/ \E t \in Threads : EnqueuePush(t) \/ DequeuePop(t)
  BY DEF Next, Enter, Run, EnqueueWait, PopWait, PeekHead, PopEmpty, GiveUp, Sleep,
         TimeOut, SpuriousWakeup, DtorEnter, Dtor, AbortBegin, AbortDrained,
         DeleteItems, Destroy, vars
<1> QED
  BY <1>2, <1>3, <1>4, <1>5

\* A thread waits only where its timeout lets it.
LEMMA WaitsStep == TypeOK /\ WaitsAllowed /\ [Next]_vars => WaitsAllowed'
<1> SUFFICES ASSUME TypeOK, WaitsAllowed, [Next]_vars,
                    NEW u \in Threads
             PROVE  /\ pc'[u] \in {"wait", "woken", "expired"} /\ call'[u].op \in Popping
                         => call'[u].timeout # 0
                    /\ pc'[u] = "expired" => call'[u].timeout # Forever
  BY DEF WaitsAllowed
<1> USE DEF TypeOK
<1>1. CASE call'[u] = call[u] /\ pc'[u] \in {pc[u], "idle", "lock"}
  BY <1>1 DEF WaitsAllowed
<1>2. CASE call'[u] = call[u] /\ pc[u] = "wait" /\ pc'[u] = "woken"
  BY <1>2 DEF WaitsAllowed
<1>3. CASE TimeOut(u)
  BY <1>3 DEF TimeOut, WaitsAllowed
<1>4. CASE EnqueueWait(u) \/ PopWait(u)
  BY <1>4, OpFacts DEF EnqueueWait, PopWait, Sleep
<1>5. CASE pc'[u] \in {"idle", "lock"}
  BY <1>5
<1>6. ASSUME NEW t \in Threads, NEW r, Return(t, r, {}) \/ Return(t, r, Asleep(Pushing))
             \/ Return(t, r, Asleep(Popping))
      PROVE  \/ pc'[u] = "idle"
             \/ call'[u] = call[u] /\ pc'[u] = pc[u]
             \/ call'[u] = call[u] /\ pc[u] = "wait" /\ pc'[u] = "woken"
  BY <1>6 DEF Return, Asleep
<1>7. ASSUME NEW t \in Threads, Run(t), ~(EnqueueWait(u) \/ PopWait(u))
      PROVE  \/ pc'[u] = "idle"
             \/ call'[u] = call[u] /\ pc'[u] = pc[u]
             \/ call'[u] = call[u] /\ pc[u] = "wait" /\ pc'[u] = "woken"
  <2>1. CASE EnqueueWait(t) \/ PopWait(t)
    <3>1. t # u
      BY <1>7, <2>1
    <3> QED
      BY <2>1, <3>1 DEF EnqueueWait, PopWait, Sleep
  <2>2. CASE EnqueuePush(t) \/ DequeuePop(t) \/ PeekHead(t) \/ PopEmpty(t) \/ GiveUp(t)
    <3>1. PICK r : \/ Return(t, r, {}) \/ Return(t, r, Asleep(Pushing))
                   \/ Return(t, r, Asleep(Popping))
      BY <2>2 DEF EnqueuePush, DequeuePop, PeekHead, PopEmpty, GiveUp
    <3> QED
      BY <3>1, <1>6
  <2> QED
    BY <1>7, <2>1, <2>2 DEF Run
<1>8. ASSUME NEW t \in Threads, Enter(t) \/ SpuriousWakeup(t) \/ (TimeOut(t) /\ t # u)
      PROVE  \/ pc'[u] = "lock"
             \/ call'[u] = call[u] /\ pc'[u] = pc[u]
             \/ call'[u] = call[u] /\ pc[u] = "wait" /\ pc'[u] = "woken"
  BY <1>8 DEF Enter, SpuriousWakeup, TimeOut
<1>9. CASE DtorEnter \/ Dtor \/ UNCHANGED vars
  <2>1. \/ call'[u] = call[u] /\ pc'[u] = pc[u]
        \/ call'[u] = call[u] /\ pc[u] = "wait" /\ pc'[u] = "woken"
    BY <1>9 DEF DtorEnter, Dtor, AbortBegin, AbortDrained, Destroy, vars
  <2> QED
    BY <2>1, <1>1, <1>2
<1> QED
  BY <1>1, <1>2, <1>3, <1>4, <1>5, <1>7, <1>8, <1>9 DEF Next

\* When no call is on its way in as the destructor starts, nobody goes back to
\* sleep once m_aborting is set, and nobody is left once both counts are 0.
LEMMA DtorStep ==
  TypeOK /\ WaitersCounted /\ DtorProgress /\ [Next]_vars => DtorProgress'
<1> SUFFICES ASSUME TypeOK, WaitersCounted, DtorProgress, [Next]_vars
             PROVE  DtorProgress'
  OBVIOUS
<1> DEFINE Flags(d, ab) == ab <=> d \in {"draining", "cleared", "destroyed"}
           Quiet(d, ab, p) ==
             /\ d # "alive" => \A u \in Threads : p[u] # "lock"
             /\ ab => \A u \in Threads : p[u] # "wait"
             /\ d \in {"cleared", "destroyed"} => \A u \in Threads : p[u] = "idle"
<1>1. /\ Flags(dtor, m_aborting)
      /\ ~LateCallers => Quiet(dtor, m_aborting, pc)
  BY DEF DtorProgress
<1>2. SUFFICES /\ Flags(dtor', m_aborting')
               /\ ~LateCallers => Quiet(dtor', m_aborting', pc')
  BY DEF DtorProgress
<1>3. ASSUME NEW t \in Threads, Enter(t) \/ Run(t) \/ TimeOut(t) \/ SpuriousWakeup(t)
      PROVE  UNCHANGED <<dtor, m_aborting>>
  BY <1>3 DEF Enter, Run, EnqueueWait, EnqueuePush, PopWait, DequeuePop, PeekHead,
              PopEmpty, GiveUp, Return, Sleep, TimeOut, SpuriousWakeup
<1>4. ASSUME NEW t \in Threads, Enter(t) PROVE ~LateCallers => Quiet(dtor', m_aborting', pc')
  BY <1>1, <1>3, <1>4 DEF Enter
<1>5. ASSUME NEW t \in Threads, Run(t), ~LateCallers
      PROVE  Quiet(dtor', m_aborting', pc')
  <2>1. CASE dtor = "alive"
    BY <1>1, <1>3, <1>5, <2>1
  <2>2. CASE dtor # "alive" /\ ~m_aborting
    <3>1. pc' \in [Threads -> Pcs] /\ \A u \in Threads : pc'[u] = "lock" => pc[u] = "lock"
      BY <1>5 DEF Run, EnqueueWait, EnqueuePush, PopWait, DequeuePop, PeekHead,
                  PopEmpty, GiveUp, Return, Sleep, TypeOK, Asleep, Pcs
    <3> QED
      BY <1>1, <1>3, <1>5, <2>2, <3>1
  <2>3. CASE dtor # "alive" /\ m_aborting
    <3>1. ~AtLoop(t) /\ pc[t] # "lock"
      BY <1>1, <1>5, <2>3 DEF AtLoop
    <3>2. GiveUp(t)
      BY <1>5, <3>1 DEF Run, EnqueueWait, EnqueuePush, PopWait, DequeuePop, PeekHead, PopEmpty
    <3>3. pc[t] # "idle" /\ pc' = [pc EXCEPT ![t] = "idle"]
      BY <3>2 DEF GiveUp, Return, TypeOK
    <3> QED
      BY <1>1, <1>3, <1>5, <2>3, <3>3 DEF TypeOK
  <2> QED
    BY <2>1, <2>2, <2>3
<1>6. ASSUME NEW t \in Threads, TimeOut(t) \/ SpuriousWakeup(t), ~LateCallers
      PROVE  Quiet(dtor', m_aborting', pc')
  <2>1. /\ pc[t] = "wait" /\ pc' \in [Threads -> Pcs]
        /\ \A u \in Threads : pc'[u] = pc[u] \/ pc'[u] \in {"woken", "expired"}
    BY <1>6 DEF TimeOut, SpuriousWakeup, TypeOK, Pcs
  <2> QED
    BY <1>1, <1>3, <1>6, <2>1
<1>7. ASSUME DtorEnter
      PROVE  Flags(dtor', m_aborting') /\ (~LateCallers => Quiet(dtor', m_aborting', pc'))
  BY <1>1, <1>7 DEF DtorEnter
<1>8. ASSUME NobodyCounted, NEW t \in Threads
      PROVE  pc[t] \notin {"wait", "woken", "expired"}
  <2>1. Waiters(Pushing) = {} /\ Waiters(Popping) = {}
    BY <1>8, Counting DEF NobodyCounted, WaitersCounted, Sides
  <2>2. pc[t] \in {"wait", "woken", "expired"} => call[t].op \in Ops
    BY InCall, CallFacts
  <2> QED
    BY <2>1, <2>2 DEF Waiters, Ops
<1>9. ASSUME AbortBegin
      PROVE  Flags(dtor', m_aborting') /\ (~LateCallers => Quiet(dtor', m_aborting', pc'))
  <2>1. /\ dtor = "entered" /\ m_aborting' /\ dtor' \in {"draining", "cleared"}
        /\ pc' \in [Threads -> Pcs]
        /\ \A u \in Threads : pc'[u] # "wait" /\ (pc'[u] = "lock" => pc[u] = "lock")
    BY <1>9 DEF AbortBegin, DeleteItems, TypeOK, Pcs
  <2>2. ASSUME dtor' = "cleared", ~LateCallers, NEW u \in Threads PROVE pc'[u] = "idle"
    <3>1. NobodyCounted
      BY <1>9, <2>2 DEF AbortBegin, DeleteItems
    <3>2. pc[u] = "idle"
      BY <1>1, <1>8, <2>1, <2>2, <3>1 DEF TypeOK
    <3> QED
      BY <1>9, <3>2 DEF AbortBegin, TypeOK
  <2> QED
    BY <1>1, <2>1, <2>2
<1>10. ASSUME AbortDrained
       PROVE  Flags(dtor', m_aborting') /\ (~LateCallers => Quiet(dtor', m_aborting', pc'))
  <2>1. /\ dtor = "draining" /\ dtor' = "cleared" /\ NobodyCounted
        /\ m_aborting' = m_aborting /\ pc' = pc
    BY <1>10 DEF AbortDrained, DeleteItems
  <2>2. ~LateCallers => \A u \in Threads : pc[u] = "idle"
    BY <1>1, <1>8, <2>1 DEF TypeOK
  <2> QED
    BY <1>1, <2>1, <2>2
<1>11. ASSUME Destroy \/ UNCHANGED vars
       PROVE  Flags(dtor', m_aborting') /\ (~LateCallers => Quiet(dtor', m_aborting', pc'))
  BY <1>1, <1>11 DEF Destroy, vars
<1> QED
  BY <1>1, <1>3, <1>4, <1>5, <1>6, <1>7, <1>9, <1>10, <1>11 DEF Next, Dtor

-----------------------------------------------------------------------------
\* The inductive invariant holds at the start and is kept by every step.
LEMMA Invariance == Spec => []IInv
<1>1. ASSUME Init PROVE IInv
  <2>1. TypeOK
    BY <1>1, TypeInit
  <2>2. WaitersCounted
    <3>1. Waiters(Pushing) = {} /\ Waiters(Popping) = {}
      BY <1>1 DEF Init, Waiters
    <3> QED
      BY <1>1, <3>1, FS_EmptySet DEF Init, WaitersCounted
  <2>3. NoLostWakeup
    BY <1>1 DEF Init, NoLostWakeup, Asleep
  <2>4. WithinCapacity
    <3>1. Len(m_items) = 0
      BY <1>1 DEF Init
    <3> QED
      BY <2>1, <3>1 DEF WithinCapacity, TypeOK
  <2>5. DtorProgress
    <3>1. dtor = "alive" /\ ~m_aborting
      BY <1>1 DEF Init
    <3> QED
      BY <3>1 DEF DtorProgress
  <2>6. WaitsAllowed
    BY <1>1 DEF Init, WaitsAllowed
  <2> QED
    BY <2>1, <2>2, <2>3, <2>4, <2>5, <2>6 DEF IInv
<1>2. IInv /\ [Next]_vars => IInv'
  BY TypeStep, CountsStep, WakeupStep, CapacityStep, DtorStep, WaitsStep DEF IInv
<1> QED
  BY <1>1, <1>2, PTL DEF Spec

\* The waiting counts are the numbers of waiting threads, in every reachable
\* state and for every number of threads.
THEOREM CountsExact == Spec => []WaitersCounted
BY Invariance, PTL DEF IInv

\* No thread sleeps on a condition that holds: no wakeup is ever lost.
THEOREM WakeupsDelivered == Spec => []NoLostWakeup
BY Invariance, PTL DEF IInv

\* The list stays within m_maxItems.
THEOREM CapacityKept == Spec => []WithinCapacity
BY Invariance, PTL DEF IInv

\* If no call is still on its way to the mutex when the destructor is entered,
\* every thread is out of the queue when its mutex and conditions are destroyed.
THEOREM DestructionSafe == ASSUME ~LateCallers PROVE Spec => []DestroyedQuiet
<1>1. IInv => DestroyedQuiet
  BY DEF IInv, DtorProgress, DestroyedQuiet
<1> QED
  BY <1>1, Invariance, PTL

-----------------------------------------------------------------------------
\* BoundedFIFO's call records and results, read through the instance, are those
\* of PosixQueue.
LEMMA SharedVocabulary ==
  /\ FIFO!NoCall = NoCall /\ FIFO!AllCalls = AllCalls /\ FIFO!Failure = Failure
  /\ FIFO!Popping = Popping /\ FIFO!Forever = Forever
  /\ \A i : FIFO!Success(i) = Success(i)
<1>1. FIFO!Forever = Forever /\ FIFO!Popping = Popping /\ FIFO!Pushing = Pushing
  BY DEF FIFO!Forever, Forever, FIFO!Popping, Popping, FIFO!Pushing, Pushing
<1>2. FIFO!Timeouts = Timeouts
  BY <1>1 DEF FIFO!Timeouts, Timeouts
<1>3. FIFO!AllCalls = AllCalls
  BY <1>1, <1>2 DEF FIFO!AllCalls, AllCalls
<1>4. FIFO!NoCall = NoCall /\ FIFO!Failure = Failure
  BY DEF FIFO!NoCall, NoCall, FIFO!Failure, Failure
<1>5. \A i : FIFO!Success(i) = Success(i)
  BY DEF FIFO!Success, Success
<1> QED
  BY <1>1, <1>3, <1>4, <1>5

\* What a thread that returns changes of BoundedFIFO's variables.
LEMMA ReturnMaps ==
  ASSUME NEW t \in Threads, NEW r, NEW S, Return(t, r, S)
  PROVE  FIFO!Return(t, r)
BY SharedVocabulary DEF Return, FIFO!Return

\* Each step of the queue is a step of BoundedFIFO or changes nothing there.
LEMMA FIFOStep == IInv /\ [Next]_vars => [FIFO!Next]_FIFO!vars
<1> SUFFICES ASSUME IInv, [Next]_vars PROVE [FIFO!Next]_FIFO!vars
  OBVIOUS
<1> USE DEF IInv
<1>1. ASSUME NEW t \in Threads, Enter(t) PROVE FIFO!Invoke(t)
  <2>1. call[t] = NoCall
    BY <1>1 DEF Enter, TypeOK
  <2>2. Calls[t] \subseteq AllCalls
    BY CallsAssumption
  <2> QED
    BY <1>1, <2>1, <2>2, SharedVocabulary DEF Enter, FIFO!Invoke
<1>2. ASSUME NEW t \in Threads, EnqueuePush(t) PROVE FIFO!Put(t)
  <2>1. FIFO!HasRoom
    BY <1>2 DEF EnqueuePush, Full, FIFO!HasRoom, TypeOK
  <2> QED
    BY <1>2, <2>1, SharedVocabulary, ReturnMaps DEF EnqueuePush, FIFO!Put
<1>3. ASSUME NEW t \in Threads, DequeuePop(t) PROVE FIFO!Take(t)
  BY <1>3, SharedVocabulary, ReturnMaps DEF DequeuePop, FIFO!Take
<1>4. ASSUME NEW t \in Threads, PeekHead(t) PROVE FIFO!Look(t)
  BY <1>4, SharedVocabulary, ReturnMaps DEF PeekHead, FIFO!Look
<1>5. ASSUME NEW t \in Threads, PopEmpty(t) \/ GiveUp(t) PROVE FIFO!Refuse(t)
  <2>1. pc[t] # "idle" /\ call[t] # NoCall
    BY <1>5 DEF PopEmpty, GiveUp, TypeOK
  <2>2. call[t].timeout = Forever => m_aborting
    BY <1>5 DEF PopEmpty, GiveUp, WaitsAllowed, Forever
  <2>3. call[t].op \in Popping /\ call[t].timeout = 0 => m_items = << >>
    BY <1>5 DEF PopEmpty, GiveUp, WaitsAllowed
  <2>4. m_items' = m_items /\ Return(t, Failure, {})
    BY <1>5 DEF PopEmpty, GiveUp
  <2> QED
    BY <2>1, <2>2, <2>3, <2>4, SharedVocabulary, ReturnMaps DEF FIFO!Refuse
<1>6. ASSUME AbortBegin \/ AbortDrained PROVE FIFO!Close
  <2>1. m_aborting' = TRUE /\ m_items' \in {m_items, << >>}
    BY <1>6 DEF AbortBegin, AbortDrained, DeleteItems, DtorProgress
  <2> QED
    BY <1>6, <2>1 DEF AbortBegin, AbortDrained, FIFO!Close
<1>7. CASE \/ \E t \in Threads : EnqueueWait(t) \/ PopWait(t) \/ TimeOut(t) \/ SpuriousWakeup(t)
           \/ DtorEnter \/ Destroy \/ UNCHANGED vars
  BY <1>7 DEF EnqueueWait, PopWait, Sleep, TimeOut, SpuriousWakeup, DtorEnter,
              Destroy, vars, FIFO!vars
<1> QED
  BY <1>1, <1>2, <1>3, <1>4, <1>5, <1>6, <1>7 DEF Next, Run, Dtor, FIFO!Next

\* Every call of PosixQueue is one atomic operation of a bounded FIFO queue.
THEOREM Refinement == Spec => ImplementsFIFO
<1>1. Init => FIFO!Init
  BY CapacitiesAssumption, SharedVocabulary DEF Init, FIFO!Init
<1> QED
  BY <1>1, FIFOStep, Invariance, PTL DEF Spec, ImplementsFIFO, FIFO!Spec
=============================================================================
