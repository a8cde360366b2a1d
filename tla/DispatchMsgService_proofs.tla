---------------------- MODULE DispatchMsgService_proofs ----------------------
(***************************************************************************)
(* The service is quiet when it is down, and no event is ever in two       *)
(* places, or in any after its delete: for any handlers, ids, events,      *)
(* publishers and bounds.  Neither depends on what subscribers_ holds,     *)
(* which every thread changes without a lock.  The types and the delivery  *)
(* of an event to its subscribers, at the end, are about just that.        *)
(***************************************************************************)
EXTENDS DispatchMsgService, SequenceLemmas, FiniteSetTheorems, TLAPS

Busy == {"process", "loop", "handling", "done", "undefined"}

\* The types of what events pass through: the queue, the calls on it, the
\* thread and its controller.
PathOK ==
  /\ queue \in Seq(Events)
  /\ DOMAIN call = Publishers \cup {Svc}
  /\ \A p \in Publishers :
       call[p] = Q!NoCall \/ (call[p].op = "enqueue" /\ call[p].item \in Events)
  /\ call[Svc] = Q!NoCall \/ call[Svc] = DequeueOneMs
  /\ ctl \in {"down", "created", "up", "joining"}
  /\ svc \in Busy \cup {"none", "check", "dequeue", "clear", "exited"}
  /\ ev \in Events \cup {NoEvent}
  /\ ev # NoEvent <=> svc \in Busy

\* The event that publisher p is handing to the queue.
Handing(p, e) == call[p].op = "enqueue" /\ call[p].item = e

\* Every event in the system has been published and not been deleted, and
\* those in the queue, in calls and with the thread all differ.
Apart ==
  /\ \A i \in 1..Len(queue) : queue[i] \in published \ deleted /\ queue[i] # ev
  /\ \A i, j \in 1..Len(queue) : queue[i] = queue[j] => i = j
  /\ ev # NoEvent => ev \in published \ deleted
  /\ \A p \in Publishers, e \in Events : Handing(p, e) =>
       /\ e \in published \ deleted /\ e # ev
       /\ \A i \in 1..Len(queue) : queue[i] # e
       /\ \A q \in Publishers : Handing(q, e) => p = q
  /\ deleted \subseteq published

IInv == PathOK /\ QuietWhenDown /\ Apart

-----------------------------------------------------------------------------
\* A call record is no other call's, and says what is handed over.
LEMMA Calls ==
  /\ Q!NoCall.op = "none" /\ Q!NoCall.item = NoEvent
  /\ DequeueOneMs.op = "dequeue" /\ DequeueOneMs # Q!NoCall
  /\ \A e : LET c == [op |-> "enqueue", timeout |-> 0, item |-> e]
            IN  c.op = "enqueue" /\ c.item = e /\ c # Q!NoCall
BY DEF Q!NoCall, DequeueOneMs

-----------------------------------------------------------------------------
\* A publisher starts a call with an event nobody has published before.
LEMMA PublishStep ==
  ASSUME IInv, NEW p \in Publishers, NEW e \in Events, Publish(p, e)
  PROVE  IInv'
<1> DEFINE c == [op |-> "enqueue", timeout |-> 0, item |-> e]
<1>1. /\ e \notin published /\ published' = published \cup {e}
      /\ call[p] = Q!NoCall /\ call' = [call EXCEPT ![p] = c]
      /\ UNCHANGED <<queue, ctl, svc, ev, deleted>>
  <2>1. PICK d : call' = [call EXCEPT ![p] = d]
    BY DEF Publish, Q!Invoke
  <2>2. call'[p] = c
    BY DEF Publish
  <2>3. d = c
    BY <2>1, <2>2 DEF IInv, PathOK
  <2> QED
    BY <2>1, <2>3 DEF Publish, Q!Invoke, ctlVars
<1>2. c.op = "enqueue" /\ c.item = e
  OBVIOUS
<1> HIDE DEF c
<1>3. /\ call'[p] = c /\ DOMAIN call' = Publishers \cup {Svc}
      /\ \A q \in Publishers \cup {Svc} : q # p => call'[q] = call[q]
  BY <1>1 DEF IInv, PathOK
<1>4. PathOK'
  BY <1>1, <1>2, <1>3, SvcAssumption DEF IInv, PathOK
<1>5. QuietWhenDown'
  BY <1>1 DEF IInv, QuietWhenDown
<1>6. Apart'
  <2>1. ev # e /\ \A i \in 1..Len(queue) : queue[i] # e
    BY <1>1, NoEventAssumption DEF IInv, Apart
  <2>2. e \notin deleted /\ deleted \subseteq published
    BY <1>1 DEF IInv, Apart
  <2>3. \A q \in Publishers, f \in Events :
          Handing(q, f)' <=> IF q = p THEN f = e ELSE Handing(q, f)
    BY <1>2, <1>3 DEF Handing
  <2>4. \A q \in Publishers : ~Handing(q, e)
    BY <1>1 DEF IInv, Apart
  <2>5. \A q \in Publishers, f \in Events : Handing(q, f)' =>
          /\ f \in published' \ deleted' /\ f # ev'
          /\ \A i \in 1..Len(queue') : queue'[i] # f
          /\ \A r \in Publishers : Handing(r, f)' => q = r
    BY <1>1, <2>1, <2>2, <2>3, <2>4 DEF IInv, Apart
  <2>6. /\ \A i \in 1..Len(queue') :
             queue'[i] \in published' \ deleted' /\ queue'[i] # ev'
        /\ \A i, j \in 1..Len(queue') : queue'[i] = queue'[j] => i = j
        /\ ev' # NoEvent => ev' \in published' \ deleted'
    BY <1>1 DEF IInv, Apart
  <2> QED
    BY <1>1, <2>2, <2>5, <2>6 DEF Apart
<1> QED
  BY <1>4, <1>5, <1>6 DEF IInv

\* A call of enqueue returns, with its event in the queue or with the caller.
LEMMA PublishReturnStep ==
  ASSUME IInv, NEW p \in Publishers, PublishReturn(p)
  PROVE  IInv'
<1>1. /\ call' = [call EXCEPT ![p] = Q!NoCall]
      /\ UNCHANGED <<ctl, svc, ev, published, deleted>>
  BY DEF PublishReturn, Q!Put, Q!Refuse, Q!Return, ctlVars, events
<1>2. /\ call'[p] = Q!NoCall /\ DOMAIN call' = Publishers \cup {Svc}
      /\ \A q \in Publishers \cup {Svc} : q # p => call'[q] = call[q]
  BY <1>1 DEF IInv, PathOK
<1>3. \A q \in Publishers, f \in Events :
        Handing(q, f)' <=> q # p /\ Handing(q, f)
  BY <1>2, Calls DEF Handing
<1>4. \/ UNCHANGED queue
      \/ /\ call[p].op = "enqueue" /\ call[p].item \in Events
         /\ queue' = Append(queue, call[p].item)
  <2>1. call[p].op = "enqueue" => call[p].item \in Events
    BY Calls DEF IInv, PathOK
  <2> QED
    BY <2>1 DEF PublishReturn, Q!Put, Q!Refuse
<1>5. queue' \in Seq(Events)
  BY <1>4, AppendFacts DEF IInv, PathOK
<1>6. PathOK'
  BY <1>1, <1>2, <1>5, SvcAssumption DEF IInv, PathOK
<1>7. QuietWhenDown'
  BY <1>1 DEF IInv, QuietWhenDown
<1>8. Apart'
  <2>1. CASE UNCHANGED queue
    BY <1>1, <1>3, <2>1 DEF IInv, Apart
  <2>2. CASE /\ call[p].op = "enqueue" /\ call[p].item \in Events
             /\ queue' = Append(queue, call[p].item)
    <3> DEFINE e == call[p].item
    <3>1. /\ Handing(p, e) /\ e \in Events
          /\ e \in published \ deleted /\ e # ev
          /\ \A i \in 1..Len(queue) : queue[i] # e
          /\ \A q \in Publishers : Handing(q, e) => p = q
      BY <2>2 DEF Handing, IInv, Apart
    <3>2. /\ \A i \in 1..Len(queue') :
               queue'[i] = IF i \in 1..Len(queue) THEN queue[i] ELSE e
          /\ \A i \in 1..Len(queue') : i \in 1..Len(queue) \/ i = Len(queue) + 1
      BY <2>2, AppendPlaces DEF IInv, PathOK
    <3> HIDE DEF e
    <3>3. \A i \in 1..Len(queue') :
            queue'[i] \in published' \ deleted' /\ queue'[i] # ev'
      BY <1>1, <3>1, <3>2 DEF IInv, Apart
    <3>4. \A i, j \in 1..Len(queue') : queue'[i] = queue'[j] => i = j
      BY <3>1, <3>2 DEF IInv, Apart
    <3>5. \A q \in Publishers, f \in Events : Handing(q, f)' =>
            /\ f \in published' \ deleted' /\ f # ev'
            /\ \A i \in 1..Len(queue') : queue'[i] # f
            /\ \A r \in Publishers : Handing(r, f)' => q = r
      BY <1>1, <1>3, <3>1, <3>2 DEF IInv, Apart
    <3> QED
      BY <1>1, <3>3, <3>4, <3>5 DEF IInv, Apart
  <2> QED
    BY <1>4, <2>1, <2>2
<1> QED
  BY <1>6, <1>7, <1>8 DEF IInv

-----------------------------------------------------------------------------
\* A step that moves no event, starts no call of a publisher and leaves the
\* thread between two events if it was there.
LEMMA NothingMoved ==
  ASSUME IInv, UNCHANGED <<queue, ev, published, deleted>>,
         \A p \in Publishers : call'[p] = call[p]
  PROVE  Apart'
<1>1. \A p \in Publishers, e \in Events : Handing(p, e)' <=> Handing(p, e)
  BY DEF Handing
<1> QED
  BY <1>1 DEF IInv, Apart

\* Only svc's own calls change, and each of them is a dequeue.
LEMMA CheckStep == ASSUME IInv, SvcCheck PROVE IInv'
<1>1. UNCHANGED <<queue, ctl, ev, published, deleted>>
  BY DEF SvcCheck, queueVars, ctlVars, events, Q!Invoke
<1>2. \/ svc' = "clear" /\ UNCHANGED call
      \/ svc' = "dequeue" /\ call'[Svc] = DequeueOneMs
         /\ DOMAIN call' = DOMAIN call
         /\ \A p \in Publishers : call'[p] = call[p]
  BY SvcAssumption DEF SvcCheck, queueVars, Q!Invoke, IInv, PathOK
<1>3. PathOK' /\ QuietWhenDown'
  BY <1>1, <1>2 DEF SvcCheck, IInv, PathOK, QuietWhenDown, Busy
<1>4. Apart'
  BY <1>1, <1>2, NothingMoved
<1> QED
  BY <1>3, <1>4 DEF IInv

\* The first event of the queue goes to the thread.
LEMMA DequeuedStep == ASSUME IInv, SvcDequeued PROVE IInv'
<1>1. /\ queue # << >> /\ queue' = Tail(queue) /\ ev' = Head(queue)
      /\ svc = "dequeue" /\ svc' = "process" /\ ev = NoEvent
      /\ call' = [call EXCEPT ![Svc] = Q!NoCall]
      /\ UNCHANGED <<ctl, published, deleted>>
  BY DEF SvcDequeued, Q!Take, Q!Return, ctlVars, events, IInv, PathOK, Busy
<1>2. /\ call'[Svc] = Q!NoCall /\ DOMAIN call' = Publishers \cup {Svc}
      /\ \A p \in Publishers : call'[p] = call[p]
  BY <1>1, SvcAssumption DEF IInv, PathOK
<1>3. /\ Head(queue) \in Events /\ Head(queue) = queue[1] /\ 1 \in 1..Len(queue)
      /\ queue' \in Seq(Events)
      /\ \A i \in 1..Len(queue') :
           queue'[i] = queue[i + 1] /\ i + 1 \in 1..Len(queue) /\ i \in Int
      /\ \A i \in 1..Len(queue') : i + 1 # 1
  <2>1. queue \in Seq(Events) /\ queue # << >>
    BY <1>1 DEF IInv, PathOK
  <2>2. \A i \in Int : i \in 1..Len(queue') => i + 1 # 1
    OBVIOUS
  <2> QED
    BY <1>1, <2>1, <2>2, HeadTail
<1>4. PathOK' /\ QuietWhenDown'
  BY <1>1, <1>2, <1>3, NoEventAssumption DEF IInv, PathOK, QuietWhenDown, Busy
<1>5. Apart'
  <2>1. \A p \in Publishers, e \in Events : Handing(p, e)' <=> Handing(p, e)
    BY <1>2 DEF Handing
  <2>2. \A i \in 1..Len(queue') :
          queue'[i] \in published' \ deleted' /\ queue'[i] # ev'
    BY <1>1, <1>3 DEF IInv, Apart
  <2>3. \A i, j \in 1..Len(queue') : queue'[i] = queue'[j] => i = j
    <3> SUFFICES ASSUME NEW i \in 1..Len(queue'), NEW j \in 1..Len(queue'),
                        queue'[i] = queue'[j]
                 PROVE  i = j
      OBVIOUS
    <3>1. i + 1 = j + 1 /\ i \in Int /\ j \in Int
      BY <1>3 DEF IInv, Apart
    <3> QED
      BY <3>1
  <2>4. \A p \in Publishers, e \in Events : Handing(p, e)' =>
          /\ e \in published' \ deleted' /\ e # ev'
          /\ \A i \in 1..Len(queue') : queue'[i] # e
          /\ \A q \in Publishers : Handing(q, e)' => p = q
    BY <1>1, <1>3, <2>1 DEF IInv, Apart
  <2> QED
    BY <1>1, <1>3, <2>2, <2>3, <2>4 DEF IInv, Apart
<1> QED
  BY <1>4, <1>5 DEF IInv

\* A dequeue has timed out.
LEMMA NoEventStep == ASSUME IInv, SvcNoEvent PROVE IInv'
<1>1. /\ svc = "dequeue" /\ svc' = "check"
      /\ call' = [call EXCEPT ![Svc] = Q!NoCall]
      /\ UNCHANGED <<queue, ctl, ev, published, deleted>>
  BY DEF SvcNoEvent, Q!Refuse, Q!Return, ctlVars, events
<1>2. /\ call'[Svc] = Q!NoCall /\ DOMAIN call' = Publishers \cup {Svc}
      /\ \A p \in Publishers : call'[p] = call[p]
  BY <1>1, SvcAssumption DEF IInv, PathOK
<1>3. PathOK' /\ QuietWhenDown'
  BY <1>1, <1>2 DEF IInv, PathOK, QuietWhenDown, Busy
<1> QED
  BY <1>1, <1>2, <1>3, NothingMoved DEF IInv

\* The dispatched event is deleted, and the thread forgets it.
LEMMA DeleteStep == ASSUME IInv, DeleteEvent PROVE IInv'
<1>1. /\ svc = "done" /\ svc' = "check" /\ ev \in Events /\ ev' = NoEvent
      /\ deleted' = deleted \cup {ev}
      /\ UNCHANGED <<queue, call, ctl, published>>
  BY DEF DeleteEvent, queueVars, ctlVars, IInv, PathOK, Busy
<1>2. PathOK' /\ QuietWhenDown'
  BY <1>1 DEF IInv, PathOK, QuietWhenDown, Busy
<1>3. Apart'
  <2>1. \A p \in Publishers, e \in Events : Handing(p, e)' <=> Handing(p, e)
    BY <1>1 DEF Handing
  <2>2. ev \in published \ deleted
    BY <1>1, NoEventAssumption DEF IInv, Apart
  <2>3. \A i \in 1..Len(queue') :
          queue'[i] \in published' \ deleted' /\ queue'[i] # ev'
    <3>1. \A i \in 1..Len(queue) : queue[i] \in Events
      BY DEF IInv, PathOK
    <3> QED
      BY <1>1, <3>1, NoEventAssumption DEF IInv, Apart
  <2>4. \A p \in Publishers, e \in Events : Handing(p, e)' =>
          /\ e \in published' \ deleted' /\ e # ev'
          /\ \A i \in 1..Len(queue') : queue'[i] # e
          /\ \A q \in Publishers : Handing(q, e)' => p = q
    BY <1>1, <2>1, NoEventAssumption DEF IInv, Apart
  <2> QED
    BY <1>1, <2>2, <2>3, <2>4 DEF IInv, Apart
<1> QED
  BY <1>2, <1>3 DEF IInv

\* The steps of the thread between taking an event and deleting it, and its
\* end, keep the event; none of them is taken when the service is down.
LEMMA ThreadStep == ASSUME IInv, SvcStep PROVE IInv'
<1>1. CASE ProcessFind \/ ProcessLoop \/ HandleReturn \/ SvcExit
  <2>1. /\ svc' \in Busy <=> svc \in Busy
        /\ svc' \in Busy \cup {"exited"} /\ svc \notin {"none", "exited"}
        /\ UNCHANGED <<queue, call, ctl, ev, published, deleted>>
    BY <1>1 DEF ProcessFind, ProcessLoop, HandleReturn, SvcExit,
                queueVars, ctlVars, events, Busy
  <2>2. PathOK' /\ QuietWhenDown'
    BY <2>1 DEF IInv, PathOK, QuietWhenDown
  <2> QED
    BY <2>1, <2>2, NothingMoved DEF IInv
<1> QED
  BY <1>1, CheckStep, DequeuedStep, NoEventStep, DeleteStep DEF SvcStep

\* Subscribing, init() and uninit() move no event; uninit() returns only when
\* the thread has ended.
LEMMA ControlStep ==
  ASSUME IInv, \/ InitCreate \/ InitResetExit \/ Uninit \/ UninitReturn
               \/ \E k \in Eids, h \in Handlers : Subscribe(k, h) \/ Unsubscribe(k, h)
               \/ UNCHANGED vars
  PROVE  IInv'
<1>1. UNCHANGED <<queue, call, ev, published, deleted>>
  BY DEF InitCreate, InitResetExit, Uninit, UninitReturn, Subscribe, Unsubscribe,
         vars, queueVars, events
<1>2. PathOK' /\ QuietWhenDown'
  <2>1. CASE InitCreate
    BY <1>1, <2>1 DEF InitCreate, IInv, PathOK, QuietWhenDown, Busy
  <2>2. CASE InitResetExit \/ Uninit
    BY <1>1, <2>2 DEF InitResetExit, Uninit, IInv, PathOK, QuietWhenDown
  <2>3. CASE UninitReturn
    BY <1>1, <2>3 DEF UninitReturn, IInv, PathOK, QuietWhenDown, Busy
  <2>4. CASE \/ \E k \in Eids, h \in Handlers : Subscribe(k, h) \/ Unsubscribe(k, h)
             \/ UNCHANGED vars
    <3>1. UNCHANGED <<ctl, svc>>
      BY <2>4 DEF Subscribe, Unsubscribe, vars, ctlVars
    <3> QED
      BY <1>1, <3>1 DEF IInv, PathOK, QuietWhenDown
  <2> QED
    BY <2>1, <2>2, <2>3, <2>4
<1> QED
  BY <1>1, <1>2, NothingMoved DEF IInv

-----------------------------------------------------------------------------
\* The invariant is inductive.
LEMMA Inductive == IInv /\ [Next]_vars => IInv'
<1> SUFFICES ASSUME IInv, [Next]_vars PROVE IInv'
  OBVIOUS
<1> QED
  BY ControlStep, PublishStep, PublishReturnStep, ThreadStep DEF Next

\* Nothing is queued, called or dispatched before the first init().
LEMMA Initially == Init => IInv
<1> SUFFICES ASSUME Init PROVE IInv
  OBVIOUS
<1>1. /\ queue = << >> /\ queue \in Seq(Events) /\ Len(queue) = 0
      /\ call = [t \in Publishers \cup {Svc} |-> Q!NoCall]
      /\ ctl = "down" /\ svc = "none" /\ ev = NoEvent
      /\ published = {} /\ deleted = {}
  BY DEF Init, Q!Init
<1>2. PathOK /\ QuietWhenDown
  BY <1>1 DEF PathOK, QuietWhenDown, Busy
<1>3. \A p \in Publishers, e \in Events : ~Handing(p, e)
  BY <1>1, Calls DEF Handing
<1> QED
  BY <1>1, <1>2, <1>3 DEF IInv, Apart

\* The invariant gives each event one holder at most.
LEMMA OneHolder == IInv => EventOwnedOnce
<1> SUFFICES ASSUME IInv, NEW e \in Events
             PROVE  Cardinality(Holders(e)) <= (IF e \in deleted THEN 0 ELSE 1)
  BY DEF EventOwnedOnce
<1>1. \A p \in Publishers : call[p] # Q!NoCall /\ call[p].item = e => Handing(p, e)
  BY DEF IInv, PathOK, Handing
<1>2. DOMAIN queue = 1..Len(queue)
  BY DEF IInv, PathOK
<1>3. e \in deleted => Holders(e) = {}
  BY <1>1, <1>2, NoEventAssumption DEF IInv, Apart, Holders
<1>4. Holders(e) = {} \/ \E x : Holders(e) = {x}
  <2>1. \A x, y \in Holders(e) : x = y
    BY <1>1, <1>2, NoEventAssumption DEF IInv, Apart, Holders
  <2> QED
    BY <2>1
<1>5. Cardinality({}) = 0 /\ \A x : Cardinality({x}) = 1
  BY FS_EmptySet, FS_Singleton
<1> QED
  BY <1>3, <1>4, <1>5

-----------------------------------------------------------------------------
(* What a dispatch has done so far.                                        *)

\* The types of the service's other fields, and of the calls on its queue.
FieldsType ==
  /\ svr_exit \in BOOLEAN /\ inits \in 0..MaxInits
  /\ capacity = MaxItems /\ closing = FALSE
  /\ call \in [Publishers \cup {Svc} -> Q!AllCalls \cup {Q!NoCall}]
  /\ ret \in [Publishers \cup {Svc} -> Q!Results]
  /\ published \subseteq Events /\ deleted \subseteq Events
SubscribersType ==
  /\ DOMAIN subscribers \subseteq Eids
  /\ \A k \in DOMAIN subscribers :
       subscribers[k] \in Seq(Handlers) /\ IsInjective(subscribers[k])
IterType ==
  iter \in [pos : Nat, wild : BOOLEAN, due : SUBSET Handlers,
            called : Seq(Handlers), removed : BOOLEAN]

\* While the vector s has lost no handler, those before the iterator are the ones
\* called, in their order, and all that were there at first still are.
Aligned(s) ==
  /\ iter.due \subseteq ToSet(s)
  /\ iter.pos \in 1..(Len(s) + 1)
  /\ svc = "handling" => iter.pos <= Len(s)
  /\ Len(iter.called) = (IF svc = "handling" THEN iter.pos ELSE iter.pos - 1)
  /\ \A i \in 1..Len(iter.called) : iter.called[i] = s[i]

\* The loop stands in a vector that is still in the map, aligned with it unless
\* a handler was unsubscribed; between two dispatches nothing is iterated.
Delivering ==
  /\ svc \in {"none", "check", "dequeue", "process", "clear", "exited"}
       => iter = NotIterating
  /\ Dispatching => /\ EidOf[ev] \in DOMAIN subscribers
                    /\ ~iter.removed => Aligned(subscribers[EidOf[ev]])
  /\ DeliveredUnlessUnsubscribed

DInv == IInv /\ FieldsType /\ SubscribersType /\ IterType /\ Delivering

\* The parts give the whole type.
LEMMA TypeParts ==
  IInv /\ FieldsType /\ SubscribersType /\ IterType => TypeOK
BY DEF IInv, PathOK, Busy, FieldsType, SubscribersType, IterType, TypeOK

\* What a call returns is a result.
LEMMA ResultTypes ==
  /\ Q!Failure \in Q!Results
  /\ \A e \in Events \cup {NoEvent} : Q!Success(e) \in Q!Results
BY DEF Q!Failure, Q!Success, Q!Results

\* A call that returns keeps the types of the queue's calls.
LEMMA ReturnTypes ==
  ASSUME FieldsType, NEW t \in Publishers \cup {Svc}, NEW r \in Q!Results,
         Q!Return(t, r)
  PROVE  /\ call' \in [Publishers \cup {Svc} -> Q!AllCalls \cup {Q!NoCall}]
         /\ ret' \in [Publishers \cup {Svc} -> Q!Results]
         /\ capacity' = MaxItems /\ closing' = FALSE
BY DEF FieldsType, Q!Return

\* So does a call that begins.
LEMMA InvokeTypes ==
  ASSUME FieldsType, NEW t \in Publishers \cup {Svc}, Q!Invoke(t)
  PROVE  /\ call' \in [Publishers \cup {Svc} -> Q!AllCalls \cup {Q!NoCall}]
         /\ ret' \in [Publishers \cup {Svc} -> Q!Results]
         /\ capacity' = MaxItems /\ closing' = FALSE
BY DEF FieldsType, Q!Invoke

\* An iterator at the beginning has its type.
LEMMA IterationType ==
  ASSUME NEW hs \in SUBSET Handlers
  PROVE  /\ Iteration(hs) \in [pos : Nat, wild : BOOLEAN, due : SUBSET Handlers,
                               called : Seq(Handlers), removed : BOOLEAN]
         /\ Iteration(hs).pos = 1 /\ Iteration(hs).due = hs
         /\ Iteration(hs).called = << >>
BY DEF Iteration

\* Every step keeps the types of the fields.
LEMMA FieldsStep ==
  ASSUME DInv, [Next]_vars
  PROVE  FieldsType'
<1> USE DEF DInv
<1> DEFINE calls == /\ call' \in [Publishers \cup {Svc} -> Q!AllCalls \cup {Q!NoCall}]
                    /\ ret' \in [Publishers \cup {Svc} -> Q!Results]
                    /\ capacity' = MaxItems /\ closing' = FALSE
           flags == svr_exit' \in BOOLEAN /\ inits' \in 0..MaxInits
           history == published' \subseteq Events /\ deleted' \subseteq Events
<1>1. calls /\ flags /\ history => FieldsType'
  BY DEF FieldsType
<1>2. UNCHANGED queueVars => calls
  BY DEF queueVars, FieldsType
<1>3. UNCHANGED ctlVars => flags
  BY DEF ctlVars, FieldsType
<1>4. UNCHANGED events => history
  BY DEF events, FieldsType
<1>5. CASE InitCreate \/ InitResetExit \/ Uninit \/ UninitReturn
  <2>1. UNCHANGED queueVars /\ UNCHANGED events
    BY <1>5 DEF InitCreate, InitResetExit, Uninit, UninitReturn
  <2>2. inits' \in 0..MaxInits
    BY <1>5, BoundsAssumption
       DEF InitCreate, InitResetExit, Uninit, UninitReturn, FieldsType
  <2>3. svr_exit' \in BOOLEAN
    BY <1>5, Zenon
       DEF InitCreate, InitResetExit, Uninit, UninitReturn, FieldsType
  <2> QED
    BY <1>1, <1>2, <1>4, <2>1, <2>2, <2>3
<1>6. CASE \/ \E k \in Eids, h \in Handlers : Subscribe(k, h) \/ Unsubscribe(k, h)
           \/ ProcessFind \/ ProcessLoop \/ HandleReturn \/ SvcExit
           \/ UNCHANGED vars
  <2>1. UNCHANGED queueVars /\ UNCHANGED ctlVars /\ UNCHANGED events
    BY <1>6 DEF Subscribe, Unsubscribe, ProcessFind, ProcessLoop, HandleReturn,
                SvcExit, vars
  <2> QED
    BY <1>1, <1>2, <1>3, <1>4, <2>1
<1>7. ASSUME NEW p \in Publishers, NEW e \in Events, Publish(p, e)
      PROVE  FieldsType'
  <2>1. calls
    BY <1>7, InvokeTypes DEF Publish
  <2>2. UNCHANGED ctlVars /\ published' = published \cup {e} /\ deleted' = deleted
    BY <1>7 DEF Publish
  <2>3. history
    BY <2>2 DEF FieldsType
  <2> QED
    BY <1>1, <1>3, <2>1, <2>2, <2>3
<1>8. ASSUME NEW p \in Publishers, PublishReturn(p)
      PROVE  FieldsType'
  <2>1. \E r \in Q!Results : Q!Return(p, r)
    BY <1>8, ResultTypes DEF PublishReturn, Q!Put, Q!Refuse
  <2>2. calls
    BY <2>1, ReturnTypes
  <2>3. UNCHANGED ctlVars /\ UNCHANGED events
    BY <1>8 DEF PublishReturn
  <2> QED
    BY <1>1, <1>3, <1>4, <2>2, <2>3
<1>9. CASE SvcCheck
  <2>1. UNCHANGED ctlVars /\ UNCHANGED events
    BY <1>9 DEF SvcCheck
  <2>2. CASE UNCHANGED queueVars
    BY <1>1, <1>2, <1>3, <1>4, <2>1, <2>2
  <2>3. CASE Q!Invoke(Svc)
    <3>1. calls
      BY <2>3, InvokeTypes
    <3> QED
      BY <1>1, <1>3, <1>4, <2>1, <3>1
  <2> QED
    BY <1>9, <2>2, <2>3 DEF SvcCheck
<1>10. CASE SvcDequeued \/ SvcNoEvent
  <2>1. UNCHANGED ctlVars /\ UNCHANGED events
    BY <1>10 DEF SvcDequeued, SvcNoEvent
  <2>2. \E r \in Q!Results : Q!Return(Svc, r)
    <3>1. CASE SvcDequeued
      <4>1. Q!Return(Svc, Q!Success(Head(queue))) /\ queue # << >>
        BY <3>1 DEF SvcDequeued, Q!Take
      <4>2. Head(queue) \in Events
        BY <4>1, HeadTail DEF IInv, PathOK
      <4> QED
        BY <4>1, <4>2, ResultTypes
    <3>2. CASE SvcNoEvent
      BY <3>2, ResultTypes DEF SvcNoEvent, Q!Refuse
    <3> QED
      BY <1>10, <3>1, <3>2
  <2>3. calls
    BY <2>2, ReturnTypes
  <2> QED
    BY <1>1, <1>3, <1>4, <2>1, <2>3
<1>11. CASE DeleteEvent
  <2>1. /\ UNCHANGED queueVars /\ UNCHANGED ctlVars
        /\ published' = published /\ deleted' = deleted \cup {ev} /\ svc = "done"
    BY <1>11 DEF DeleteEvent
  <2>2. ev \in Events
    BY <2>1 DEF IInv, PathOK, Busy
  <2>3. history
    BY <2>1, <2>2 DEF FieldsType
  <2> QED
    BY <1>1, <1>2, <1>3, <2>1, <2>3
<1> QED
  BY <1>5, <1>6, <1>7, <1>8, <1>9, <1>10, <1>11 DEF Next, SvcStep

-----------------------------------------------------------------------------
(* A vector that changes under the loop. *)

\* push_back keeps the handlers a vector has, and their places.
LEMMA SubscribeFacts ==
  ASSUME SubscribersType, NEW k \in Eids, NEW h \in Handlers, Subscribe(k, h)
  PROVE  /\ SubscribersType'
         /\ \A j \in DOMAIN subscribers :
              /\ j \in DOMAIN subscribers'
              /\ Len(subscribers[j]) <= Len(subscribers'[j])
              /\ \A i \in 1..Len(subscribers[j]) :
                   subscribers'[j][i] = subscribers[j][i]
<1> DEFINE s == HandlersOf(k)
           t == Append(s, h)
<1>1. /\ DOMAIN subscribers' = DOMAIN subscribers \cup {k}
      /\ subscribers'[k] = t
      /\ \A j \in DOMAIN subscribers : j # k => subscribers'[j] = subscribers[j]
  BY DEF Subscribe
<1>2. s \in Seq(Handlers) /\ IsInjective(s) /\ Len(s) \in Nat
  BY DEF SubscribersType, HandlersOf, IsInjective
<1>3. \A i \in DOMAIN s : s[i] # h
  BY <1>2 DEF Subscribe, Subscribed, Contains, HandlersOf
<1>4. k \in DOMAIN subscribers => s = subscribers[k]
  BY DEF HandlersOf
<1> HIDE DEF s
<1>5. /\ t \in Seq(Handlers) /\ Len(t) = Len(s) + 1
      /\ DOMAIN t = DOMAIN s \cup {Len(s) + 1}
      /\ t[Len(s) + 1] = h
      /\ \A i \in DOMAIN s : t[i] = s[i]
  BY <1>2, AppendFacts
<1> HIDE DEF t
<1>6. IsInjective(t)
  BY <1>2, <1>3, <1>5 DEF IsInjective
<1>7. SubscribersType'
  BY <1>1, <1>5, <1>6 DEF SubscribersType
<1>8. ASSUME NEW j \in DOMAIN subscribers
      PROVE  /\ Len(subscribers[j]) <= Len(subscribers'[j])
             /\ \A i \in 1..Len(subscribers[j]) :
                  subscribers'[j][i] = subscribers[j][i]
  <2>1. CASE j = k
    BY <1>1, <1>2, <1>4, <1>5, <2>1
  <2>2. CASE j # k
    BY <1>1, <2>2 DEF SubscribersType
  <2> QED
    BY <2>1, <2>2
<1> QED
  BY <1>1, <1>7, <1>8

\* erase changes the vector of its id and no other.
LEMMA UnsubscribeFacts ==
  ASSUME SubscribersType, NEW k \in Eids, NEW h \in Handlers, Unsubscribe(k, h)
  PROVE  /\ SubscribersType'
         /\ DOMAIN subscribers' = DOMAIN subscribers
         /\ \A j \in DOMAIN subscribers : j # k => subscribers'[j] = subscribers[j]
<1> DEFINE s == subscribers[k]
           n == CHOOSE i \in DOMAIN s : s[i] = h
           t == RemoveAt(s, n)
<1>1. k \in DOMAIN subscribers /\ subscribers' = [subscribers EXCEPT ![k] = t]
  BY DEF Unsubscribe, Subscribed
<1>2. s \in Seq(Handlers) /\ IsInjective(s)
  BY <1>1 DEF SubscribersType
<1>3. n \in DOMAIN s
  <2>1. \E i \in 1..Len(s) : s[i] = h
    BY DEF Unsubscribe, Subscribed, Contains
  <2>2. \E i \in DOMAIN s : s[i] = h
    BY <1>2, <2>1
  <2> QED
    BY <2>2
<1> HIDE DEF n
<1>4. t \in Seq(Handlers) /\ IsInjective(t)
  BY <1>2, <1>3, RemoveAtFacts, RemoveAtInjective
<1> HIDE DEF t
<1>5. /\ DOMAIN subscribers' = DOMAIN subscribers
      /\ subscribers'[k] = t
      /\ \A j \in DOMAIN subscribers : j # k => subscribers'[j] = subscribers[j]
  BY <1>1
<1> QED
  BY <1>4, <1>5 DEF SubscribersType

\* The vector a dispatch iterates over.
Vector == subscribers[EidOf[ev]]

\* It is a sequence of distinct handlers.
LEMMA VectorType ==
  ASSUME DInv, Dispatching
  PROVE  /\ EidOf[ev] \in DOMAIN subscribers
         /\ Vector \in Seq(Handlers) /\ IsInjective(Vector)
         /\ Len(Vector) \in Nat /\ DOMAIN Vector = 1..Len(Vector)
         /\ ~iter.removed => Aligned(Vector)
BY DEF DInv, Delivering, SubscribersType, Vector

\* A step that touches neither the vectors nor the dispatch keeps it.
LEMMA DeliveryStands ==
  ASSUME DInv, UNCHANGED <<subscribers, svc, ev, iter>>
  PROVE  SubscribersType' /\ IterType' /\ Delivering'
<1>1. SubscribersType' /\ IterType'
  BY DEF DInv, SubscribersType, IterType
<1>2. Delivering'
  BY DEF DInv, Delivering, Dispatching, Aligned, DeliveredUnlessUnsubscribed
<1> QED
  BY <1>1, <1>2

\* So does a step between two dispatches.
LEMMA BetweenDispatches ==
  ASSUME DInv, UNCHANGED <<subscribers, iter>>,
         svc \in {"none", "check", "dequeue", "process", "clear", "exited"},
         svc' \in {"none", "check", "dequeue", "process", "clear", "exited"}
  PROVE  SubscribersType' /\ IterType' /\ Delivering'
<1>1. SubscribersType' /\ IterType'
  BY DEF DInv, SubscribersType, IterType
<1>2. iter' = NotIterating
  BY DEF DInv, Delivering
<1>3. svc' \notin {"loop", "handling", "done", "undefined"}
  OBVIOUS
<1>4. DeliveredUnlessUnsubscribed'
  BY <1>3 DEF DeliveredUnlessUnsubscribed
<1>5. ~Dispatching'
  BY <1>3 DEF Dispatching
<1>6. NotIterating' = NotIterating
  BY DEF NotIterating, Iteration
<1> QED
  BY <1>1, <1>2, <1>4, <1>5, <1>6 DEF Delivering

\* A handler that subscribes comes behind those the loop has still to call.
LEMMA SubscribeStep ==
  ASSUME DInv, NEW k \in Eids, NEW h \in Handlers, Subscribe(k, h)
  PROVE  SubscribersType' /\ IterType' /\ Delivering'
<1>1. /\ SubscribersType'
      /\ \A j \in DOMAIN subscribers :
           /\ j \in DOMAIN subscribers'
           /\ Len(subscribers[j]) <= Len(subscribers'[j])
           /\ \A i \in 1..Len(subscribers[j]) :
                subscribers'[j][i] = subscribers[j][i]
  BY SubscribeFacts DEF DInv
<1>2. UNCHANGED <<svc, ev>>
  BY DEF Subscribe
<1>3. CASE ~Dispatching
  <2>1. iter' = iter
    BY <1>3 DEF Subscribe, IterationSees
  <2>2. IterType'
    BY <2>1 DEF DInv, IterType
  <2>3. ~Dispatching'
    BY <1>2, <1>3 DEF Dispatching
  <2>4. Delivering'
    BY <1>2, <2>1, <2>3
       DEF DInv, Delivering, DeliveredUnlessUnsubscribed, NotIterating, Iteration
  <2> QED
    BY <1>1, <2>2, <2>4
<1>4. CASE Dispatching
  <2>1. iter' = iter \/ iter' = [iter EXCEPT !.wild = TRUE]
    BY DEF Subscribe, IterationSees
  <2>2. IterType'
    BY <2>1 DEF DInv, IterType
  <2>3. /\ iter'.pos = iter.pos /\ iter'.due = iter.due
        /\ iter'.called = iter.called
        /\ iter'.removed = iter.removed
    BY <2>1 DEF DInv, IterType
  <2>4. svc' \in {"loop", "handling"} /\ Dispatching'
    BY <1>2, <1>4 DEF Dispatching
  <2>5. /\ Vector \in Seq(Handlers) /\ EidOf[ev] \in DOMAIN subscribers
        /\ ~iter.removed => Aligned(Vector)
        /\ Vector' \in Seq(Handlers) /\ EidOf[ev'] \in DOMAIN subscribers'
        /\ Len(Vector) <= Len(Vector')
        /\ \A i \in 1..Len(Vector) : Vector'[i] = Vector[i]
    BY <1>1, <1>2, <1>4, VectorType DEF Vector, SubscribersType
  <2>6. ASSUME ~iter.removed
        PROVE  Aligned(Vector)'
    <3>1. /\ iter.due \subseteq ToSet(Vector)
          /\ iter.pos \in 1..(Len(Vector) + 1)
          /\ svc = "handling" => iter.pos <= Len(Vector)
          /\ Len(iter.called) = (IF svc = "handling" THEN iter.pos ELSE iter.pos - 1)
          /\ \A i \in 1..Len(iter.called) : iter.called[i] = Vector[i]
      BY <2>5, <2>6 DEF Aligned
    <3>2. Len(Vector) \in Nat /\ Len(Vector') \in Nat
      BY <2>5
    <3>3. iter'.due \subseteq ToSet(Vector')
      <4>1. ASSUME NEW i \in DOMAIN Vector
            PROVE  Vector[i] \in ToSet(Vector')
        BY <2>5, <3>2 DEF ToSet
      <4> QED
        BY <2>3, <3>1, <4>1 DEF ToSet
    <3>4. /\ iter'.pos \in 1..(Len(Vector') + 1)
          /\ svc' = "handling" => iter'.pos <= Len(Vector')
      BY <1>2, <2>3, <2>5, <3>1, <3>2
    <3>5. Len(iter'.called)
            = (IF svc' = "handling" THEN iter'.pos ELSE iter'.pos - 1)
      BY <1>2, <2>3, <3>1
    <3>6. \A i \in 1..Len(iter'.called) : iter'.called[i] = Vector'[i]
      <4>1. \A i \in 1..Len(iter.called) : i \in 1..Len(Vector)
        BY <3>1, <3>2
      <4> QED
        BY <2>3, <2>5, <3>1, <4>1
    <3> QED
      BY <3>3, <3>4, <3>5, <3>6 DEF Aligned
  <2>7. ~iter'.removed => Aligned(Vector)'
    BY <2>3, <2>6
  <2>8. DeliveredUnlessUnsubscribed'
    BY <2>4 DEF DeliveredUnlessUnsubscribed
  <2>9. Delivering'
    BY <2>4, <2>5, <2>7, <2>8 DEF Delivering, Vector
  <2> QED
    BY <1>1, <2>2, <2>9
<1> QED
  BY <1>3, <1>4

\* After an unsubscribe nothing is promised of the dispatch it disturbed.
LEMMA UnsubscribeStep ==
  ASSUME DInv, NEW k \in Eids, NEW h \in Handlers, Unsubscribe(k, h)
  PROVE  SubscribersType' /\ IterType' /\ Delivering'
<1>1. /\ SubscribersType'
      /\ DOMAIN subscribers' = DOMAIN subscribers
      /\ \A j \in DOMAIN subscribers : j # k => subscribers'[j] = subscribers[j]
  BY UnsubscribeFacts DEF DInv
<1>2. UNCHANGED <<svc, ev>> /\ (Dispatching' <=> Dispatching)
  BY DEF Unsubscribe, Dispatching
<1>3. CASE Dispatching /\ EidOf[ev] = k
  <2>1. iter' = [iter EXCEPT !.removed = TRUE, !.due = @ \ {h}]
    BY <1>3 DEF Unsubscribe, IterationSees
  <2>2. IterType'
    BY <2>1 DEF DInv, IterType
  <2>3. iter'.removed
    BY <2>1 DEF DInv, IterType
  <2>4. svc' \in {"loop", "handling"}
    BY <1>2, <1>3 DEF Dispatching
  <2>5. EidOf[ev'] \in DOMAIN subscribers'
    BY <1>1, <1>2, <1>3, VectorType
  <2>6. DeliveredUnlessUnsubscribed'
    BY <2>3 DEF DeliveredUnlessUnsubscribed
  <2>7. Delivering'
    BY <2>3, <2>4, <2>5, <2>6 DEF Delivering
  <2> QED
    BY <1>1, <2>2, <2>7
<1>4. CASE ~(Dispatching /\ EidOf[ev] = k)
  <2>1. iter' = iter
    BY <1>4 DEF Unsubscribe, IterationSees
  <2>2. IterType'
    BY <2>1 DEF DInv, IterType
  <2>3. DeliveredUnlessUnsubscribed'
    BY <1>2, <2>1 DEF DInv, Delivering, DeliveredUnlessUnsubscribed
  <2>4. ASSUME Dispatching'
        PROVE  /\ EidOf[ev'] \in DOMAIN subscribers'
               /\ ~iter'.removed => Aligned(subscribers[EidOf[ev]])'
    <3>1. Dispatching /\ EidOf[ev] \in DOMAIN subscribers /\ EidOf[ev] # k
      BY <1>2, <1>4, <2>4, VectorType
    <3>2. subscribers'[EidOf[ev']] = subscribers[EidOf[ev]]
      BY <1>1, <1>2, <3>1
    <3>3. ~iter.removed => Aligned(subscribers[EidOf[ev]])
      BY <3>1 DEF DInv, Delivering
    <3> QED
      BY <1>1, <1>2, <2>1, <3>1, <3>2, <3>3 DEF Aligned
  <2>5. svc' \in {"none", "check", "dequeue", "process", "clear", "exited"}
          => iter' = NotIterating
    BY <1>2, <2>1 DEF DInv, Delivering
  <2>6. NotIterating' = NotIterating
    BY DEF NotIterating, Iteration
  <2> QED
    BY <1>1, <2>2, <2>3, <2>4, <2>5, <2>6 DEF Delivering
<1> QED
  BY <1>3, <1>4

-----------------------------------------------------------------------------
(* The loop. *)

\* A dispatch starts at the first handler, or there is nobody to call.
LEMMA FindStep ==
  ASSUME DInv, ProcessFind
  PROVE  SubscribersType' /\ IterType' /\ Delivering'
<1>1. svc = "process" /\ UNCHANGED <<subscribers, ev>>
  BY DEF ProcessFind
<1>2. SubscribersType'
  BY <1>1 DEF DInv, SubscribersType
<1>3. CASE EidOf[ev] \in DOMAIN subscribers
  <2> DEFINE hs == ToSet(subscribers[EidOf[ev]])
  <2>1. svc' = "loop" /\ iter' = Iteration(hs)
    BY <1>3 DEF ProcessFind
  <2>2. subscribers[EidOf[ev]] \in Seq(Handlers)
    BY <1>3 DEF DInv, SubscribersType
  <2>3. hs \in SUBSET Handlers /\ Len(subscribers[EidOf[ev]]) \in Nat
    BY <2>2 DEF ToSet
  <2>4. /\ IterType' /\ iter'.pos = 1 /\ iter'.due = hs
        /\ iter'.called = << >>
    BY <2>1, <2>3, IterationType DEF IterType
  <2>5. Aligned(subscribers[EidOf[ev]])'
    BY <1>1, <2>1, <2>3, <2>4 DEF Aligned
  <2>6. Delivering'
    BY <1>1, <1>3, <2>1, <2>5 DEF Delivering, DeliveredUnlessUnsubscribed
  <2> QED
    BY <1>2, <2>4, <2>6
<1>4. CASE EidOf[ev] \notin DOMAIN subscribers
  <2>1. svc' = "done" /\ iter' = iter
    BY <1>4 DEF ProcessFind
  <2>2. iter = NotIterating
    BY <1>1 DEF DInv, Delivering
  <2>3. iter'.due = {} /\ iter'.called = << >>
    BY <2>1, <2>2, IterationType DEF NotIterating
  <2>4. IterType'
    BY <2>1 DEF DInv, IterType
  <2>5. iter'.due \subseteq ToSet(iter'.called) /\ IsInjective(iter'.called)
    BY <2>3 DEF IsInjective
  <2>6. DeliveredUnlessUnsubscribed'
    BY <2>1, <2>5 DEF DeliveredUnlessUnsubscribed
  <2>7. ~Dispatching'
    BY <2>1 DEF Dispatching
  <2> QED
    BY <1>2, <2>1, <2>4, <2>6, <2>7 DEF Delivering
<1> QED
  BY <1>3, <1>4

\* The loop calls the next handler, ends behind the last one, or is derailed.
LEMMA LoopStep ==
  ASSUME DInv, ProcessLoop
  PROVE  SubscribersType' /\ IterType' /\ Delivering'
<1>1. svc = "loop" /\ Dispatching /\ UNCHANGED <<subscribers, ev>>
  BY DEF ProcessLoop, Dispatching
<1>2. SubscribersType'
  BY <1>1 DEF DInv, SubscribersType
<1>3. /\ EidOf[ev] \in DOMAIN subscribers
      /\ Vector \in Seq(Handlers) /\ IsInjective(Vector)
      /\ Len(Vector) \in Nat /\ DOMAIN Vector = 1..Len(Vector)
  BY <1>1, VectorType
<1>4. /\ iter.pos \in Nat /\ iter.called \in Seq(Handlers)
      /\ iter.due \in SUBSET Handlers
  BY DEF DInv, IterType
<1>5. ASSUME ~iter.removed
      PROVE  /\ iter.due \subseteq ToSet(Vector)
             /\ iter.pos \in 1..(Len(Vector) + 1)
             /\ Len(iter.called) = iter.pos - 1
             /\ \A i \in 1..Len(iter.called) : iter.called[i] = Vector[i]
  BY <1>1, <1>5, VectorType DEF Aligned
<1>6. CASE /\ iter.pos \in DOMAIN Vector
           /\ svc' = "handling"
           /\ iter' = [iter EXCEPT !.called = Append(@, Vector[iter.pos])]
  <2> DEFINE c == Append(iter.called, Vector[iter.pos])
  <2>1. Vector[iter.pos] \in Handlers
    BY <1>3, <1>6
  <2>2. /\ c \in Seq(Handlers) /\ Len(c) = Len(iter.called) + 1
        /\ c[Len(iter.called) + 1] = Vector[iter.pos]
        /\ \A i \in DOMAIN iter.called : c[i] = iter.called[i]
    BY <1>4, <2>1, AppendFacts
  <2>3. iter' = [iter EXCEPT !.called = c]
    BY <1>6
  <2> HIDE DEF c
  <2>4. IterType'
    BY <2>2, <2>3 DEF DInv, IterType
  <2>5. /\ iter'.pos = iter.pos /\ iter'.due = iter.due /\ iter'.called = c
        /\ iter'.removed = iter.removed
    BY <2>3 DEF DInv, IterType
  <2>6. ASSUME ~iter.removed
        PROVE  Aligned(Vector)'
    <3>1. Vector' = Vector
      BY <1>1 DEF Vector
    <3>2. Len(c) = iter.pos /\ iter.pos <= Len(Vector)
      BY <1>3, <1>4, <1>5, <1>6, <2>2, <2>6
    <3>3. \A i \in 1..Len(c) : c[i] = Vector[i]
      BY <1>3, <1>4, <1>5, <2>2, <2>6, <3>2
    <3> QED
      BY <1>5, <1>6, <2>5, <2>6, <3>1, <3>2, <3>3 DEF Aligned
  <2>7. Delivering'
    BY <1>1, <1>3, <1>6, <2>5, <2>6
       DEF Delivering, DeliveredUnlessUnsubscribed, Vector
  <2> QED
    BY <1>2, <2>4, <2>7
<1>7. CASE iter.pos = Len(Vector) + 1 /\ svc' = "done" /\ iter' = iter
  <2>1. IterType'
    BY <1>7 DEF DInv, IterType
  <2>2. ASSUME ~iter.removed
        PROVE  iter.due \subseteq ToSet(iter.called) /\ IsInjective(iter.called)
    <3>1. Len(iter.called) = Len(Vector) /\ DOMAIN iter.called = DOMAIN Vector
      BY <1>3, <1>4, <1>5, <1>7, <2>2
    <3>2. \A i \in DOMAIN Vector : iter.called[i] = Vector[i]
      BY <1>3, <1>5, <2>2, <3>1
    <3>3. ToSet(iter.called) = ToSet(Vector)
      BY <3>1, <3>2 DEF ToSet
    <3>4. IsInjective(iter.called)
      BY <1>3, <3>1, <3>2 DEF IsInjective
    <3> QED
      BY <1>5, <2>2, <3>3, <3>4
  <2>3. DeliveredUnlessUnsubscribed'
    BY <1>7, <2>2 DEF DeliveredUnlessUnsubscribed
  <2>4. ~Dispatching'
    BY <1>7 DEF Dispatching
  <2> QED
    BY <1>2, <1>7, <2>1, <2>3, <2>4 DEF Delivering
<1>8. CASE /\ iter.wild \/ iter.pos > Len(Vector) + 1
           /\ svc' = "undefined" /\ iter' = iter
  <2>1. IterType'
    BY <1>8 DEF DInv, IterType
  <2>2. ASSUME ~iter.removed
        PROVE  iter.wild
    <3>1. ~(iter.pos > Len(Vector) + 1)
      BY <1>3, <1>5, <2>2
    <3> QED
      BY <1>8, <3>1
  <2>3. DeliveredUnlessUnsubscribed'
    BY <1>8, <2>2 DEF DeliveredUnlessUnsubscribed
  <2>4. ~Dispatching'
    BY <1>8 DEF Dispatching
  <2> QED
    BY <1>2, <1>8, <2>1, <2>3, <2>4 DEF Delivering
<1> QED
  BY <1>6, <1>7, <1>8 DEF ProcessLoop, Vector

\* A handler returns, and the iterator goes on to the next.
LEMMA HandleReturnStep ==
  ASSUME DInv, HandleReturn
  PROVE  SubscribersType' /\ IterType' /\ Delivering'
<1>1. svc = "handling" /\ Dispatching /\ svc' = "loop"
      /\ UNCHANGED <<subscribers, ev>> /\ iter' = [iter EXCEPT !.pos = @ + 1]
  BY DEF HandleReturn, Dispatching
<1>2. SubscribersType'
  BY <1>1 DEF DInv, SubscribersType
<1>3. iter.pos \in Nat /\ IterType'
  BY <1>1 DEF DInv, IterType
<1>4. /\ iter'.pos = iter.pos + 1 /\ iter'.due = iter.due
      /\ iter'.called = iter.called /\ iter'.removed = iter.removed
  BY <1>1 DEF DInv, IterType
<1>5. Len(Vector) \in Nat /\ EidOf[ev] \in DOMAIN subscribers
  BY <1>1, VectorType
<1>6. ASSUME ~iter.removed
      PROVE  Aligned(Vector)'
  <2>1. Aligned(Vector)
    BY <1>1, <1>6, VectorType
  <2>2. Vector' = Vector
    BY <1>1 DEF Vector
  <2>3. iter'.pos \in 1..(Len(Vector) + 1) /\ Len(iter'.called) = iter'.pos - 1
    BY <1>1, <1>3, <1>4, <1>5, <2>1 DEF Aligned
  <2> QED
    BY <1>1, <1>4, <2>1, <2>2, <2>3 DEF Aligned
<1>7. Delivering'
  BY <1>1, <1>4, <1>5, <1>6
     DEF Delivering, DeliveredUnlessUnsubscribed, Vector
<1> QED
  BY <1>2, <1>3, <1>7

\* The event is gone and so is the iterator.
LEMMA DeleteEventStep ==
  ASSUME DInv, DeleteEvent
  PROVE  SubscribersType' /\ IterType' /\ Delivering'
<1>1. svc' = "check" /\ iter' = NotIterating /\ UNCHANGED subscribers
  BY DEF DeleteEvent
<1>2. SubscribersType'
  BY <1>1 DEF DInv, SubscribersType
<1>3. IterType'
  BY <1>1, IterationType DEF IterType, NotIterating
<1>4. ~Dispatching' /\ DeliveredUnlessUnsubscribed'
  BY <1>1 DEF Dispatching, DeliveredUnlessUnsubscribed
<1>5. NotIterating' = NotIterating
  BY DEF NotIterating, Iteration
<1> QED
  BY <1>1, <1>2, <1>3, <1>4, <1>5 DEF Delivering

\* The thread that ends drops every vector, with no dispatch in any.
LEMMA ExitStep ==
  ASSUME DInv, SvcExit
  PROVE  SubscribersType' /\ IterType' /\ Delivering'
<1>1. /\ svc = "clear" /\ svc' = "exited" /\ iter' = iter
      /\ subscribers' = NoSubscribers
  BY DEF SvcExit
<1>2. SubscribersType'
  BY <1>1 DEF SubscribersType, NoSubscribers
<1>3. IterType' /\ iter' = NotIterating
  BY <1>1 DEF DInv, IterType, Delivering
<1>4. ~Dispatching' /\ DeliveredUnlessUnsubscribed'
  BY <1>1 DEF Dispatching, DeliveredUnlessUnsubscribed
<1>5. NotIterating' = NotIterating
  BY DEF NotIterating, Iteration
<1> QED
  BY <1>2, <1>3, <1>4, <1>5 DEF Delivering

\* Every step keeps the account of the dispatch.
LEMMA DeliveryStep ==
  ASSUME DInv, [Next]_vars
  PROVE  SubscribersType' /\ IterType' /\ Delivering'
<1>1. CASE \/ InitResetExit \/ Uninit \/ UninitReturn
           \/ \E p \in Publishers :
                PublishReturn(p) \/ \E e \in Events : Publish(p, e)
           \/ UNCHANGED vars
  <2>1. UNCHANGED <<subscribers, svc, ev, iter>>
    BY <1>1 DEF InitResetExit, Uninit, UninitReturn, PublishReturn, Publish, vars
  <2> QED
    BY <2>1, DeliveryStands
<1>2. CASE InitCreate
  <2>1. /\ svc \in {"none", "exited"} /\ svc' = "check"
        /\ UNCHANGED <<subscribers, iter>>
    BY <1>2 DEF InitCreate, DInv, IInv, QuietWhenDown
  <2> QED
    BY <2>1, BetweenDispatches
<1>3. CASE SvcCheck \/ SvcDequeued \/ SvcNoEvent
  <2>1. /\ svc \in {"check", "dequeue"}
        /\ svc' \in {"check", "dequeue", "process", "clear"}
        /\ UNCHANGED <<subscribers, iter>>
    BY <1>3 DEF SvcCheck, SvcDequeued, SvcNoEvent
  <2> QED
    BY <2>1, BetweenDispatches
<1> QED
  BY <1>1, <1>2, <1>3, SubscribeStep, UnsubscribeStep, FindStep, LoopStep,
     HandleReturnStep, DeleteEventStep, ExitStep DEF Next, SvcStep

\* The whole invariant is inductive.
LEMMA DInductive == DInv /\ [Next]_vars => DInv'
<1> SUFFICES ASSUME DInv, [Next]_vars PROVE DInv'
  OBVIOUS
<1>1. IInv'
  BY Inductive DEF DInv
<1> QED
  BY <1>1, FieldsStep, DeliveryStep DEF DInv

\* It holds at first, with no handler and no dispatch.
LEMMA DInitially == Init => DInv
<1> SUFFICES ASSUME Init PROVE DInv
  OBVIOUS
<1>1. FieldsType
  <2>1. svr_exit \in BOOLEAN
    BY DEF Init
  <2>2. inits \in 0..MaxInits
    BY BoundsAssumption DEF Init
  <2>3. /\ capacity = MaxItems /\ closing = FALSE
        /\ published \subseteq Events /\ deleted \subseteq Events
    BY DEF Init, Q!Init
  <2>4. /\ call \in [Publishers \cup {Svc} -> Q!AllCalls \cup {Q!NoCall}]
        /\ ret \in [Publishers \cup {Svc} -> Q!Results]
    BY ResultTypes DEF Init, Q!Init
  <2> QED
    BY <2>1, <2>2, <2>3, <2>4 DEF FieldsType
<1>2. SubscribersType
  BY DEF Init, NoSubscribers, SubscribersType
<1>3. svc = "none" /\ iter = NotIterating
  BY DEF Init
<1>4. IterType
  BY <1>3, IterationType DEF IterType, NotIterating
<1>5. Delivering
  BY <1>3 DEF Delivering, Dispatching, DeliveredUnlessUnsubscribed
<1> QED
  BY <1>1, <1>2, <1>4, <1>5, Initially DEF DInv

-----------------------------------------------------------------------------
(* The theorems. *)

\* The fields of the service, the calls on its queue and the locals of its
\* thread keep their types, and no handler is twice in a vector.
THEOREM ServiceTypes == Spec => []TypeOK
<1>1. DInv => TypeOK
  BY TypeParts DEF DInv
<1> QED
  BY <1>1, DInitially, DInductive, PTL DEF Spec

\* However handlers subscribe while process() walks over their vector
\* (DispatchMsgService.cpp:114), an event whose id nobody unsubscribes from
\* meanwhile reaches every handler subscribed when the walk began, none twice,
\* and only a reallocation of the vector can derail the walk.
THEOREM Delivered == Spec => []DeliveredUnlessUnsubscribed
<1>1. DInv => DeliveredUnlessUnsubscribed
  BY DEF DInv, Delivering
<1> QED
  BY <1>1, DInitially, DInductive, PTL DEF Spec

\* Once uninit() has returned no handler runs and no event is on its way to
\* one (DispatchMsgService.cpp:39): the thread has been joined.
THEOREM Quiet == Spec => []QuietWhenDown
<1>1. IInv => QuietWhenDown
  BY DEF IInv
<1> QED
  BY <1>1, Initially, Inductive, PTL DEF Spec

\* No event is in two places at once, and none is used after its delete
\* (DispatchMsgService.cpp:110): the queue, the calls of publish and the thread
\* hand each of them on.
THEOREM OwnedOnce == Spec => []EventOwnedOnce
BY OneHolder, Initially, Inductive, PTL DEF Spec
=============================================================================
