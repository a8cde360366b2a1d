------------------------- MODULE DispatchMsgService -------------------------
(***************************************************************************)
(* DispatchMsgService of pubsub/DispatchMsgService.cpp: the broker between *)
(* publishers, which enqueue events, and handlers, which subscribe to      *)
(* event ids.  One thread, svc, takes the events from the message queue    *)
(* and calls the handlers.  subscribers_ is a map of vectors that every    *)
(* thread touches with no lock.                                            *)
(*                                                                         *)
(* The queue is the abstract one, BoundedFIFO, which PosixQueue is proved  *)
(* to implement.  A call of subscribe or unsubscribe is one step, made by  *)
(* any thread at any time, from within a handler too.                      *)
(***************************************************************************)
EXTENDS Integers, SequencesExt

CONSTANTS Handlers,   \* the iEventHandler objects
          Eids,       \* the event ids handlers subscribe to
          EID_UNKOWN, \* the id of an event that did not decode
          Events,     \* the iEvent objects, each published at most once
          EidOf,      \* their ids
          NoEvent,    \* the NULL event pointer
          Publishers, \* the threads that call publish
          Svc,        \* the thread init() creates
          MaxItems,   \* MAX_ITEM_IN_MSG_QUEUE
          MaxInits    \* bound: how often init() is called

ASSUME EidAssumption ==
  /\ EID_UNKOWN \notin Eids
  /\ EidOf \in [Events -> Eids \cup {EID_UNKOWN}]
ASSUME SvcAssumption == Svc \notin Publishers
ASSUME NoEventAssumption == NoEvent \notin Events
ASSUME BoundsAssumption == MaxItems \in Nat /\ MaxInits \in Nat

VARIABLES
  subscribers,        \* the map from event ids to vectors of handlers
  svr_exit,
  capacity, queue, closing, call, ret, \* msg_queue_ and the calls on it
  ctl,                \* how far the caller of init() and uninit() is
  inits,              \* calls of init() so far
  svc,                \* where thread Svc is
  ev,                 \* the event it dispatches
  iter,               \* its vector iterator, and the history of this dispatch
  published, deleted  \* history: events handed to publish; events deleted

queueVars == <<capacity, queue, closing, call, ret>>
ctlVars == <<ctl, inits, svr_exit>>
events == <<published, deleted>>
vars == <<subscribers, queueVars, ctlVars, svc, ev, iter, events>>

\* pos is the index the iterator stands at; wild, whether a reallocation has
\* left it dangling.  The history is the handlers subscribed since the dispatch
\* began, those called, and whether any was unsubscribed.
Iteration(handlers) ==
  [pos |-> 1, wild |-> FALSE,
   due |-> handlers, called |-> << >>, removed |-> FALSE]
NotIterating == Iteration({})

Q == INSTANCE BoundedFIFO
       WITH Threads <- Publishers \cup {Svc}, Items <- Events,
            NoItem <- NoEvent, contents <- queue

NoSubscribers == [k \in {} |-> << >>]
Subscribed(k, h) == k \in DOMAIN subscribers /\ Contains(subscribers[k], h)
HandlersOf(k) == IF k \in DOMAIN subscribers THEN subscribers[k] ELSE << >>
Dispatching == svc \in {"loop", "handling"}

-----------------------------------------------------------------------------
\* svr_exit_ is a member of a static object, so it starts as false.
Init ==
  /\ subscribers = NoSubscribers
  /\ svr_exit = FALSE
  /\ capacity = MaxItems /\ Q!Init
  /\ ctl = "down" /\ inits = 0
  /\ svc = "none" /\ ev = NoEvent
  /\ iter = NotIterating
  /\ published = {} /\ deleted = {}

\* init() creates the thread first and resets svr_exit_ afterwards.
InitCreate ==
  /\ ctl = "down" /\ inits < MaxInits
  /\ ctl' = "created" /\ inits' = inits + 1
  /\ svc' = "check"
  /\ UNCHANGED <<subscribers, queueVars, svr_exit, ev, iter, events>>

InitResetExit ==
  /\ ctl = "created"
  /\ ctl' = "up" /\ svr_exit' = FALSE
  /\ UNCHANGED <<subscribers, queueVars, inits, svc, ev, iter, events>>

Uninit ==
  /\ ctl = "up"
  /\ ctl' = "joining" /\ svr_exit' = TRUE
  /\ UNCHANGED <<subscribers, queueVars, inits, svc, ev, iter, events>>

\* Faulty variant: uninit() does not join the thread.
UninitReturnUnjoined ==
  /\ ctl = "joining"
  /\ ctl' = "down"
  /\ UNCHANGED <<subscribers, queueVars, inits, svr_exit, svc, ev, iter, events>>

\* pthread_join in uninit() returns.
UninitReturn ==
  /\ ctl = "joining" /\ svc = "exited"
  /\ ctl' = "down"
  /\ UNCHANGED <<subscribers, queueVars, inits, svr_exit, svc, ev, iter, events>>

-----------------------------------------------------------------------------
\* What a change of the vector of k does to a dispatch that iterates over it:
\* push_back may reallocate, and erase shifts the elements behind h in place.
IterationSees(k, h, erased) ==
  IF Dispatching /\ EidOf[ev] = k
    THEN IF erased
           THEN iter' = [iter EXCEPT !.removed = TRUE, !.due = @ \ {h}]
           ELSE iter' \in {iter, [iter EXCEPT !.wild = TRUE]}
    ELSE UNCHANGED iter

Subscribe(k, h) ==
  /\ ~Subscribed(k, h)
  /\ subscribers' = [j \in DOMAIN subscribers \cup {k} |->
                       IF j = k THEN Append(HandlersOf(k), h) ELSE subscribers[j]]
  /\ IterationSees(k, h, FALSE)
  /\ UNCHANGED <<queueVars, ctlVars, svc, ev, events>>

\* std::find() gives the first place that holds h, and erase() takes it out.
Unsubscribe(k, h) ==
  /\ Subscribed(k, h)
  /\ LET i == CHOOSE i \in DOMAIN subscribers[k] : subscribers[k][i] = h
     IN subscribers' = [subscribers EXCEPT ![k] = RemoveAt(@, i)]
  /\ IterationSees(k, h, TRUE)
  /\ UNCHANGED <<queueVars, ctlVars, svc, ev, events>>

\* publish(e) calls enqueue(e, 0), which returns whether it pushed or not.  An
\* event that was not pushed stays with the caller, and nobody deletes it.
Publish(p, e) ==
  /\ e \notin published
  /\ Q!Invoke(p)
  /\ call'[p] = [op |-> "enqueue", timeout |-> 0, item |-> e]
  /\ published' = published \cup {e}
  /\ UNCHANGED <<subscribers, ctlVars, svc, ev, iter, deleted>>

PublishReturn(p) ==
  /\ Q!Put(p) \/ Q!Refuse(p)
  /\ UNCHANGED <<subscribers, ctlVars, svc, ev, iter, events>>

-----------------------------------------------------------------------------
\* Faulty variant: the thread waits for the next event without a timeout.
DequeueForEver == [op |-> "dequeue", timeout |-> -1, item |-> NoEvent]

\* "wait only 1 ms to dequeue".
DequeueOneMs == [op |-> "dequeue", timeout |-> 1, item |-> NoEvent]

\* The head of svc's loop.
SvcCheck ==
  /\ svc = "check"
  /\ IF svr_exit
       THEN svc' = "clear" /\ UNCHANGED queueVars
       ELSE svc' = "dequeue" /\ Q!Invoke(Svc) /\ call'[Svc] = DequeueOneMs
  /\ UNCHANGED <<subscribers, ctlVars, ev, iter, events>>

\* Faulty variant: the event is read and left in the queue.
SvcPeeked ==
  /\ svc = "dequeue"
  /\ queue # << >> /\ UNCHANGED queue
  /\ Q!Return(Svc, Q!Success(Head(queue)))
  /\ ev' = Head(queue) /\ svc' = "process"
  /\ UNCHANGED <<subscribers, ctlVars, iter, events>>

SvcDequeued ==
  /\ svc = "dequeue"
  /\ Q!Take(Svc)
  /\ ev' = Head(queue) /\ svc' = "process"
  /\ UNCHANGED <<subscribers, ctlVars, iter, events>>

SvcNoEvent ==
  /\ svc = "dequeue"
  /\ Q!Refuse(Svc)
  /\ svc' = "check"
  /\ UNCHANGED <<subscribers, ctlVars, ev, iter, events>>

\* Faulty variant: an event nobody subscribed to ends the thread.
ProcessFindOrQuit ==
  /\ svc = "process"
  /\ \/ /\ EidOf[ev] \in DOMAIN subscribers
        /\ svc' = "loop" /\ iter' = Iteration(ToSet(subscribers[EidOf[ev]]))
     \/ /\ EidOf[ev] \notin DOMAIN subscribers
        /\ svc' = "clear" /\ UNCHANGED iter
  /\ UNCHANGED <<subscribers, queueVars, ctlVars, ev, events>>

\* process() finds the handlers of the event, if there are any; for EID_UNKOWN,
\* to which nobody subscribes, it does not even look.
ProcessFind ==
  /\ svc = "process"
  /\ \/ /\ EidOf[ev] \in DOMAIN subscribers
        /\ svc' = "loop" /\ iter' = Iteration(ToSet(subscribers[EidOf[ev]]))
     \/ /\ EidOf[ev] \notin DOMAIN subscribers
        /\ svc' = "done" /\ UNCHANGED iter
  /\ UNCHANGED <<subscribers, queueVars, ctlVars, ev, events>>

\* The loop compares the iterator with end() and calls the handler it stands
\* at.  An iterator that dangles, or stands beyond end(), is undefined
\* behaviour: nothing is said of the program after that.
ProcessLoop ==
  /\ svc = "loop"
  /\ LET handlers == subscribers[EidOf[ev]] IN
     \/ /\ ~iter.wild /\ iter.pos \in DOMAIN handlers
        /\ svc' = "handling"
        /\ iter' = [iter EXCEPT !.called = Append(@, handlers[iter.pos])]
     \/ /\ ~iter.wild /\ iter.pos = Len(handlers) + 1
        /\ svc' = "done" /\ UNCHANGED iter
     \/ /\ iter.wild \/ iter.pos > Len(handlers) + 1
        /\ svc' = "undefined" /\ UNCHANGED iter
  /\ UNCHANGED <<subscribers, queueVars, ctlVars, ev, events>>

\* Faulty variant: the loop stops when handle() returns false.
HandleReturnStop ==
  /\ svc = "handling"
  /\ iter' = [iter EXCEPT !.pos = @ + 1] /\ svc' \in {"loop", "done"}
  /\ UNCHANGED <<subscribers, queueVars, ctlVars, ev, events>>

HandleReturn ==
  /\ svc = "handling"
  /\ iter' = [iter EXCEPT !.pos = @ + 1] /\ svc' = "loop"
  /\ UNCHANGED <<subscribers, queueVars, ctlVars, ev, events>>

\* Faulty variant: the pointer is kept after delete.
DeleteEventDangling ==
  /\ svc = "done"
  /\ deleted' = deleted \cup {ev} /\ svc' = "check" /\ iter' = NotIterating
  /\ UNCHANGED <<subscribers, queueVars, ctlVars, ev, published>>

DeleteEvent ==
  /\ svc = "done"
  /\ deleted' = deleted \cup {ev} /\ ev' = NoEvent
  /\ svc' = "check" /\ iter' = NotIterating
  /\ UNCHANGED <<subscribers, queueVars, ctlVars, published>>

\* The thread leaves its loop and drops every subscription; what is still in
\* the queue stays there.
SvcExit ==
  /\ svc = "clear"
  /\ subscribers' = NoSubscribers /\ svc' = "exited"
  /\ UNCHANGED <<queueVars, ctlVars, ev, iter, events>>

SvcStep ==
  \/ SvcCheck \/ SvcDequeued \/ SvcNoEvent
  \/ ProcessFind \/ ProcessLoop \/ HandleReturn \/ DeleteEvent \/ SvcExit

Next ==
  /\ svc # "undefined"
  /\ \/ InitCreate \/ InitResetExit \/ Uninit \/ UninitReturn
     \/ \E k \in Eids, h \in Handlers : Subscribe(k, h) \/ Unsubscribe(k, h)
     \/ \E p \in Publishers :
          PublishReturn(p) \/ \E e \in Events : Publish(p, e)
     \/ SvcStep

Spec == Init /\ [][Next]_vars

\* The thread runs and every handle() returns; init() and uninit() go on.  Of
\* the queue: a dequeue on a list that is not empty does not wait, so a
\* list that stays so is popped in the end.
Fairness ==
  /\ WF_vars(svc # "undefined" /\ SvcStep)
  /\ SF_vars(SvcDequeued)
  /\ WF_vars(svc # "undefined" /\ (InitResetExit \/ UninitReturn))

FairSpec == Spec /\ Fairness

-----------------------------------------------------------------------------
\* The types of the service's fields and of the thread's locals.
TypeOK ==
  /\ DOMAIN subscribers \subseteq Eids
  /\ \A k \in DOMAIN subscribers :
       subscribers[k] \in Seq(Handlers) /\ IsInjective(subscribers[k])
  /\ svr_exit \in BOOLEAN
  /\ capacity = MaxItems /\ queue \in Seq(Events) /\ closing = FALSE
  /\ call \in [Publishers \cup {Svc} -> Q!AllCalls \cup {Q!NoCall}]
  /\ ret \in [Publishers \cup {Svc} -> Q!Results]
  /\ ctl \in {"down", "created", "up", "joining"} /\ inits \in 0..MaxInits
  /\ svc \in {"none", "check", "dequeue", "process", "loop", "handling", "done",
              "clear", "exited", "undefined"}
  /\ ev \in Events \cup {NoEvent}
  /\ ev # NoEvent
       <=> svc \in {"process", "loop", "handling", "done", "undefined"}
  /\ iter \in [pos : Nat, wild : BOOLEAN, due : SUBSET Handlers,
              called : Seq(Handlers), removed : BOOLEAN]
  /\ published \subseteq Events /\ deleted \subseteq Events

\* An event that is dispatched while nobody unsubscribes from its id reaches
\* every handler subscribed when the dispatch began, and none twice, although
\* others subscribe meanwhile; only a reallocation can then derail the loop.
DeliveredUnlessUnsubscribed ==
  ~iter.removed =>
    /\ svc = "done" => /\ iter.due \subseteq ToSet(iter.called)
                       /\ IsInjective(iter.called)
    /\ svc = "undefined" => iter.wild

\* When a dispatch ends, every handler subscribed since it began has handled
\* the event, as pubsub.md has it: the middleman lets the subscribers handle a
\* published event.  Unsubscribing another handler meanwhile breaks this.
SubscribersHandleEvents == svc = "done" => iter.due \subseteq ToSet(iter.called)

\* After init() has returned its thread serves the events, as pubsub.md has it
\* ("init() just creates a thread that processes the events").  A thread that
\* reads svr_exit_ before a second init() resets it breaks this.
InitServes == ctl = "up" => svc # "exited"

\* Once uninit() has returned no handler runs, none is called any more, and no
\* event is on its way between the queue and a handler.
QuietWhenDown == ctl = "down" => svc \in {"none", "exited"} /\ ev = NoEvent

\* An event is in one place: with one publisher, once in the queue, or with the
\* thread; and after its delete in none, so that it is never used again.
Holders(e) ==
  {p \in Publishers : call[p] # Q!NoCall /\ call[p].item = e}
    \cup {i \in DOMAIN queue : queue[i] = e}
    \cup (IF ev = e THEN {Svc} ELSE {})
EventOwnedOnce ==
  \A e \in Events : Cardinality(Holders(e)) <= (IF e \in deleted THEN 0 ELSE 1)

\* uninit() returns, whatever is queued or being handled: the thread never waits
\* long enough in dequeue to miss svr_exit_.
UninitReturns == ctl = "joining" ~> (ctl = "down" \/ svc = "undefined")

\* While the service that init() first started stays up, every queued event is
\* taken out in the end.
EventsServed ==
  \A e \in Events :
    (inits = 1 /\ ctl = "up" /\ Contains(queue, e))
      ~> (~Contains(queue, e) \/ ctl # "up" \/ svc = "undefined")
=============================================================================
