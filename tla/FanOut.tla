------------------------------- MODULE FanOut -------------------------------
(* The broker of lightMQ-master that sends a message to every subscriber of  *)
(* its topic (src/PubSub.cpp, socketx/src/MessageQueue.cpp), with its        *)
(* subscribers (Subscriber.cpp) and a publisher (Publisher.cpp) over streams *)
(* that keep their order. The event loop handles one command at a time; the  *)
(* threads of the pool, enough for all messages, send. A message is written  *)
(* in two parts, its size and its bytes.                                     *)
EXTENDS Integers, SequencesExt
CONSTANTS Clients,       \* the subscribers, each with a connection
          Topics, Messages, TopicOf,
          Threads,       \* bound: the threads of the pool
          MaxCommands    \* bound: what the users of the subscribers ask for
VARIABLES topics_,       \* per subscriber, what it has subscribed to
          up,            \* the commands on the way to the broker, per client
          down,          \* the parts of messages on the way, per client
          seen,          \* per subscriber: printed messages, and whether it
                         \* lost the boundary between messages
          subscriberMap_, \* per registered connection, its topics
          queueMap_,     \* per topic: its messages and its sendList
          tasks, worker, \* the pool: topics to send, what each thread does
          asked,         \* how many commands the users have given
          published, broken  \* messages published; undefined behaviour?

clientVars == <<topics_, up, down, seen, asked>>
brokerVars == <<subscriberMap_, queueMap_>>
poolVars == <<tasks, worker>>
fanVars == <<clientVars, brokerVars, poolVars, published, broken>>

NoWork == [at |-> "idle", topic |-> 0, msg |-> 0, it |-> 0, to |-> 0]

Init == /\ topics_ = [c \in Clients |-> {}]
        /\ up = [c \in Clients |-> <<[cmd |-> "regist", topic |-> 0]>>]
        /\ down = [c \in Clients |-> <<>>]
        /\ seen = [c \in Clients |-> [printed |-> <<>>, garbled |-> FALSE, open |-> TRUE]]
        /\ subscriberMap_ = <<>> /\ queueMap_ = <<>>
        /\ tasks = <<>> /\ worker = [w \in Threads |-> NoWork]
        /\ asked = 0 /\ published = {} /\ broken = FALSE
-----------------------------------------------------------------------------
\* The subscriber's commands; it sends none it knows to be without effect.
isSubscribed(c, t) == t \in topics_[c]

Send(c, cmd, t) == up' = [up EXCEPT ![c] = Append(@, [cmd |-> cmd, topic |-> t])]

Subscribe(c, t) == /\ ~isSubscribed(c, t)
                   /\ topics_' = [topics_ EXCEPT ![c] = @ \union {t}]
                   /\ Send(c, "sub", t)

Unsubscribe(c, t) == /\ isSubscribed(c, t)
                     /\ topics_' = [topics_ EXCEPT ![c] = @ \ {t}]
                     /\ Send(c, "unsub", t)

stdinReadEvents(c) ==
  /\ seen[c].open /\ asked < MaxCommands /\ asked' = asked + 1
  /\ \E t \in Topics : Subscribe(c, t) \/ Unsubscribe(c, t)
  /\ UNCHANGED <<down, seen, brokerVars, poolVars, published, broken>>

\* A message of the broker: a publication is printed, an invitation answered
\* with a subscription if the user likes.
Filter(c, m) ==
  IF m \in Topics
  THEN \/ Subscribe(c, m) /\ UNCHANGED seen
       \/ UNCHANGED <<topics_, up, seen>>
  ELSE seen' = [seen EXCEPT ![c].printed = Append(@, m)] /\ UNCHANGED <<topics_, up>>

\* recvmsg takes a size and as many bytes; if these are not the message's own
\* bytes, the boundaries are lost.
clientReadEvents(c) ==
  /\ seen[c].open /\ ~seen[c].garbled /\ Len(down[c]) >= 2
  /\ down' = [down EXCEPT ![c] = Tail(Tail(@))]
  /\ LET size == down[c][1] bytes == down[c][2]
     IN  IF size.part = "size" /\ bytes = [part |-> "bytes", msg |-> size.msg]
         THEN Filter(c, size.msg)
         ELSE seen' = [seen EXCEPT ![c].garbled = TRUE] /\ UNCHANGED <<topics_, up>>
  /\ UNCHANGED <<asked, brokerVars, poolVars, published, broken>>

Leave(c) ==
  /\ seen[c].open /\ asked < MaxCommands /\ asked' = asked + 1
  /\ seen' = [seen EXCEPT ![c].open = FALSE]
  /\ UNCHANGED <<topics_, up, down, brokerVars, poolVars, published, broken>>
-----------------------------------------------------------------------------
Registered == DOMAIN subscriberMap_

\* A map with v at the key k, which is new or not.
Insert(map, k, v) == [x \in DOMAIN map \union {k} |-> IF x = k THEN v ELSE map[x]]

\* regist: a connection that is known keeps its topics.
regist(c) == /\ subscriberMap_' = IF c \in Registered THEN subscriberMap_
                                  ELSE Insert(subscriberMap_, c, {})
             /\ UNCHANGED <<queueMap_, broken>>

Queue(t) == IF t \in DOMAIN queueMap_ THEN queueMap_[t] ELSE [queue |-> <<>>, sendList |-> <<>>]

\* A new topic may move the map while a thread looks its own topic up.
Races(t) == t \notin DOMAIN queueMap_ /\ \E w \in Threads : worker[w].at = "test"

Walking(t) == \E w \in Threads : worker[w].topic = t /\ worker[w].it > 0

\* addConnection. A vector of 1, 2 or 4 elements may move when it grows, under
\* the iterators of the threads.
subscribe(c, t) ==
  LET q == Queue(t)
      new == ~Contains(q.sendList, c)
  IN  /\ subscriberMap_' =
           Insert(subscriberMap_, c,
                  (IF c \in Registered THEN subscriberMap_[c] ELSE {}) \union {t})
      /\ queueMap_' =
           Insert(queueMap_, t, IF new THEN [q EXCEPT !.sendList = Append(@, c)] ELSE q)
      /\ broken' \in {FALSE, Races(t) \/ (new /\ Walking(t) /\ Len(q.sendList) \in {1, 2, 4})}

\* removeConnection: the first place of the connection, if it has one.
Erased(list, c) ==
  IF Contains(list, c)
  THEN RemoveAt(list, CHOOSE i \in DOMAIN list : list[i] = c /\ \A j \in 1..i - 1 : list[j] # c)
  ELSE list

\* Wrong: the connection stays in the topic's list.
unsubscribeKept(c, t) ==
  /\ subscriberMap_' = IF c \in Registered THEN [subscriberMap_ EXCEPT ![c] = @ \ {t}]
                       ELSE subscriberMap_
  /\ UNCHANGED <<queueMap_, broken>>

unsubscribe(c, t) ==
  /\ subscriberMap_' = IF c \in Registered THEN [subscriberMap_ EXCEPT ![c] = @ \ {t}]
                       ELSE subscriberMap_
  /\ queueMap_' = IF c \in Registered /\ t \in DOMAIN queueMap_
                  THEN [queueMap_ EXCEPT ![t].sendList = Erased(@, c)] ELSE queueMap_
  /\ UNCHANGED broken

\* subscriberStub: the next command of a connection.
filter(c) ==
  /\ up[c] # <<>> /\ up' = [up EXCEPT ![c] = Tail(@)]
  /\ LET m == Head(up[c])
     IN  \/ m.cmd = "regist" /\ regist(c)
         \/ m.cmd = "sub" /\ subscribe(c, m.topic)
         \/ m.cmd = "unsub" /\ unsubscribe(c, m.topic)
  /\ UNCHANGED <<topics_, down, seen, asked, poolVars, published>>

Parts(m) == <<[part |-> "size", msg |-> m], [part |-> "bytes", msg |-> m]>>

\* An invitation to a new topic, for who has registered and not subscribed.
broadcast(t) ==
  down' = [c \in Clients |->
             IF c \in Registered /\ t \notin subscriberMap_[c] /\ seen[c].open
             THEN down[c] \o Parts(t) ELSE down[c]]

\* Publisher::publish and, on the broker's side, PubSub::publish.
publish(m) ==
  LET t == TopicOf[m]
  IN  /\ m \notin published /\ published' = published \union {m}
      /\ IF t \in DOMAIN queueMap_ THEN UNCHANGED down ELSE broadcast(t)
      /\ queueMap_' = Insert(queueMap_, t, [Queue(t) EXCEPT !.queue = Append(@, m)])
      /\ tasks' = Append(tasks, t) /\ broken' \in {FALSE, Races(t)}
      /\ UNCHANGED <<topics_, up, seen, asked, subscriberMap_, worker>>
-----------------------------------------------------------------------------
At(w, at) == worker[w].at = at

Take(w) == /\ At(w, "idle") /\ tasks # <<>>
           /\ worker' = [worker EXCEPT ![w] = [NoWork EXCEPT !.at = "test", !.topic = Head(tasks)]]
           /\ tasks' = Tail(tasks) /\ UNCHANGED <<queueMap_, down, broken>>

\* The loop of publishMsg: without a subscriber it goes round and round.
publishMsg(w) ==
  /\ At(w, "test")
  /\ LET q == queueMap_[worker[w].topic]
     IN  worker' = [worker EXCEPT ![w] =
           IF q.queue = <<>> THEN NoWork
           ELSE [@ EXCEPT !.at = IF q.sendList = <<>> THEN "test" ELSE "pop"]]
  /\ UNCHANGED <<tasks, queueMap_, down, broken>>

\* try_pop, under the queue's lock; another thread may have been faster.
try_pop(w) ==
  /\ At(w, "pop")
  /\ LET t == worker[w].topic
         q == queueMap_[t]
     IN  IF q.queue = <<>>
         THEN worker' = [worker EXCEPT ![w].at = "test"] /\ UNCHANGED queueMap_
         ELSE /\ queueMap_' = [queueMap_ EXCEPT ![t].queue = Tail(@)]
              /\ worker' = [worker EXCEPT ![w].msg = Head(q.queue),
                                         ![w].it = 1, ![w].at = "size"]
  /\ UNCHANGED <<tasks, down, broken>>

Write(c, part, m) ==
  down' = IF seen[c].open THEN [down EXCEPT ![c] = Append(@, [part |-> part, msg |-> m])]
          ELSE down

\* sendmsg to the connection the iterator points to. The list may have become
\* shorter: an iterator that is beyond its end never meets it.
sendmsg(w) ==
  LET work == worker[w]
      list == queueMap_[work.topic].sendList
  IN  \/ /\ work.at = "size"
         /\ IF work.it <= Len(list)
            THEN /\ Write(list[work.it], "size", work.msg)
                 /\ worker' = [worker EXCEPT ![w].at = "bytes", ![w].to = list[work.it]]
            ELSE /\ worker' = [worker EXCEPT ![w].at = "test", ![w].it = 0]
                 /\ UNCHANGED down
         /\ broken' = (work.it > Len(list) + 1)
         /\ UNCHANGED <<tasks, queueMap_>>
      \/ /\ work.at = "bytes" /\ Write(work.to, "bytes", work.msg)
         /\ worker' = [worker EXCEPT ![w].it = @ + 1, ![w].at = "size"]
         /\ UNCHANGED <<tasks, queueMap_, broken>>

Pool == \E w \in Threads : Take(w) \/ publishMsg(w) \/ try_pop(w) \/ sendmsg(w)

Next ==
  /\ ~broken
  /\ \/ \E c \in Clients : stdinReadEvents(c) \/ clientReadEvents(c) \/ filter(c) \/ Leave(c)
     \/ \E m \in Messages : publish(m)
     \/ Pool /\ UNCHANGED <<topics_, up, seen, asked, subscriberMap_, published>>

Spec == Init /\ [][Next]_fanVars
-----------------------------------------------------------------------------
\* The broker's two tables agree, and with what a subscriber believes when
\* none of its commands is on the way.
SubscriptionsAgree ==
  /\ \A c \in Registered, t \in Topics :
       t \in subscriberMap_[c] <=> t \in DOMAIN queueMap_ /\ Contains(queueMap_[t].sendList, c)
  /\ \A t \in DOMAIN queueMap_ : ToSet(queueMap_[t].sendList) \subseteq Registered
  /\ \A c \in Clients : up[c] = <<>> => topics_[c] = subscriberMap_[c]

\* A message is sent to a subscriber only once, and so printed only once.
SentOnce == \A c \in Clients : IsInjective(seen[c].printed)
=============================================================================
