------------------------------- MODULE PubSub -------------------------------
(***************************************************************************)
(* The broker of lightMQ with subscriber groups: PubSub, its MessageQueue  *)
(* per topic, and the ThreadPool that sends.  One thread, the event loop,  *)
(* handles the commands of all connections one after the other; publish()  *)
(* queues the message and submits publishMsg(topic) to the pool.  Between  *)
(* the loop and the threads nothing but the squeue of messages is locked.  *)
(*                                                                         *)
(* queueMap_[t] is a pair queue[t], sendGroup[t], empty until it is first  *)
(* inserted.  A connection is closed by its client just stopping to send   *)
(* commands: the broker keeps it in its maps and groups, and sendmsg() to  *)
(* it fails without a trace.  broadcast() only sends, and its invitations  *)
(* are answered, or not, by a subscribe at any later time.                 *)
(***************************************************************************)
EXTENDS Integers, FiniteSets, SequencesExt

CONSTANTS Conns,          \* the subscribers' connections
          Topics, NoTopic,
          Messages, NoMessage,
          TopicOf,        \* the topic each message is published to
          Wants,          \* the topics each subscriber's user may ask for
          MaxGroups,      \* bound: groups of each topic
          InitialThreads, \* the pool's
          MaxThreads      \* bound: the pool's threads

ASSUME TopicAssumption == TopicOf \in [Messages -> Topics] /\ NoTopic \notin Topics
ASSUME MessageAssumption == NoMessage \notin Messages
ASSUME WantsAssumption == Wants \in [Conns -> SUBSET Topics]
ASSUME BoundsAssumption ==
  /\ MaxGroups \in [Topics -> Nat] /\ MaxThreads \in Nat
  /\ InitialThreads \subseteq 0..MaxThreads

VARIABLES subscriberMap, \* per connection that has registered, its topics
          queue,         \* per topic, the squeue of its messages
          sendGroup,     \* per topic, its groups of connections
          groupid,       \* per connection, the group it was put into last
          loop, cmd,     \* where the loop thread is in a command, and for whom
          tasks, done, thread_num, idleThreadNum, worker, task,  \* the pool
          at, walk,      \* per thread, where it is in publishMsg() and send()
          published,     \* history: the messages published
          broken         \* has the program run into undefined behaviour?

poolVars == <<tasks, done, thread_num, idleThreadNum, worker, task>>
mapVars == <<subscriberMap, queue, sendGroup, groupid>>
loopVars == <<loop, cmd>>
walkVars == <<at, walk>>
vars == <<mapVars, loopVars, poolVars, walkVars, published, broken>>

Pool == INSTANCE ThreadPool
          WITH Tasks <- Topics, NoTask <- NoTopic, MaxTasks <- 0

\* A walk of send() over the groups of a topic: msg is the message taken, group
\* the iterator, index the member drawn; wild, whether the vector of the groups
\* has been reallocated under the iterator.  sends is history: how often the
\* message was sent.
NotWalking ==
  [msg |-> NoMessage, group |-> 1, index |-> 0, wild |-> FALSE, sends |-> 0]

Idle == [conn |-> {}, topic |-> NoTopic]

Walkers(t) == {w \in Pool!Threads : task[w] = t /\ walk[w].msg # NoMessage}
Subscribed(c, t) == c \in DOMAIN subscriberMap /\ t \in subscriberMap[c]

-----------------------------------------------------------------------------
Init ==
  /\ subscriberMap = [c \in {} |-> {}]
  /\ queue = [t \in Topics |-> << >>]
  /\ sendGroup = [t \in Topics |-> << >>]
  /\ groupid = [c \in Conns |-> 1]
  /\ loop = "ready" /\ cmd = Idle
  /\ Pool!Init
  /\ at = [w \in Pool!Workers |-> "test"]
  /\ walk = [w \in Pool!Workers |-> NotWalking]
  /\ published = {}
  /\ broken = FALSE

Regist(c) ==
  /\ loop = "ready"
  /\ c \notin DOMAIN subscriberMap
  /\ subscriberMap' = [d \in DOMAIN subscriberMap \cup {c} |->
                         IF d = c THEN {} ELSE subscriberMap[d]]
  /\ UNCHANGED <<queue, sendGroup, groupid, loopVars, poolVars, walkVars,
                 published, broken>>

\* addConnection() for a group that exists.
JoinGroup(c, t, g) ==
  /\ sendGroup' = [sendGroup EXCEPT ![t][g] =
                     IF Contains(@, c) THEN @ ELSE Append(@, c)]
  /\ UNCHANGED <<loopVars, walk>>

\* addConnection() for a group that does not: the vector of the groups gets an
\* empty one, which may reallocate it.
AddGroup(c, t) ==
  /\ sendGroup' = [sendGroup EXCEPT ![t] = Append(@, << >>)]
  /\ loop' = "fill" /\ cmd' = [conn |-> {c}, topic |-> t]
  /\ \E moved \in BOOLEAN :
       walk' = [w \in Pool!Workers |->
                  IF w \in Walkers(t) THEN [walk[w] EXCEPT !.wild = @ \/ moved]
                                      ELSE walk[w]]

\* The client asks for a topic that is not in its own list, which the broker's
\* subscriberMap follows command by command.  The group is drawn at random.
Subscribe(c, t) ==
  /\ loop = "ready"
  /\ t \in Wants[c] /\ ~Subscribed(c, t)
  /\ subscriberMap' =
       [d \in DOMAIN subscriberMap \cup {c} |->
          IF d # c THEN subscriberMap[d]
          ELSE {t} \cup (IF c \in DOMAIN subscriberMap THEN subscriberMap[c]
                                                        ELSE {})]
  /\ \E g \in 1..Len(sendGroup[t]) + 1 :
       /\ g <= MaxGroups[t]
       /\ groupid' = [groupid EXCEPT ![c] = g]
       /\ \/ g \in DOMAIN sendGroup[t] /\ JoinGroup(c, t, g)
          \/ g \notin DOMAIN sendGroup[t] /\ AddGroup(c, t)
  /\ UNCHANGED <<queue, poolVars, at, published, broken>>

\* Only then is the connection put into the new group.
FillGroup ==
  /\ loop = "fill"
  /\ \E c \in cmd.conn :
       sendGroup' = [sendGroup EXCEPT ![cmd.topic][groupid[c]] = Append(@, c)]
  /\ loop' = "ready" /\ cmd' = Idle
  /\ UNCHANGED <<subscriberMap, queue, groupid, poolVars, walkVars, published,
                 broken>>

\* Faulty variant: a group that has lost its last member is erased too.
UnsubscribeErasing(c, t) ==
  /\ loop = "ready"
  /\ Subscribed(c, t)
  /\ subscriberMap' = [subscriberMap EXCEPT ![c] = @ \ {t}]
  /\ LET g == groupid[c]
         left == Remove(sendGroup[t][g], c)
     IN sendGroup' = IF g \notin DOMAIN sendGroup[t] THEN sendGroup
                     ELSE [sendGroup EXCEPT ![t] = IF left = << >>
                                                     THEN RemoveAt(@, g)
                                                     ELSE [@ EXCEPT ![g] = left]]
  /\ UNCHANGED <<queue, groupid, loopVars, poolVars, walkVars, published, broken>>

\* removeConnection() looks in the group the connection was put into last, and
\* erases it there if it finds it.
RemoveConnection(c, t) ==
  LET g == groupid[c]
      members == sendGroup[t][g]
  IN \/ /\ g \in DOMAIN sendGroup[t]
        /\ \E i \in DOMAIN members :
             /\ members[i] = c /\ \A j \in 1..i - 1 : members[j] # c
             /\ sendGroup' = [sendGroup EXCEPT ![t][g] = RemoveAt(@, i)]
     \/ /\ g \in DOMAIN sendGroup[t] => ~Contains(members, c)
        /\ UNCHANGED sendGroup

Unsubscribe(c, t) ==
  /\ loop = "ready"
  /\ Subscribed(c, t)
  /\ subscriberMap' = [subscriberMap EXCEPT ![c] = @ \ {t}]
  /\ RemoveConnection(c, t)
  /\ UNCHANGED <<queue, groupid, loopVars, poolVars, walkVars, published, broken>>

\* Faulty variant: the message is bound to the task in place of the topic.
PublishMessage(m) ==
  /\ loop = "ready"
  /\ m \notin published
  /\ published' = published \cup {m}
  /\ queue' = [queue EXCEPT ![TopicOf[m]] = Append(@, m)]
  /\ loop' = "count" /\ cmd' = [conn |-> {}, topic |-> m]
  /\ UNCHANGED <<subscriberMap, sendGroup, groupid, poolVars, walkVars, broken>>

Publish(m) ==
  /\ loop = "ready"
  /\ m \notin published
  /\ published' = published \cup {m}
  /\ queue' = [queue EXCEPT ![TopicOf[m]] = Append(@, m)]
  /\ loop' = "count" /\ cmd' = [conn |-> {}, topic |-> TopicOf[m]]
  /\ UNCHANGED <<subscriberMap, sendGroup, groupid, poolVars, walkVars, broken>>

\* Faulty variant: publish() leaves the pool as it is.
PublishUncounted ==
  /\ loop = "count"
  /\ loop' = "submit"
  /\ UNCHANGED <<mapVars, cmd, poolVars, walkVars, published, broken>>

\* publish() reads the idle count, and adds a thread if it is 0.
PublishCount ==
  /\ loop = "count"
  /\ loop' = "submit"
  /\ \/ idleThreadNum = 0 /\ Pool!AddThread
     \/ idleThreadNum # 0 /\ UNCHANGED poolVars
  /\ UNCHANGED <<mapVars, cmd, walkVars, published, broken>>

PublishSubmit ==
  /\ loop = "submit"
  /\ Pool!Submit(cmd.topic)
  /\ loop' = "ready" /\ cmd' = Idle
  /\ UNCHANGED <<mapVars, walkVars, published, broken>>

Loop ==
  \/ \E c \in Conns, t \in Topics : Subscribe(c, t) \/ Unsubscribe(c, t)
  \/ \E c \in Conns : Regist(c)
  \/ \E m \in Messages : Publish(m)
  \/ FillGroup \/ PublishCount \/ PublishSubmit

-----------------------------------------------------------------------------
\* Thread w goes on in publishMsg(task[w]) at a.
Continue(w, a) == at' = [at EXCEPT ![w] = a]

\* Faulty variant: publishMsg() returns when send() has nobody to send to.
TestEmptyOrNoGroup(w) ==
  /\ worker[w] = "running" /\ at[w] = "test"
  /\ LET idle == queue[task[w]] = << >> \/ sendGroup[task[w]] = << >>
     IN \/ idle /\ Pool!TaskReturns(w) /\ UNCHANGED at
        \/ ~idle /\ Continue(w, "send") /\ UNCHANGED poolVars
  /\ UNCHANGED <<mapVars, loopVars, walk, published, broken>>

\* The while condition of publishMsg().
TestEmpty(w) ==
  /\ worker[w] = "running" /\ at[w] = "test"
  /\ \/ queue[task[w]] = << >> /\ Pool!TaskReturns(w) /\ UNCHANGED at
     \/ queue[task[w]] # << >> /\ Continue(w, "send") /\ UNCHANGED poolVars
  /\ UNCHANGED <<mapVars, loopVars, walk, published, broken>>

\* send() leaves the message in the queue of a topic that has no group, and
\* may find that another thread took the last one.
SendNothing(w) ==
  /\ worker[w] = "running" /\ at[w] = "send"
  /\ sendGroup[task[w]] = << >> \/ queue[task[w]] = << >>
  /\ Continue(w, "test")
  /\ UNCHANGED <<mapVars, loopVars, poolVars, walk, published, broken>>

\* Faulty variant: the message stays in the queue.
SendPeek(w) ==
  /\ worker[w] = "running" /\ at[w] = "send"
  /\ sendGroup[task[w]] # << >> /\ queue[task[w]] # << >>
  /\ walk' = [walk EXCEPT ![w] = [NotWalking EXCEPT !.msg = Head(queue[task[w]])]]
  /\ Continue(w, "pick")
  /\ UNCHANGED <<mapVars, loopVars, poolVars, published, broken>>

SendTake(w) ==
  /\ worker[w] = "running" /\ at[w] = "send"
  /\ sendGroup[task[w]] # << >> /\ queue[task[w]] # << >>
  /\ walk' = [walk EXCEPT ![w] = [NotWalking EXCEPT !.msg = Head(queue[task[w]])]]
  /\ queue' = [queue EXCEPT ![task[w]] = Tail(@)]
  /\ Continue(w, "pick")
  /\ UNCHANGED <<subscriberMap, sendGroup, groupid, loopVars, poolVars, published,
                 broken>>

\* Faulty variant: the end of the groups is read before the walk's last one.
PickShort(w) ==
  /\ worker[w] = "running" /\ at[w] = "pick"
  /\ ~walk[w].wild
  /\ LET groups == sendGroup[task[w]]
         g == walk[w].group
     IN \/ /\ g = 1 \/ g < Len(groups)
           /\ \E i \in DOMAIN groups[g] : walk' = [walk EXCEPT ![w].index = i]
           /\ Continue(w, "deliver")
        \/ /\ g # 1 /\ g >= Len(groups)
           /\ walk' = [walk EXCEPT ![w] = NotWalking]
           /\ Continue(w, "test")
  /\ UNCHANGED <<mapVars, loopVars, poolVars, published, broken>>

\* The next group of the walk: a member is drawn, modulo the group's size.
Pick(w) ==
  /\ worker[w] = "running" /\ at[w] = "pick"
  /\ ~walk[w].wild
  /\ LET groups == sendGroup[task[w]]
         g == walk[w].group
     IN \/ /\ g \in DOMAIN groups
           /\ \E i \in DOMAIN groups[g] : walk' = [walk EXCEPT ![w].index = i]
           /\ Continue(w, "deliver")
        \/ /\ g \notin DOMAIN groups
           /\ walk' = [walk EXCEPT ![w] = NotWalking]
           /\ Continue(w, "test")
  /\ UNCHANGED <<mapVars, loopVars, poolVars, published, broken>>

Deliver(w) ==
  /\ worker[w] = "running" /\ at[w] = "deliver"
  /\ ~walk[w].wild
  /\ walk[w].index \in DOMAIN sendGroup[task[w]][walk[w].group]
  /\ walk' = [walk EXCEPT ![w].group = @ + 1, ![w].index = 0, ![w].sends = @ + 1]
  /\ Continue(w, "pick")
  /\ UNCHANGED <<mapVars, loopVars, poolVars, published, broken>>

\* Undefined: the size of an empty group as a divisor, an iterator into the old
\* vector of groups, an index beyond a group that has shrunk since it was drawn.
Misstep(w) ==
  /\ worker[w] = "running"
  /\ LET groups == sendGroup[task[w]]
         g == walk[w].group
     IN \/ at[w] \in {"pick", "deliver"} /\ walk[w].wild
        \/ at[w] = "pick" /\ g \in DOMAIN groups /\ groups[g] = << >>
        \/ at[w] = "deliver" /\ walk[w].index \notin DOMAIN groups[g]
  /\ broken' = TRUE
  /\ UNCHANGED <<mapVars, loopVars, poolVars, walkVars, published>>

\* The thread's own loop, in ThreadPool::worker().
PoolStep(w) ==
  /\ Pool!WorkerStep(w)
  /\ UNCHANGED <<mapVars, loopVars, walkVars, published, broken>>

Worker(w) ==
  \/ PoolStep(w) \/ TestEmpty(w) \/ SendNothing(w) \/ SendTake(w)
  \/ Pick(w) \/ Deliver(w) \/ Misstep(w)

\* Nothing is said of the program after undefined behaviour.
Next == ~broken /\ (Loop \/ \E w \in Pool!Threads : Worker(w))

Spec == Init /\ [][Next]_vars

\* The loop thread ends the commands it has begun, and every thread runs.
Fairness ==
  /\ WF_vars(~broken /\ (FillGroup \/ PublishCount \/ PublishSubmit))
  /\ \A w \in Pool!Workers : WF_vars(~broken /\ w \in Pool!Threads /\ Worker(w))

FairSpec == Spec /\ Fairness

-----------------------------------------------------------------------------
\* The types of the broker's maps, and of its threads' places and walks.
TypeOK ==
  /\ DOMAIN subscriberMap \subseteq Conns
  /\ \A c \in DOMAIN subscriberMap : subscriberMap[c] \subseteq Topics
  /\ queue \in [Topics -> Seq(Messages)]
  /\ sendGroup \in [Topics -> Seq(Seq(Conns))]
  /\ groupid \in [Conns -> Nat \ {0}]
  /\ loop \in {"ready", "fill", "count", "submit"}
  /\ cmd \in [conn : SUBSET Conns, topic : Topics \cup {NoTopic}]
  /\ loop # "ready" => cmd.topic \in Topics
  /\ Pool!TypeOK
  /\ at \in [Pool!Workers -> {"test", "send", "pick", "deliver"}]
  /\ walk \in [Pool!Workers -> [msg : Messages \cup {NoMessage}, group : Nat,
                                index : Nat, wild : BOOLEAN,
                                sends : Nat]]
  /\ published \subseteq Messages
  /\ broken \in BOOLEAN

\* No message is stranded: while a topic's queue is not empty a task for it is
\* waiting, or a thread is in publishMsg() and will test the queue again, or
\* publish() is about to submit one.
Attended(t) ==
  \/ Contains(tasks, t)
  \/ \E w \in Pool!Threads : task[w] = t /\ worker[w] \in {"taken", "running"}
  \/ loop \in {"count", "submit"} /\ cmd.topic = t
NothingStranded == \A t \in Topics : queue[t] # << >> => Attended(t)

\* A message is in one place: unpublished, once in its topic's queue, on one
\* thread's walk, or gone; a message that two threads take would be sent twice.
Queued(m) == {i \in DOMAIN queue[TopicOf[m]] : queue[TopicOf[m]][i] = m}
Walking(m) == {w \in Pool!Workers : walk[w].msg = m}
MessageInOnePlace ==
  /\ \A t \in Topics : \A i \in DOMAIN queue[t] : TopicOf[queue[t][i]] = t
  /\ \A m \in Messages :
       /\ \A i, j \in Queued(m) : i = j
       /\ \A u, w \in Walking(m) : u = w
       /\ Queued(m) = {} \/ Walking(m) = {}
       /\ m \notin published => Queued(m) = {} /\ Walking(m) = {}

\* A message that has made its walk went to one member of every group of the
\* topic, those included that were added on the way.
EveryGroupServed ==
  [][\A w \in Pool!Threads :
       walk[w].msg # NoMessage /\ walk'[w].msg = NoMessage =>
         walk[w].sends = Len(sendGroup[task[w]])]_vars

\* A client that only ever asks for one topic is in one group of it, once, and
\* after it has unsubscribed in none: its group id is still the one it was
\* put into, and the groups do not move.
SingleTopicPlaced ==
  \A c \in Conns, t \in Topics :
    Wants[c] = {t} /\ ~(loop = "fill" /\ c \in cmd.conn) =>
      Cardinality({g \in DOMAIN sendGroup[t] : Contains(sendGroup[t][g], c)})
        = (IF Subscribed(c, t) THEN 1 ELSE 0)

\* A subscriber is in one group of a topic, and so gets each message once, as
\* lightmqgroup.md ("each subscriber has a group id") and PubSub.hpp ("to all
\* the subscribers, and only once") have it.  Subscribing to another topic in
\* between, which overwrites the group id, breaks this.
OneGroupEach ==
  \A c \in Conns, t \in Topics :
    Cardinality({g \in DOMAIN sendGroup[t] : Contains(sendGroup[t][g], c)}) <= 1

\* The threads that walk for ever over a topic that has no group.
Starved == \E t \in Topics : queue[t] # << >> /\ sendGroup[t] = << >>

\* Every queued message is taken in the end, unless the threads are kept by
\* topics that nobody has subscribed to.
QueuedUntilTaken ==
  \A m \in Messages :
    Contains(queue[TopicOf[m]], m)
      ~> (~Contains(queue[TopicOf[m]], m) \/ Starved \/ broken)
=============================================================================
