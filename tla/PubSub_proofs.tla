---------------------------- MODULE PubSub_proofs ----------------------------
(***************************************************************************)
(* The broker, for any connections, topics, messages, groups and threads:  *)
(* none of its messages is stranded, none is in two places, each goes to   *)
(* every group, and a client of one topic is in the group its id names.    *)
(* Every part rests on the types; the walks and the places have invariants *)
(* of their own.                                                           *)
(***************************************************************************)
EXTENDS PubSub, SequenceLemmas, FiniteSetTheorems, TLAPS

-----------------------------------------------------------------------------
(* The thread pool inside the broker. *)

\* A task that is submitted keeps the pool's types.
LEMMA SubmitType ==
  ASSUME Pool!TypeOK, NEW t \in Topics, Pool!Submit(t)
  PROVE  Pool!TypeOK'
BY DEF Pool!Submit, Pool!TypeOK, Pool!Threads, Pool!Workers

\* So does a new thread.
LEMMA AddThreadType ==
  ASSUME Pool!TypeOK, Pool!AddThread
  PROVE  Pool!TypeOK'
BY BoundsAssumption DEF Pool!AddThread, Pool!TypeOK, Pool!Threads, Pool!Workers

\* So does a pool that stands still.
LEMMA PoolStands ==
  ASSUME Pool!TypeOK, UNCHANGED poolVars
  PROVE  Pool!TypeOK'
BY DEF poolVars, Pool!TypeOK, Pool!Threads, Pool!Workers

\* So does every step of a thread.
LEMMA WorkerType ==
  ASSUME Pool!TypeOK, NEW w \in Pool!Threads, Pool!WorkerStep(w) \/ Pool!TaskReturns(w)
  PROVE  Pool!TypeOK'
<1> USE TopicAssumption, BoundsAssumption
<1>1. w \in Pool!Workers
  BY DEF Pool!Threads, Pool!Workers, Pool!TypeOK
<1>2. CASE Pool!CheckDone(w)
  BY <1>1, <1>2 DEF Pool!CheckDone, Pool!TypeOK, Pool!Threads
<1>3. CASE Pool!TryPop(w)
  <2>1. CASE tasks # << >>
    <3>1. Head(tasks) \in Topics /\ Tail(tasks) \in Seq(Topics)
      BY <2>1, HeadTail DEF Pool!TypeOK
    <3> QED
      BY <1>1, <1>3, <2>1, <3>1 DEF Pool!TryPop, Pool!TypeOK, Pool!Threads
  <2>2. CASE tasks = << >>
    BY <1>1, <1>3, <2>2 DEF Pool!TryPop, Pool!TypeOK, Pool!Threads
  <2> QED
    BY <2>1, <2>2
<1>4. CASE Pool!StartTask(w)
  BY <1>1, <1>4 DEF Pool!StartTask, Pool!TypeOK, Pool!Threads
<1>5. CASE Pool!FinishTask(w)
  BY <1>1, <1>5 DEF Pool!FinishTask, Pool!TypeOK, Pool!Threads
<1>6. CASE Pool!TaskReturns(w)
  BY <1>1, <1>6 DEF Pool!TaskReturns, Pool!TypeOK, Pool!Threads
<1> QED
  BY <1>2, <1>3, <1>4, <1>5, <1>6 DEF Pool!WorkerStep

\* A thread in a task has a topic.
LEMMA TaskTopic ==
  ASSUME Pool!TypeOK, NEW w \in Pool!Threads, worker[w] \in {"taken", "running"}
  PROVE  w \in Pool!Workers /\ task[w] \in Topics
BY BoundsAssumption DEF Pool!TypeOK, Pool!Threads, Pool!Workers

-----------------------------------------------------------------------------
(* TypeOK in parts, one per group of variables. *)

Places == {"test", "send", "pick", "deliver"}
Walks == [msg : Messages \cup {NoMessage}, group : Nat, index : Nat,
          wild : BOOLEAN, sends : Nat]

MapsType ==
  /\ DOMAIN subscriberMap \subseteq Conns
  /\ \A c \in DOMAIN subscriberMap : subscriberMap[c] \subseteq Topics
  /\ queue \in [Topics -> Seq(Messages)]
  /\ sendGroup \in [Topics -> Seq(Seq(Conns))]
  /\ groupid \in [Conns -> Nat \ {0}]
LoopType ==
  /\ loop \in {"ready", "fill", "count", "submit"}
  /\ cmd \in [conn : SUBSET Conns, topic : Topics \cup {NoTopic}]
  /\ loop # "ready" => cmd.topic \in Topics
WalkType == at \in [Pool!Workers -> Places] /\ walk \in [Pool!Workers -> Walks]
HistoryType == published \subseteq Messages /\ broken \in BOOLEAN

\* The parts are the whole.
LEMMA TypeParts ==
  TypeOK <=> MapsType /\ LoopType /\ Pool!TypeOK /\ WalkType /\ HistoryType
BY DEF TypeOK, MapsType, LoopType, WalkType, HistoryType, Places, Walks

\* And after a step.
LEMMA TypePartsNext ==
  TypeOK' <=> MapsType' /\ LoopType' /\ Pool!TypeOK' /\ WalkType' /\ HistoryType'
BY DEF TypeOK, MapsType, LoopType, WalkType, HistoryType, Places, Walks

\* A part whose variables stand still keeps its types.
LEMMA MapsStand == MapsType /\ UNCHANGED mapVars => MapsType'
BY DEF MapsType, mapVars
LEMMA LoopStands == LoopType /\ UNCHANGED loopVars => LoopType'
BY DEF LoopType, loopVars
LEMMA WalksStand == WalkType /\ UNCHANGED walkVars => WalkType'
BY DEF WalkType, walkVars, Pool!Workers
LEMMA HistoryStands == HistoryType /\ UNCHANGED <<published, broken>> => HistoryType'
BY DEF HistoryType

-----------------------------------------------------------------------------
(* The commands of the event loop. *)

\* A connection that registers.
LEMMA RegistType ==
  ASSUME TypeOK, NEW c \in Conns, Regist(c)
  PROVE  TypeOK'
<1>1. MapsType'
  BY TypeParts DEF Regist, MapsType
<1> QED
  BY <1>1, TypeParts, TypePartsNext, LoopStands, PoolStands, WalksStand,
     HistoryStands DEF Regist

\* A group's member leaves, or was not in it.
LEMMA RemoveType ==
  ASSUME sendGroup \in [Topics -> Seq(Seq(Conns))], NEW c, NEW t \in Topics,
         RemoveConnection(c, t)
  PROVE  sendGroup' \in [Topics -> Seq(Seq(Conns))]
<1>1. CASE UNCHANGED sendGroup
  BY <1>1
<1>2. ASSUME groupid[c] \in DOMAIN sendGroup[t],
             NEW i \in DOMAIN sendGroup[t][groupid[c]],
             sendGroup' = [sendGroup EXCEPT ![t][groupid[c]] = RemoveAt(@, i)]
      PROVE  sendGroup' \in [Topics -> Seq(Seq(Conns))]
  <2> DEFINE g == groupid[c]
             left == RemoveAt(sendGroup[t][g], i)
  <2>1. sendGroup[t] \in Seq(Seq(Conns)) /\ sendGroup[t][g] \in Seq(Conns)
    BY <1>2
  <2>2. left \in Seq(Conns)
    BY <1>2, <2>1, RemoveAtFacts
  <2>3. [sendGroup[t] EXCEPT ![g] = left] \in Seq(Seq(Conns))
    <3> HIDE DEF left
    <3> QED
      BY <1>2, <2>1, <2>2
  <2>4. sendGroup' = [sendGroup EXCEPT ![t] = [sendGroup[t] EXCEPT ![g] = left]]
    BY <1>2
  <2> QED
    BY <2>3, <2>4
<1> QED
  BY <1>1, <1>2 DEF RemoveConnection

\* A connection that unsubscribes.
LEMMA UnsubscribeType ==
  ASSUME TypeOK, NEW c \in Conns, NEW t \in Topics, Unsubscribe(c, t)
  PROVE  TypeOK'
<1>1. sendGroup' \in [Topics -> Seq(Seq(Conns))]
  BY RemoveType DEF TypeOK, Unsubscribe
<1>2. MapsType'
  BY <1>1, TypeParts DEF Unsubscribe, MapsType
<1> QED
  BY <1>2, TypeParts, TypePartsNext, LoopStands, PoolStands, WalksStand,
     HistoryStands DEF Unsubscribe

\* A new group may have moved the others, under the walks over them.
LEMMA AddGroupType ==
  ASSUME TypeOK, NEW c \in Conns, NEW t \in Topics, AddGroup(c, t), at' = at,
         Pool!Workers' = Pool!Workers
  PROVE  LoopType' /\ WalkType' /\ sendGroup' \in [Topics -> Seq(Seq(Conns))]
<1>1. LoopType'
  BY DEF AddGroup, LoopType
<1>2. WalkType'
  <2>1. PICK moved \in BOOLEAN :
          walk' = [w \in Pool!Workers |->
                     IF w \in Walkers(t) THEN [walk[w] EXCEPT !.wild = @ \/ moved]
                                         ELSE walk[w]]
    BY DEF AddGroup
  <2>2. \A w \in Pool!Workers : [walk[w] EXCEPT !.wild = @ \/ moved] \in Walks
    BY TypeParts DEF WalkType, Walks
  <2> QED
    BY <2>1, <2>2, TypeParts DEF WalkType
<1>3. sendGroup' \in [Topics -> Seq(Seq(Conns))]
  <2>1. << >> \in Seq(Conns)
    OBVIOUS
  <2>2. Append(sendGroup[t], << >>) \in Seq(Seq(Conns))
    BY <2>1 DEF TypeOK
  <2> QED
    BY <2>2 DEF TypeOK, AddGroup
<1> QED
  BY <1>1, <1>2, <1>3

\* A member that joins a group.
LEMMA JoinType ==
  ASSUME sendGroup \in [Topics -> Seq(Seq(Conns))], NEW c \in Conns,
         NEW t \in Topics, NEW g \in DOMAIN sendGroup[t]
  PROVE  [sendGroup EXCEPT ![t][g] = Append(@, c)] \in [Topics -> Seq(Seq(Conns))]
<1>1. sendGroup[t] \in Seq(Seq(Conns)) /\ sendGroup[t][g] \in Seq(Conns)
  OBVIOUS
<1>2. Append(sendGroup[t][g], c) \in Seq(Conns)
  BY <1>1
<1>3. [sendGroup[t] EXCEPT ![g] = Append(sendGroup[t][g], c)] \in Seq(Seq(Conns))
  BY <1>1, <1>2
<1> QED
  BY <1>3

\* A connection that subscribes.
LEMMA SubscribeType ==
  ASSUME TypeOK, NEW c \in Conns, NEW t \in Topics, Subscribe(c, t)
  PROVE  TypeOK'
<1>1. PICK g \in 1..Len(sendGroup[t]) + 1 :
        /\ groupid' = [groupid EXCEPT ![c] = g]
        /\ \/ g \in DOMAIN sendGroup[t] /\ JoinGroup(c, t, g)
           \/ g \notin DOMAIN sendGroup[t] /\ AddGroup(c, t)
  BY DEF Subscribe
<1>2. groupid' \in [Conns -> Nat \ {0}]
  BY <1>1 DEF TypeOK
<1>3. LoopType' /\ WalkType' /\ sendGroup' \in [Topics -> Seq(Seq(Conns))]
  <2>1. CASE g \in DOMAIN sendGroup[t] /\ JoinGroup(c, t, g)
    <3>1. UNCHANGED loopVars /\ UNCHANGED walkVars
      BY <2>1 DEF JoinGroup, Subscribe, walkVars
    <3>2. sendGroup' \in [Topics -> Seq(Seq(Conns))]
      <4>1. CASE Contains(sendGroup[t][g], c)
        <5>1. sendGroup' = [sendGroup EXCEPT
                               ![t] = [sendGroup[t] EXCEPT ![g] = sendGroup[t][g]]]
          BY <2>1, <4>1 DEF JoinGroup
        <5>2. sendGroup[t] \in Seq(Seq(Conns))
          BY DEF TypeOK
        <5>3. [sendGroup[t] EXCEPT ![g] = sendGroup[t][g]] = sendGroup[t]
          BY <5>2
        <5> QED
          BY <5>1, <5>2, <5>3 DEF TypeOK
      <4>2. CASE ~Contains(sendGroup[t][g], c)
        <5>1. sendGroup' = [sendGroup EXCEPT ![t][g] = Append(@, c)]
          BY <2>1, <4>2 DEF JoinGroup
        <5>2. [sendGroup EXCEPT ![t][g] = Append(@, c)]
                \in [Topics -> Seq(Seq(Conns))]
          BY <2>1, JoinType DEF TypeOK
        <5> QED
          BY <5>1, <5>2
      <4> QED
        BY <4>1, <4>2
    <3> QED
      BY <3>1, <3>2, TypeParts, LoopStands, WalksStand
  <2>2. CASE AddGroup(c, t)
    BY <2>2, AddGroupType DEF Subscribe, Pool!Workers
  <2> QED
    BY <1>1, <2>1, <2>2
<1>4. MapsType'
  <2>1. /\ DOMAIN subscriberMap' = DOMAIN subscriberMap \cup {c}
        /\ \A d \in DOMAIN subscriberMap' : subscriberMap'[d] \subseteq Topics
    BY DEF Subscribe, TypeOK
  <2> QED
    BY <1>2, <1>3, <2>1 DEF MapsType, Subscribe, TypeOK
<1> QED
  BY <1>3, <1>4, TypeParts, TypePartsNext, PoolStands, HistoryStands DEF Subscribe

\* A new group gets its member.
LEMMA FillGroupType ==
  ASSUME TypeOK, FillGroup
  PROVE  TypeOK'
<1>1. PICK c \in Conns :
        sendGroup' = [sendGroup EXCEPT ![cmd.topic][groupid[c]] = Append(@, c)]
  BY DEF FillGroup, TypeOK
<1>2. cmd.topic \in Topics
  BY DEF FillGroup, TypeOK
<1>3. sendGroup' \in [Topics -> Seq(Seq(Conns))]
  <2>1. CASE groupid[c] \in DOMAIN sendGroup[cmd.topic]
    BY <1>1, <1>2, <2>1, JoinType DEF TypeOK
  <2>2. CASE groupid[c] \notin DOMAIN sendGroup[cmd.topic]
    <3>1. sendGroup[cmd.topic] \in Seq(Seq(Conns))
      BY <1>2 DEF TypeOK
    <3>2. [sendGroup[cmd.topic] EXCEPT
              ![groupid[c]] = Append(sendGroup[cmd.topic][groupid[c]], c)]
            = sendGroup[cmd.topic]
      BY <2>2, <3>1
    <3> QED
      BY <1>1, <1>2, <3>1, <3>2 DEF TypeOK
  <2> QED
    BY <2>1, <2>2
<1>4. MapsType'
  BY <1>3 DEF FillGroup, MapsType, TypeOK
<1>5. LoopType'
  BY DEF FillGroup, LoopType, Idle
<1> QED
  BY <1>4, <1>5, TypeParts, TypePartsNext, PoolStands, WalksStand, HistoryStands
     DEF FillGroup

\* A message that is published is queued.
LEMMA PublishType ==
  ASSUME TypeOK, NEW m \in Messages, Publish(m)
  PROVE  TypeOK'
<1>1. TopicOf[m] \in Topics /\ Append(queue[TopicOf[m]], m) \in Seq(Messages)
  BY TopicAssumption DEF TypeOK
<1>2. MapsType' /\ LoopType' /\ HistoryType'
  BY <1>1 DEF Publish, MapsType, LoopType, HistoryType, TypeOK
<1> QED
  BY <1>2, TypeParts, TypePartsNext, PoolStands, WalksStand DEF Publish

\* publish() may add a thread.
LEMMA PublishCountType ==
  ASSUME TypeOK, PublishCount
  PROVE  TypeOK'
<1>1. Pool!TypeOK'
  BY AddThreadType, PoolStands DEF PublishCount, TypeOK
<1>2. LoopType'
  BY DEF PublishCount, LoopType, TypeOK
<1>3. UNCHANGED walkVars
  BY DEF PublishCount
<1> QED
  BY <1>1, <1>2, <1>3, TypeParts, TypePartsNext, MapsStand, WalksStand,
     HistoryStands DEF PublishCount

\* publish() submits a task.
LEMMA PublishSubmitType ==
  ASSUME TypeOK, PublishSubmit
  PROVE  TypeOK'
<1>1. Pool!TypeOK'
  BY SubmitType DEF PublishSubmit, TypeOK
<1>2. LoopType'
  BY DEF PublishSubmit, LoopType, Idle
<1> QED
  BY <1>1, <1>2, TypeParts, TypePartsNext, MapsStand, WalksStand, HistoryStands
     DEF PublishSubmit

-----------------------------------------------------------------------------
(* The threads. *)

\* A thread that takes a place in publishMsg().
LEMMA ContinueType ==
  ASSUME TypeOK, NEW w, NEW a \in Places, Continue(w, a)
  PROVE  at' \in [Pool!Workers -> Places]
BY DEF Continue, TypeOK, Places

\* A walk that goes on.
LEMMA WalkStep ==
  ASSUME TypeOK, NEW w, NEW v \in Walks, walk' = [walk EXCEPT ![w] = v],
         at' \in [Pool!Workers -> Places], Pool!Workers' = Pool!Workers
  PROVE  WalkType'
BY DEF TypeOK, WalkType, Walks

\* The steps of a thread keep the types.
LEMMA ThreadType ==
  ASSUME TypeOK, NEW w \in Pool!Threads, Worker(w)
  PROVE  TypeOK'
<1> USE TypeParts, TypePartsNext
<1>1. Pool!Workers' = Pool!Workers
  BY DEF Pool!Workers
<1>2. NotWalking \in Walks
  BY DEF NotWalking, Walks
<1>3. CASE PoolStep(w)
  BY <1>3, WorkerType, MapsStand, LoopStands, WalksStand, HistoryStands DEF PoolStep
<1>4. CASE TestEmpty(w)
  <2>1. Pool!TypeOK'
    BY <1>4, WorkerType, PoolStands DEF TestEmpty
  <2>2. WalkType'
    <3>1. at' \in [Pool!Workers -> Places]
      BY <1>4, ContinueType DEF TestEmpty, TypeOK, Places
    <3> QED
      BY <1>1, <1>4, <3>1 DEF TestEmpty, WalkType
  <2> QED
    BY <1>4, <2>1, <2>2, MapsStand, LoopStands, HistoryStands DEF TestEmpty
<1>5. CASE SendNothing(w)
  <2>1. WalkType'
    BY <1>1, <1>5, ContinueType DEF SendNothing, WalkType, Places
  <2> QED
    BY <1>5, <2>1, MapsStand, LoopStands, PoolStands, HistoryStands DEF SendNothing
<1>6. CASE SendTake(w)
  <2>1. w \in Pool!Workers /\ task[w] \in Topics
    BY <1>6, TaskTopic DEF SendTake
  <2>2. Head(queue[task[w]]) \in Messages /\ Tail(queue[task[w]]) \in Seq(Messages)
    <3>1. queue[task[w]] \in Seq(Messages) /\ queue[task[w]] # << >>
      BY <1>6, <2>1 DEF SendTake, TypeOK
    <3> QED
      BY <3>1, HeadTail
  <2>3. [NotWalking EXCEPT !.msg = Head(queue[task[w]])] \in Walks
    BY <2>2 DEF NotWalking, Walks
  <2>4. WalkType'
    BY <1>1, <1>6, <2>3, ContinueType, WalkStep DEF SendTake, Places
  <2>5. MapsType'
    BY <1>6, <2>1, <2>2 DEF SendTake, MapsType
  <2> QED
    BY <1>6, <2>4, <2>5, LoopStands, PoolStands, HistoryStands DEF SendTake
<1>7. CASE Pick(w)
  <2>1. w \in Pool!Workers /\ task[w] \in Topics
    BY <1>7, TaskTopic DEF Pick
  <2>2. WalkType'
    <3>1. at' \in [Pool!Workers -> Places]
      BY <1>7, ContinueType DEF Pick, Places
    <3>2. \E v \in Walks : walk' = [walk EXCEPT ![w] = v]
      <4>1. CASE walk' = [walk EXCEPT ![w] = NotWalking]
        BY <1>2, <4>1
      <4>2. ASSUME walk[w].group \in DOMAIN sendGroup[task[w]],
                   NEW i \in DOMAIN sendGroup[task[w]][walk[w].group],
                   walk' = [walk EXCEPT ![w].index = i]
            PROVE  \E v \in Walks : walk' = [walk EXCEPT ![w] = v]
        <5>1. sendGroup[task[w]][walk[w].group] \in Seq(Conns)
          BY <2>1, <4>2 DEF TypeOK
        <5>2. i \in Nat
          BY <4>2, <5>1
        <5>3. [walk[w] EXCEPT !.index = i] \in Walks
          BY <2>1, <5>2 DEF WalkType, Walks
        <5>4. walk' = [walk EXCEPT ![w] = [walk[w] EXCEPT !.index = i]]
          BY <4>2
        <5> QED
          BY <5>3, <5>4
      <4> QED
        BY <1>7, <4>1, <4>2 DEF Pick
    <3> QED
      BY <1>1, <3>1, <3>2, WalkStep
  <2> QED
    BY <1>7, <2>2, MapsStand, LoopStands, PoolStands, HistoryStands DEF Pick
<1>8. CASE Deliver(w)
  <2>1. w \in Pool!Workers
    BY <1>8, TaskTopic DEF Deliver
  <2>2. at' \in [Pool!Workers -> Places]
    BY <1>8, ContinueType DEF Deliver, Places
  <2>3. walk' = [walk EXCEPT ![w] = [walk[w] EXCEPT !.group = @ + 1, !.index = 0,
                                                   !.sends = @ + 1]]
    BY <1>8 DEF Deliver
  <2>4. [walk[w] EXCEPT !.group = @ + 1, !.index = 0, !.sends = @ + 1] \in Walks
    <3>1. walk[w] \in Walks
      BY <2>1 DEF WalkType
    <3>2. walk[w].group + 1 \in Nat /\ walk[w].sends + 1 \in Nat /\ 0 \in Nat
      BY <3>1 DEF Walks
    <3>3. ASSUME NEW x \in Nat, NEW y \in Nat, NEW z \in Nat
          PROVE  [walk[w] EXCEPT !.group = x, !.index = y, !.sends = z] \in Walks
      BY <3>1 DEF Walks
    <3> QED
      BY <3>2, <3>3
  <2>5. WalkType'
    BY <1>1, <2>2, <2>3, <2>4, WalkStep
  <2> QED
    BY <1>8, <2>5, MapsStand, LoopStands, PoolStands, HistoryStands DEF Deliver
<1>9. CASE Misstep(w)
  <2>1. HistoryType'
    BY <1>9 DEF Misstep, HistoryType
  <2> QED
    BY <1>9, <2>1, MapsStand, LoopStands, PoolStands, WalksStand DEF Misstep
<1> QED
  BY <1>3, <1>4, <1>5, <1>6, <1>7, <1>8, <1>9 DEF Worker

\* Every step keeps the types.
LEMMA TypeStep == TypeOK /\ [Next]_vars => TypeOK'
<1> SUFFICES ASSUME TypeOK, [Next]_vars PROVE TypeOK'
  OBVIOUS
<1>1. CASE Loop
  BY <1>1, SubscribeType, UnsubscribeType, RegistType, PublishType, FillGroupType,
     PublishCountType, PublishSubmitType DEF Loop
<1>2. CASE \E w \in Pool!Threads : Worker(w)
  BY <1>2, ThreadType
<1>3. CASE UNCHANGED vars
  BY <1>3, TypeParts, TypePartsNext, MapsStand, LoopStands, PoolStands, WalksStand,
     HistoryStands DEF vars
<1> QED
  BY <1>1, <1>2, <1>3 DEF Next

\* The broker starts with its types.
LEMMA TypeInit == Init => TypeOK
<1> SUFFICES ASSUME Init PROVE TypeOK
  OBVIOUS
<1>1. MapsType
  <2>1. << >> \in Seq(Messages) /\ << >> \in Seq(Seq(Conns))
    OBVIOUS
  <2> QED
    BY <2>1 DEF Init, MapsType
<1>2. LoopType /\ HistoryType
  BY DEF Init, LoopType, Idle, HistoryType
<1>3. WalkType
  BY DEF Init, WalkType, Places, Walks, NotWalking
<1>4. Pool!TypeOK
  <2>1. << >> \in Seq(Topics)
    OBVIOUS
  <2>2. thread_num \in 0..MaxThreads /\ idleThreadNum \in Int
    BY BoundsAssumption DEF Init, Pool!Init
  <2>3. /\ worker = [w \in Pool!Workers |-> "polling"]
        /\ task = [w \in Pool!Workers |-> NoTopic]
        /\ tasks = << >> /\ done \in BOOLEAN
    BY DEF Init, Pool!Init
  <2>4. \A w \in Pool!Workers : worker[w] = "polling" /\ task[w] = NoTopic
    BY <2>3
  <2> QED
    BY <2>1, <2>2, <2>3, <2>4, TopicAssumption DEF Pool!TypeOK
<1> QED
  BY <1>1, <1>2, <1>3, <1>4, TypeParts

\* The broker's maps, queues and groups, its pool and its walks over the groups
\* have their types.
THEOREM TypeCorrect == Spec => []TypeOK
BY TypeInit, TypeStep, PTL DEF Spec

-----------------------------------------------------------------------------
(* No message is stranded. *)

\* A topic stays attended while the loop, the tasks and the threads in it do.
LEMMA AttendedStands ==
  ASSUME NEW t, Attended(t), UNCHANGED <<loopVars, tasks, thread_num, worker, task>>
  PROVE  Attended(t)'
BY DEF Attended, loopVars, Pool!Threads

\* Commands that publish nothing leave the queues and the pool alone.
LEMMA QuietCommand ==
  ASSUME NothingStranded, UNCHANGED <<queue, tasks, thread_num, worker, task>>,
         loop \in {"ready", "fill"}
  PROVE  NothingStranded'
BY DEF NothingStranded, Attended, Pool!Threads

\* What publish() does leaves every queue attended.
LEMMA PublishStep ==
  ASSUME TypeOK, NothingStranded,
         (\E m \in Messages : Publish(m)) \/ PublishCount \/ PublishSubmit
  PROVE  NothingStranded'
<1> SUFFICES ASSUME NEW t \in Topics, queue'[t] # << >> PROVE Attended(t)'
  BY DEF NothingStranded
<1>1. ASSUME NEW m \in Messages, Publish(m) PROVE Attended(t)'
  <2>1. CASE t = TopicOf[m]
    BY <1>1, <2>1 DEF Publish, Attended
  <2>2. CASE t # TopicOf[m]
    <3>1. queue[t] # << >> /\ loop = "ready"
      BY <1>1, <2>2 DEF Publish, TypeOK
    <3> QED
      BY <1>1, <3>1 DEF Publish, NothingStranded, Attended, poolVars, Pool!Threads
  <2> QED
    BY <2>1, <2>2
<1>2. CASE PublishCount
  <2>1. Attended(t)
    BY <1>2 DEF PublishCount, NothingStranded, mapVars
  <2>2. UNCHANGED <<tasks, worker, task, cmd>> /\ loop' = "submit"
    BY <1>2 DEF PublishCount, Pool!AddThread, poolVars
  <2>3. Pool!Threads \subseteq Pool!Threads'
    BY <1>2 DEF PublishCount, Pool!AddThread, poolVars, Pool!Threads, TypeOK,
       Pool!TypeOK
  <2> QED
    BY <2>1, <2>2, <2>3 DEF Attended
<1>3. CASE PublishSubmit
  <2>1. Attended(t)
    BY <1>3 DEF PublishSubmit, NothingStranded, mapVars
  <2>2. cmd.topic \in Topics /\ tasks \in Seq(Topics)
    BY <1>3 DEF PublishSubmit, TypeOK, Pool!TypeOK
  <2>3. tasks' = Append(tasks, cmd.topic)
    BY <1>3 DEF PublishSubmit, Pool!Submit
  <2>4. Contains(tasks', t) <=> (t = cmd.topic \/ Contains(tasks, t))
    BY <2>2, <2>3, ContainsAppend
  <2>5. UNCHANGED <<thread_num, worker, task>>
    BY <1>3 DEF PublishSubmit, Pool!Submit
  <2> QED
    BY <2>1, <2>4, <2>5 DEF Attended, Pool!Threads
<1> QED
  BY <1>1, <1>2, <1>3

\* A topic stays attended when thread w, which is not in a task for it, moves,
\* and no task for it is taken.
LEMMA OtherThread ==
  ASSUME NEW t, NEW w \in Pool!Threads, Attended(t),
         ~(task[w] = t /\ worker[w] \in {"taken", "running"}),
         Contains(tasks, t) => Contains(tasks', t),
         UNCHANGED <<loopVars, thread_num>>,
         \A u \in Pool!Threads \ {w} : worker'[u] = worker[u] /\ task'[u] = task[u]
  PROVE  Attended(t)'
<1>1. Pool!Threads' = Pool!Threads
  BY DEF Pool!Threads
<1>2. loop' = loop /\ cmd' = cmd
  BY DEF loopVars
<1> QED
  BY <1>1, <1>2 DEF Attended

\* What a thread of the pool does leaves every queue attended.
LEMMA ThreadStep ==
  ASSUME TypeOK, NothingStranded, NEW w \in Pool!Threads, Worker(w)
  PROVE  NothingStranded'
<1> SUFFICES ASSUME NEW t \in Topics, queue'[t] # << >> PROVE Attended(t)'
  BY DEF NothingStranded
<1>1. w \in Pool!Workers
  BY BoundsAssumption DEF TypeOK, Pool!TypeOK, Pool!Threads, Pool!Workers
<1>2. worker \in [Pool!Workers -> {"polling", "trying", "taken", "running",
                                   "returned", "ended"}]
      /\ task \in [Pool!Workers -> Topics \cup {NoTopic}]
      /\ tasks \in Seq(Topics)
  BY DEF TypeOK, Pool!TypeOK
<1>3. Pool!Threads \subseteq Pool!Workers
  BY BoundsAssumption DEF TypeOK, Pool!TypeOK, Pool!Threads, Pool!Workers
<1>4. CASE PoolStep(w)
  <2>1. Attended(t) /\ UNCHANGED loopVars
    BY <1>4 DEF PoolStep, NothingStranded, mapVars
  <2>2. CASE Pool!CheckDone(w)
    BY <1>1, <1>2, <1>3, <2>1, <2>2, OtherThread DEF Pool!CheckDone
  <2>3. CASE Pool!TryPop(w)
    <3>1. CASE tasks = << >>
      BY <1>1, <1>2, <1>3, <2>1, <2>3, <3>1, OtherThread DEF Pool!TryPop
    <3>2. CASE tasks # << >> /\ Head(tasks) = t
      <4>1. task'[w] = t /\ worker'[w] = "taken" /\ Pool!Threads' = Pool!Threads
        BY <1>1, <1>2, <2>3, <3>2 DEF Pool!TryPop, Pool!Threads
      <4> QED
        BY <4>1 DEF Attended
    <3>3. CASE tasks # << >> /\ Head(tasks) # t
      <4>1. Contains(tasks, t) => Contains(tasks', t)
        <5>1. Contains(tasks, t) => Contains(Tail(tasks), t)
          BY <1>2, <3>3, ContainsTail
        <5>2. tasks' = Tail(tasks)
          BY <2>3, <3>3 DEF Pool!TryPop
        <5> QED
          BY <5>1, <5>2
      <4> QED
        BY <1>1, <1>2, <1>3, <2>1, <2>3, <3>3, <4>1, OtherThread DEF Pool!TryPop
    <3> QED
      BY <3>1, <3>2, <3>3
  <2>4. CASE Pool!StartTask(w)
    BY <1>1, <1>2, <1>3, <2>1, <2>4 DEF Pool!StartTask, Attended, loopVars, Pool!Threads
  <2>5. CASE Pool!FinishTask(w)
    BY <1>1, <1>2, <1>3, <2>1, <2>5, OtherThread DEF Pool!FinishTask
  <2> QED
    BY <1>4, <2>2, <2>3, <2>4, <2>5 DEF PoolStep, Pool!WorkerStep
<1>5. CASE TestEmpty(w)
  <2>1. Attended(t) /\ UNCHANGED loopVars
    BY <1>5 DEF TestEmpty, NothingStranded, mapVars
  <2>2. CASE UNCHANGED poolVars
    BY <2>1, <2>2, AttendedStands DEF poolVars
  <2>3. CASE queue[task[w]] = << >> /\ Pool!TaskReturns(w)
    <3>1. task[w] # t
      BY <1>5, <2>3 DEF TestEmpty, mapVars
    <3> QED
      BY <1>1, <1>2, <1>3, <2>1, <2>3, <3>1, OtherThread DEF Pool!TaskReturns
  <2> QED
    BY <1>5, <2>2, <2>3 DEF TestEmpty
<1>6. CASE SendTake(w)
  <2>1. queue[t] # << >>
    BY <1>6 DEF SendTake, TypeOK
  <2> QED
    BY <1>6, <2>1, AttendedStands DEF SendTake, NothingStranded, poolVars
<1>7. CASE SendNothing(w) \/ Pick(w) \/ Deliver(w) \/ Misstep(w)
  BY <1>7, AttendedStands DEF SendNothing, Pick, Deliver, Misstep, NothingStranded,
     mapVars, poolVars
<1> QED
  BY <1>4, <1>5, <1>6, <1>7 DEF Worker

\* Every step leaves every queue attended.
LEMMA StrandedStep == TypeOK /\ NothingStranded /\ [Next]_vars => NothingStranded'
<1> SUFFICES ASSUME TypeOK, NothingStranded, [Next]_vars PROVE NothingStranded'
  OBVIOUS
<1>1. ASSUME NEW c \in Conns, NEW t \in Topics, Subscribe(c, t) \/ Unsubscribe(c, t)
      PROVE  NothingStranded'
  BY <1>1, QuietCommand DEF Subscribe, Unsubscribe, poolVars
<1>2. ASSUME NEW c \in Conns, Regist(c) PROVE NothingStranded'
  BY <1>2, QuietCommand DEF Regist, poolVars
<1>3. CASE FillGroup
  BY <1>3, QuietCommand DEF FillGroup, poolVars
<1>4. CASE (\E m \in Messages : Publish(m)) \/ PublishCount \/ PublishSubmit
  BY <1>4, PublishStep
<1>5. ASSUME NEW w \in Pool!Threads, Worker(w) PROVE NothingStranded'
  BY <1>5, ThreadStep
<1>6. CASE UNCHANGED vars
  BY <1>6, AttendedStands DEF vars, NothingStranded, mapVars, poolVars
<1> QED
  BY <1>1, <1>2, <1>3, <1>4, <1>5, <1>6 DEF Next, Loop

\* While a topic's queue is not empty a task for it waits or runs, or is about
\* to be submitted: a thread leaves publishMsg() only with the queue empty, and
\* publish() pushes before it submits.
THEOREM MessagesAttended == Spec => []NothingStranded
<1>1. Init => NothingStranded
  BY DEF Init, NothingStranded
<1> QED
  BY <1>1, TypeInit, TypeStep, StrandedStep, PTL DEF Spec

-----------------------------------------------------------------------------
(* A message is in one place. *)

\* The place of a message depends on the queues, the walks and the history.
LEMMA PlacesStand ==
  ASSUME MessageInOnePlace, UNCHANGED <<queue, walk, published>>,
         Pool!Workers' = Pool!Workers
  PROVE  MessageInOnePlace'
BY DEF MessageInOnePlace, Queued, Walking

\* So it does while the walks keep their messages, or end.
LEMMA WalksKeep ==
  ASSUME MessageInOnePlace, UNCHANGED <<queue, published>>,
         Pool!Workers' = Pool!Workers,
         \A w \in Pool!Workers : walk'[w].msg \in {walk[w].msg, NoMessage}
  PROVE  MessageInOnePlace'
<1>1. \A m \in Messages : Queued(m)' = Queued(m) /\ Walking(m)' \subseteq Walking(m)
  BY MessageAssumption DEF Queued, Walking
<1> QED
  BY <1>1 DEF MessageInOnePlace

\* publish() puts a new message into its topic's queue.
LEMMA PublishPlaces ==
  ASSUME TypeOK, MessageInOnePlace, NEW n \in Messages, Publish(n)
  PROVE  MessageInOnePlace'
<1> DEFINE t == TopicOf[n]
<1>1. t \in Topics /\ queue[t] \in Seq(Messages)
  BY TopicAssumption DEF TypeOK
<1>2. queue' = [queue EXCEPT ![t] = Append(queue[t], n)]
      /\ published' = published \cup {n} /\ n \notin published /\ walk' = walk
  BY DEF Publish, walkVars
<1>3. /\ Len(Append(queue[t], n)) = Len(queue[t]) + 1
      /\ Append(queue[t], n)[Len(queue[t]) + 1] = n
      /\ \A i \in 1..Len(queue[t]) : Append(queue[t], n)[i] = queue[t][i]
      /\ DOMAIN Append(queue[t], n) = 1..Len(queue[t]) + 1
      /\ DOMAIN queue[t] = 1..Len(queue[t]) /\ Len(queue[t]) \in Nat
  BY <1>1
<1>4. queue'[t] = Append(queue[t], n) /\ \A s \in Topics \ {t} : queue'[s] = queue[s]
  BY <1>1, <1>2 DEF TypeOK
<1>5. ASSUME NEW s \in Topics, NEW i \in DOMAIN queue'[s]
      PROVE  TopicOf[queue'[s][i]] = s
  <2>1. CASE s = t
    <3>1. i \in 1..Len(queue[t]) + 1
      BY <1>3, <1>4, <1>5, <2>1
    <3>2. CASE i = Len(queue[t]) + 1
      BY <1>3, <1>4, <2>1, <3>2
    <3>3. CASE i \in 1..Len(queue[t])
      BY <1>1, <1>3, <1>4, <2>1, <3>3 DEF MessageInOnePlace
    <3> QED
      BY <1>3, <3>1, <3>2, <3>3
  <2>2. CASE s # t
    BY <1>4, <1>5, <2>2 DEF MessageInOnePlace
  <2> QED
    BY <2>1, <2>2
<1>6. ASSUME NEW m \in Messages
      PROVE  Walking(m)' = Walking(m)
  BY <1>2 DEF Walking, Pool!Workers
<1>7. ASSUME NEW m \in Messages, m # n
      PROVE  Queued(m)' = Queued(m)
  <2>1. CASE TopicOf[m] = t
    <3>1. /\ Queued(m)' = {i \in 1..Len(queue[t]) + 1 : queue'[t][i] = m}
          /\ Queued(m) = {i \in 1..Len(queue[t]) : queue[t][i] = m}
      BY <1>3, <1>4, <2>1 DEF Queued
    <3>2. queue'[t][Len(queue[t]) + 1] # m
      BY <1>3, <1>4, <1>7
    <3>3. \A i \in 1..Len(queue[t]) : queue'[t][i] = queue[t][i]
      BY <1>3, <1>4
    <3>4. \A i : i \in 1..Len(queue[t]) + 1 <=> i \in 1..Len(queue[t])
                                                \/ i = Len(queue[t]) + 1
      BY <1>3
    <3> HIDE DEF t
    <3> QED
      BY <3>1, <3>2, <3>3, <3>4
  <2>2. CASE TopicOf[m] # t
    BY <1>4, <1>7, <2>2, TopicAssumption DEF Queued
  <2> QED
    BY <2>1, <2>2
<1>8. Queued(n)' = {Len(queue[t]) + 1} /\ Walking(n) = {}
  <2>1. Queued(n) = {} /\ Walking(n) = {}
    BY <1>2 DEF MessageInOnePlace
  <2>2. \A i \in DOMAIN queue[t] : queue[t][i] # n
    BY <2>1 DEF Queued
  <2>3. Queued(n)' = {i \in DOMAIN queue'[t] : queue'[t][i] = n}
    BY DEF Queued
  <2>4. \A i \in 1..Len(queue[t]) + 1 : queue'[t][i] = n <=> i = Len(queue[t]) + 1
    BY <1>3, <1>4, <2>2
  <2>5. DOMAIN queue'[t] = 1..Len(queue[t]) + 1
    BY <1>3, <1>4
  <2>6. Len(queue[t]) + 1 \in 1..Len(queue[t]) + 1
    BY <1>3
  <2> HIDE DEF t
  <2> QED
    BY <2>1, <2>3, <2>4, <2>5, <2>6
<1> HIDE DEF t
<1>9. ASSUME NEW m \in Messages
      PROVE  /\ \A i, j \in Queued(m)' : i = j
             /\ \A u, w \in Walking(m)' : u = w
             /\ Queued(m)' = {} \/ Walking(m)' = {}
             /\ m \notin published' => Queued(m)' = {} /\ Walking(m)' = {}
  <2>1. CASE m = n
    BY <1>2, <1>6, <1>8, <2>1
  <2>2. CASE m # n
    BY <1>2, <1>6, <1>7, <2>2 DEF MessageInOnePlace
  <2> QED
    BY <2>1, <2>2
<1> QED
  BY <1>5, <1>9 DEF MessageInOnePlace

\* A thread that takes a message is then the only one to have it.
LEMMA TakePlaces ==
  ASSUME TypeOK, MessageInOnePlace, NEW w \in Pool!Threads, SendTake(w)
  PROVE  MessageInOnePlace'
<1>1. PICK t \in Topics, n \in Messages :
        /\ t = task[w] /\ n = Head(queue[t])
        /\ w \in Pool!Workers /\ queue[t] \in Seq(Messages) /\ queue[t] # << >>
  <2>1. /\ w \in Pool!Workers /\ task[w] \in Topics
        /\ queue[task[w]] \in Seq(Messages) /\ queue[task[w]] # << >>
    BY TaskTopic DEF SendTake, TypeOK
  <2>2. Head(queue[task[w]]) \in Messages
    BY <2>1, HeadTail
  <2> QED
    BY <2>1, <2>2
<1>2. /\ n = queue[t][1]
      /\ Len(queue[t]) \in Nat \ {0}
      /\ DOMAIN queue[t] = 1..Len(queue[t])
      /\ DOMAIN Tail(queue[t]) = 1..Len(queue[t]) - 1
      /\ \A i \in 1..Len(queue[t]) - 1 : Tail(queue[t])[i] = queue[t][i + 1]
  BY <1>1
<1>3. queue'[t] = Tail(queue[t]) /\ \A s \in Topics \ {t} : queue'[s] = queue[s]
  BY <1>1 DEF SendTake, TypeOK
<1>4. /\ walk'[w].msg = n /\ \A u \in Pool!Workers \ {w} : walk'[u] = walk[u]
      /\ published' = published
  BY <1>1 DEF SendTake, TypeOK, NotWalking
<1>5. TopicOf[n] = t /\ 1 \in Queued(n)
  BY <1>1, <1>2 DEF MessageInOnePlace, Queued
<1>6. ASSUME NEW s \in Topics, NEW i \in DOMAIN queue'[s]
      PROVE  TopicOf[queue'[s][i]] = s
  <2>1. CASE s = t
    <3>1. i \in 1..Len(queue[t]) - 1 /\ queue'[t][i] = queue[t][i + 1]
      BY <1>2, <1>3, <1>6, <2>1
    <3>2. i + 1 \in DOMAIN queue[t]
      BY <1>2, <3>1
    <3> QED
      BY <1>1, <2>1, <3>1, <3>2 DEF MessageInOnePlace
  <2>2. CASE s # t
    BY <1>3, <1>6, <2>2 DEF MessageInOnePlace
  <2> QED
    BY <2>1, <2>2
<1>7. ASSUME NEW m \in Messages, NEW i \in Queued(m)'
      PROVE  i \in Queued(m) \/ (i \in Nat /\ i + 1 \in Queued(m) /\ TopicOf[m] = t)
  <2>1. CASE TopicOf[m] = t
    <3>1. i \in 1..Len(queue[t]) - 1 /\ queue'[t][i] = queue[t][i + 1]
          /\ queue'[t][i] = m
      BY <1>2, <1>3, <1>7, <2>1 DEF Queued
    <3>2. i \in Nat /\ i + 1 \in DOMAIN queue[t]
      BY <1>2, <3>1
    <3> QED
      BY <2>1, <3>1, <3>2 DEF Queued
  <2>2. CASE TopicOf[m] # t
    BY <1>3, <1>7, <2>2, TopicAssumption DEF Queued
  <2> QED
    BY <2>1, <2>2
<1>8. ASSUME NEW m \in Messages, NEW i \in Queued(m)', NEW j \in Queued(m)'
      PROVE  i = j
  <2>1. CASE TopicOf[m] = t
    <3>1. \A k \in Queued(m)' : k \in Nat /\ k + 1 \in Queued(m)
      <4> SUFFICES ASSUME NEW k \in Queued(m)' PROVE k \in Nat /\ k + 1 \in Queued(m)
        OBVIOUS
      <4>1. k \in 1..Len(queue[t]) - 1 /\ queue'[t][k] = queue[t][k + 1]
            /\ queue'[t][k] = m
        BY <1>2, <1>3, <2>1 DEF Queued
      <4>2. k \in Nat /\ k + 1 \in DOMAIN queue[t]
        BY <1>2, <4>1
      <4> QED
        BY <2>1, <4>1, <4>2 DEF Queued
    <3>2. i \in Nat /\ j \in Nat /\ i + 1 = j + 1
      BY <1>8, <3>1 DEF MessageInOnePlace
    <3> QED
      BY <3>2
  <2>2. CASE TopicOf[m] # t
    <3>1. Queued(m)' = Queued(m)
      BY <1>3, <2>2, TopicAssumption DEF Queued
    <3> QED
      BY <1>8, <3>1 DEF MessageInOnePlace
  <2> QED
    BY <2>1, <2>2
<1>9. ASSUME NEW m \in Messages, m # n
      PROVE  Walking(m)' \subseteq Walking(m)
  BY <1>4, <1>9 DEF Walking, Pool!Workers
<1>10. Walking(n) = {} /\ Walking(n)' = {w} /\ n \in published
  <2>1. Walking(n) = {} /\ n \in published
    BY <1>2, <1>5 DEF MessageInOnePlace
  <2>2. \A u \in Pool!Workers \ {w} : walk'[u].msg # n
    BY <1>4, <2>1 DEF Walking
  <2>3. Walking(n)' = {u \in Pool!Workers : walk'[u].msg = n}
    BY DEF Walking, Pool!Workers
  <2> QED
    BY <1>1, <1>4, <2>1, <2>2, <2>3
<1>11. Queued(n)' = {}
  <2> SUFFICES ASSUME NEW i \in Queued(n)' PROVE FALSE
    OBVIOUS
  <2>1. i \in 1..Len(queue[t]) - 1 /\ queue[t][i + 1] = n
    <3>1. i \in DOMAIN queue'[TopicOf[n]] /\ queue'[TopicOf[n]][i] = n
      BY DEF Queued
    <3>2. i \in DOMAIN Tail(queue[t]) /\ Tail(queue[t])[i] = n
      BY <1>3, <1>5, <3>1
    <3> QED
      BY <1>2, <3>2
  <2>2. i + 1 \in DOMAIN queue[t]
    BY <1>2, <2>1
  <2>3. i + 1 \in Queued(n)
    BY <1>5, <2>1, <2>2 DEF Queued
  <2>4. i + 1 = 1
    BY <1>2, <1>5, <2>3 DEF MessageInOnePlace
  <2> QED
    BY <2>1, <2>4
<1>12. ASSUME NEW m \in Messages, m # n
       PROVE  /\ \A u, v \in Walking(m)' : u = v
              /\ Queued(m)' = {} \/ Walking(m)' = {}
              /\ m \notin published' => Queued(m)' = {} /\ Walking(m)' = {}
  <2>1. Queued(m) = {} => Queued(m)' = {}
    BY <1>7
  <2> QED
    BY <1>4, <1>9, <1>12, <2>1 DEF MessageInOnePlace
<1>13. ASSUME NEW m \in Messages
       PROVE  /\ \A u, v \in Walking(m)' : u = v
              /\ Queued(m)' = {} \/ Walking(m)' = {}
              /\ m \notin published' => Queued(m)' = {} /\ Walking(m)' = {}
  <2>1. CASE m = n
    BY <1>4, <1>10, <1>11, <2>1
  <2>2. CASE m # n
    BY <1>12, <2>2
  <2> QED
    BY <2>1, <2>2
<1> QED
  BY <1>6, <1>8, <1>13 DEF MessageInOnePlace

\* Every step leaves a message in one place.
LEMMA PlaceStep == TypeOK /\ MessageInOnePlace /\ [Next]_vars => MessageInOnePlace'
<1> SUFFICES ASSUME TypeOK, MessageInOnePlace, [Next]_vars PROVE MessageInOnePlace'
  OBVIOUS
<1>1. Pool!Workers' = Pool!Workers
  BY DEF Pool!Workers
<1>2. ASSUME NEW c \in Conns, NEW t \in Topics, Subscribe(c, t)
      PROVE  MessageInOnePlace'
  <2>1. \A w \in Pool!Workers : walk'[w].msg = walk[w].msg
    <3>1. CASE UNCHANGED walk
      BY <3>1
    <3>2. CASE AddGroup(c, t)
      BY <3>2 DEF AddGroup, TypeOK
    <3> QED
      BY <1>2, <3>1, <3>2 DEF Subscribe, JoinGroup
  <2> QED
    BY <1>1, <1>2, <2>1, WalksKeep DEF Subscribe
<1>3. ASSUME NEW c \in Conns, NEW t \in Topics, Unsubscribe(c, t) \/ Regist(c)
      PROVE  MessageInOnePlace'
  BY <1>1, <1>3, PlacesStand DEF Unsubscribe, Regist, walkVars
<1>4. ASSUME NEW m \in Messages, Publish(m)
      PROVE  MessageInOnePlace'
  BY <1>4, PublishPlaces
<1>5. CASE FillGroup \/ PublishCount \/ PublishSubmit
  BY <1>1, <1>5, PlacesStand DEF FillGroup, PublishCount, PublishSubmit, walkVars,
     mapVars
<1>6. ASSUME NEW w \in Pool!Threads, Worker(w)
      PROVE  MessageInOnePlace'
  <2>1. CASE SendTake(w)
    BY <2>1, TakePlaces
  <2>2. CASE PoolStep(w) \/ TestEmpty(w) \/ SendNothing(w) \/ Misstep(w)
    BY <1>1, <2>2, PlacesStand DEF PoolStep, TestEmpty, SendNothing, Misstep,
       walkVars, mapVars
  <2>3. CASE Pick(w) \/ Deliver(w)
    <3>1. \A u \in Pool!Workers : walk'[u].msg \in {walk[u].msg, NoMessage}
      <4>1. \/ walk' = [walk EXCEPT ![w] = NotWalking]
            \/ \E i : walk' = [walk EXCEPT ![w].index = i]
            \/ walk' = [walk EXCEPT ![w].group = @ + 1, ![w].index = 0,
                                    ![w].sends = @ + 1]
        BY <2>3 DEF Pick, Deliver
      <4>2. \A u \in Pool!Workers : walk[u] \in Walks
        BY DEF TypeOK, Walks
      <4>3. CASE walk' = [walk EXCEPT ![w] = NotWalking]
        BY <4>3 DEF NotWalking, TypeOK
      <4>4. ASSUME NEW i, walk' = [walk EXCEPT ![w].index = i]
            PROVE  \A u \in Pool!Workers : walk'[u].msg = walk[u].msg
        BY <4>2, <4>4 DEF Walks, TypeOK
      <4>5. CASE walk' = [walk EXCEPT ![w].group = @ + 1, ![w].index = 0,
                                      ![w].sends = @ + 1]
        <5>1. walk' = [walk EXCEPT ![w] = [walk[w] EXCEPT !.group = @ + 1,
                                             !.index = 0, !.sends = @ + 1]]
          BY <4>5
        <5> QED
          BY <4>2, <5>1 DEF Walks, TypeOK
      <4> QED
        BY <4>1, <4>3, <4>4, <4>5
    <3> QED
      BY <1>1, <2>3, <3>1, WalksKeep DEF Pick, Deliver, mapVars
  <2> QED
    BY <1>6, <2>1, <2>2, <2>3 DEF Worker
<1>7. CASE UNCHANGED vars
  BY <1>1, <1>7, PlacesStand DEF vars, mapVars, walkVars
<1>8. ASSUME NEW c \in Conns, Regist(c)
      PROVE  MessageInOnePlace'
  BY <1>1, <1>8, PlacesStand DEF Regist, walkVars
<1> QED
  BY <1>2, <1>3, <1>4, <1>5, <1>6, <1>7, <1>8 DEF Next, Loop

\* However the threads interleave, no message is taken twice, and none that a
\* thread has taken is still, or again, in a queue.
THEOREM MessagesTakenOnce == Spec => []MessageInOnePlace
<1>1. Init => MessageInOnePlace
  <2> SUFFICES ASSUME Init PROVE MessageInOnePlace
    OBVIOUS
  <2>1. \A t \in Topics : DOMAIN queue[t] = {}
    BY DEF Init
  <2>2. \A w \in Pool!Workers : walk[w].msg = NoMessage
    BY DEF Init, NotWalking
  <2> QED
    BY <2>1, <2>2, TopicAssumption, MessageAssumption
       DEF MessageInOnePlace, Queued, Walking
<1> QED
  BY <1>1, TypeInit, TypeStep, PlaceStep, PTL DEF Spec

-----------------------------------------------------------------------------
(* A walk goes to every group. *)

\* A thread that holds a message is in the walk over its topic's groups, and has
\* sent once for each group its iterator has passed.
WalkOK(w) ==
  /\ walk[w].msg # NoMessage => at[w] \in {"pick", "deliver"}
  /\ at[w] \in {"pick", "deliver"} =>
       /\ worker[w] = "running" /\ task[w] \in Topics
       /\ walk[w].sends = walk[w].group - 1
       /\ walk[w].group \in 1..(Len(sendGroup[task[w]]) + 1)
  /\ at[w] = "deliver" => walk[w].group <= Len(sendGroup[task[w]])
WalksOK == \A w \in Pool!Workers : WalkOK(w)

\* The groups of a topic stay, or get one more behind them.
GroupsGrow == \A t \in Topics : Len(sendGroup[t]) <= Len(sendGroup'[t])

\* The vector of the groups as one of them changes.
LEMMA GroupChanged ==
  ASSUME sendGroup \in [Topics -> Seq(Seq(Conns))], NEW t \in Topics,
         NEW g \in DOMAIN sendGroup[t], NEW members \in Seq(Conns),
         sendGroup' = [sendGroup EXCEPT ![t][g] = members]
  PROVE  /\ DOMAIN sendGroup'[t] = DOMAIN sendGroup[t]
         /\ sendGroup'[t][g] = members
         /\ \A h \in DOMAIN sendGroup[t] \ {g} : sendGroup'[t][h] = sendGroup[t][h]
         /\ \A s \in Topics \ {t} : sendGroup'[s] = sendGroup[s]
         /\ GroupsGrow
<1>1. sendGroup[t] \in Seq(Seq(Conns)) /\ Len(sendGroup[t]) \in Nat
  OBVIOUS
<1>2. sendGroup'[t] = [sendGroup[t] EXCEPT ![g] = members]
  OBVIOUS
<1>3. \A s \in Topics \ {t} : sendGroup'[s] = sendGroup[s]
  OBVIOUS
<1>4. sendGroup'[t] \in Seq(Seq(Conns)) /\ Len(sendGroup'[t]) = Len(sendGroup[t])
  BY <1>1, <1>2
<1>5. \A s \in Topics : Len(sendGroup[s]) \in Nat
  OBVIOUS
<1>6. GroupsGrow
  BY <1>1, <1>3, <1>4, <1>5 DEF GroupsGrow
<1> QED
  BY <1>1, <1>2, <1>3, <1>6

\* A new group is the last one, and empty.
LEMMA GroupAdded ==
  ASSUME sendGroup \in [Topics -> Seq(Seq(Conns))], NEW t \in Topics,
         sendGroup' = [sendGroup EXCEPT ![t] = Append(@, << >>)]
  PROVE  /\ DOMAIN sendGroup'[t] = DOMAIN sendGroup[t] \cup {Len(sendGroup[t]) + 1}
         /\ sendGroup'[t][Len(sendGroup[t]) + 1] = << >>
         /\ \A h \in DOMAIN sendGroup[t] : sendGroup'[t][h] = sendGroup[t][h]
         /\ \A s \in Topics \ {t} : sendGroup'[s] = sendGroup[s]
         /\ GroupsGrow
<1>1. sendGroup[t] \in Seq(Seq(Conns)) /\ << >> \in Seq(Conns)
      /\ Len(sendGroup[t]) \in Nat
  OBVIOUS
<1>2. sendGroup'[t] = Append(sendGroup[t], << >>)
  OBVIOUS
<1>3. \A s \in Topics \ {t} : sendGroup'[s] = sendGroup[s]
  OBVIOUS
<1>4. \A s \in Topics : Len(sendGroup[s]) \in Nat
  OBVIOUS
<1>5. /\ Len(sendGroup'[t]) = Len(sendGroup[t]) + 1
      /\ DOMAIN sendGroup'[t] = DOMAIN sendGroup[t] \cup {Len(sendGroup[t]) + 1}
      /\ sendGroup'[t][Len(sendGroup[t]) + 1] = << >>
      /\ \A h \in DOMAIN sendGroup[t] : sendGroup'[t][h] = sendGroup[t][h]
  BY <1>1, <1>2, AppendFacts
<1>6. GroupsGrow
  BY <1>1, <1>3, <1>4, <1>5 DEF GroupsGrow
<1> QED
  BY <1>3, <1>5, <1>6

\* The groups stand still.
LEMMA GroupsStand ==
  ASSUME sendGroup \in [Topics -> Seq(Seq(Conns))], sendGroup' = sendGroup
  PROVE  GroupsGrow
<1>1. \A s \in Topics : Len(sendGroup[s]) \in Nat
  OBVIOUS
<1> QED
  BY <1>1 DEF GroupsGrow

\* What removeConnection() does to a group: it takes the first place of c.
LEMMA ConnectionRemoved ==
  ASSUME TypeOK, NEW c \in Conns, NEW t \in Topics, RemoveConnection(c, t)
  PROVE  \/ /\ sendGroup' = sendGroup
            /\ groupid[c] \in DOMAIN sendGroup[t]
                 => ~Contains(sendGroup[t][groupid[c]], c)
         \/ /\ groupid[c] \in DOMAIN sendGroup[t]
            /\ sendGroup[t][groupid[c]] \in Seq(Conns)
            /\ \E i \in DOMAIN sendGroup[t][groupid[c]] :
                 /\ sendGroup[t][groupid[c]][i] = c
                 /\ RemoveAt(sendGroup[t][groupid[c]], i) \in Seq(Conns)
                 /\ sendGroup' =
                      [sendGroup EXCEPT
                         ![t][groupid[c]] = RemoveAt(sendGroup[t][groupid[c]], i)]
<1>1. CASE UNCHANGED sendGroup /\ (groupid[c] \in DOMAIN sendGroup[t]
                                     => ~Contains(sendGroup[t][groupid[c]], c))
  BY <1>1
<1>2. ASSUME groupid[c] \in DOMAIN sendGroup[t],
             NEW i \in DOMAIN sendGroup[t][groupid[c]],
             sendGroup[t][groupid[c]][i] = c,
             sendGroup' = [sendGroup EXCEPT ![t][groupid[c]] = RemoveAt(@, i)]
      PROVE  /\ sendGroup[t][groupid[c]] \in Seq(Conns)
             /\ RemoveAt(sendGroup[t][groupid[c]], i) \in Seq(Conns)
             /\ sendGroup' =
                  [sendGroup EXCEPT
                     ![t][groupid[c]] = RemoveAt(sendGroup[t][groupid[c]], i)]
  <2>1. sendGroup[t] \in Seq(Seq(Conns)) /\ sendGroup[t][groupid[c]] \in Seq(Conns)
    BY <1>2 DEF TypeOK
  <2>2. RemoveAt(sendGroup[t][groupid[c]], i) \in Seq(Conns)
    BY <1>2, <2>1, RemoveAtFacts
  <2> QED
    BY <1>2, <2>1, <2>2
<1> QED
  BY <1>1, <1>2 DEF RemoveConnection

\* No command takes a group away.
LEMMA LoopGrows == TypeOK /\ Loop => GroupsGrow
<1> SUFFICES ASSUME TypeOK, Loop PROVE GroupsGrow
  OBVIOUS
<1>1. sendGroup \in [Topics -> Seq(Seq(Conns))]
  BY DEF TypeOK
<1>2. ASSUME NEW c \in Conns, NEW t \in Topics, Subscribe(c, t)
      PROVE  GroupsGrow
  <2>1. PICK g \in 1..Len(sendGroup[t]) + 1 :
          \/ g \in DOMAIN sendGroup[t] /\ JoinGroup(c, t, g)
          \/ g \notin DOMAIN sendGroup[t] /\ AddGroup(c, t)
    BY <1>2 DEF Subscribe
  <2>2. CASE g \in DOMAIN sendGroup[t] /\ JoinGroup(c, t, g)
    <3> DEFINE old == sendGroup[t][g]
               new == IF Contains(old, c) THEN old ELSE Append(old, c)
    <3>1. old \in Seq(Conns)
      BY <1>1, <2>2
    <3>2. new \in Seq(Conns) /\ sendGroup' = [sendGroup EXCEPT ![t][g] = new]
      BY <2>2, <3>1 DEF JoinGroup
    <3> HIDE DEF new
    <3> QED
      BY <1>1, <2>2, <3>2, GroupChanged
  <2>3. CASE AddGroup(c, t)
    BY <1>1, <2>3, GroupAdded DEF AddGroup
  <2> QED
    BY <2>1, <2>2, <2>3
<1>3. ASSUME NEW c \in Conns, NEW t \in Topics, Unsubscribe(c, t)
      PROVE  GroupsGrow
  <2>1. RemoveConnection(c, t)
    BY <1>3 DEF Unsubscribe
  <2>2. CASE sendGroup' = sendGroup
    BY <1>1, <2>2, GroupsStand
  <2>3. ASSUME groupid[c] \in DOMAIN sendGroup[t], NEW left \in Seq(Conns),
               sendGroup' = [sendGroup EXCEPT ![t][groupid[c]] = left]
        PROVE  GroupsGrow
    BY <1>1, <2>3, GroupChanged
  <2> QED
    BY <2>1, <2>2, <2>3, ConnectionRemoved
<1>4. CASE FillGroup
  <2>1. PICK c \in Conns :
          sendGroup' = [sendGroup EXCEPT ![cmd.topic][groupid[c]] = Append(@, c)]
    BY <1>4 DEF FillGroup, TypeOK
  <2>2. cmd.topic \in Topics
    BY <1>4 DEF FillGroup, TypeOK
  <2>3. CASE groupid[c] \in DOMAIN sendGroup[cmd.topic]
    <3> DEFINE new == Append(sendGroup[cmd.topic][groupid[c]], c)
    <3>1. sendGroup[cmd.topic][groupid[c]] \in Seq(Conns)
      BY <1>1, <2>2, <2>3
    <3>2. /\ new \in Seq(Conns)
          /\ sendGroup' = [sendGroup EXCEPT ![cmd.topic][groupid[c]] = new]
      BY <2>1, <3>1
    <3> HIDE DEF new
    <3> QED
      BY <1>1, <2>2, <2>3, <3>2, GroupChanged
  <2>4. CASE groupid[c] \notin DOMAIN sendGroup[cmd.topic]
    <3>1. sendGroup[cmd.topic] \in Seq(Seq(Conns))
      BY <1>1, <2>2
    <3>2. [sendGroup[cmd.topic] EXCEPT
              ![groupid[c]] = Append(sendGroup[cmd.topic][groupid[c]], c)]
            = sendGroup[cmd.topic]
      BY <2>4, <3>1
    <3>3. sendGroup' = sendGroup
      BY <1>1, <2>1, <3>2
    <3> QED
      BY <1>1, <3>3, GroupsStand
  <2> QED
    BY <2>3, <2>4
<1>5. CASE \/ \E c \in Conns : Regist(c)
           \/ \E m \in Messages : Publish(m)
           \/ PublishCount \/ PublishSubmit
  <2>1. sendGroup' = sendGroup
    BY <1>5 DEF Regist, Publish, PublishCount, PublishSubmit, mapVars
  <2> QED
    BY <1>1, <2>1, GroupsStand
<1> QED
  BY <1>2, <1>3, <1>4, <1>5 DEF Loop

\* A walk that stands still goes on to be right when groups are added.
LEMMA WalkStands ==
  ASSUME TypeOK, NEW w \in Pool!Workers, WalkOK(w), GroupsGrow, TypeOK',
         at'[w] = at[w], worker'[w] = worker[w], task'[w] = task[w],
         walk'[w].msg = walk[w].msg, walk'[w].sends = walk[w].sends,
         walk'[w].group = walk[w].group
  PROVE  WalkOK(w)'
<1>1. CASE at[w] \in {"pick", "deliver"}
  <2>1. task[w] \in Topics /\ walk[w].group \in 1..(Len(sendGroup[task[w]]) + 1)
    BY <1>1 DEF WalkOK
  <2>2. /\ Len(sendGroup[task[w]]) \in Nat
        /\ Len(sendGroup[task[w]]) <= Len(sendGroup'[task[w]])
    BY <2>1 DEF GroupsGrow, TypeOK
  <2>3. sendGroup' \in [Topics -> Seq(Seq(Conns))]
    BY DEF TypeOK
  <2>4. Len(sendGroup'[task[w]]) \in Nat
    BY <2>1, <2>3
  <2>5. walk[w].group \in 1..(Len(sendGroup'[task[w]]) + 1)
    BY <2>1, <2>2, <2>4
  <2>6. at[w] = "deliver" => walk[w].group <= Len(sendGroup'[task[w]])
    BY <2>1, <2>2, <2>4 DEF WalkOK
  <2> QED
    BY <2>5, <2>6 DEF WalkOK
<1>2. CASE at[w] \notin {"pick", "deliver"}
  BY <1>2 DEF WalkOK
<1> QED
  BY <1>1, <1>2

\* A command leaves the walks where they are.
LEMMA LoopWalks ==
  ASSUME TypeOK, TypeOK', WalksOK, Loop
  PROVE  /\ WalksOK'
         /\ \A w \in Pool!Workers : walk'[w].msg = walk[w].msg
<1>1. UNCHANGED at /\ UNCHANGED <<worker, task>>
  BY DEF Loop, Subscribe, Unsubscribe, Regist, Publish, FillGroup, PublishCount,
         PublishSubmit, Pool!AddThread, Pool!Submit, poolVars, walkVars
<1>2. \A w \in Pool!Workers : /\ walk'[w].msg = walk[w].msg
                              /\ walk'[w].sends = walk[w].sends
                              /\ walk'[w].group = walk[w].group
  <2>1. CASE walk' = walk
    BY <2>1
  <2>2. ASSUME NEW c \in Conns, NEW t \in Topics, AddGroup(c, t)
        PROVE  \A w \in Pool!Workers : /\ walk'[w].msg = walk[w].msg
                                       /\ walk'[w].sends = walk[w].sends
                                       /\ walk'[w].group = walk[w].group
    <3>1. PICK moved \in BOOLEAN :
            walk' = [w \in Pool!Workers |->
                       IF w \in Walkers(t) THEN [walk[w] EXCEPT !.wild = @ \/ moved]
                                           ELSE walk[w]]
      BY <2>2 DEF AddGroup
    <3>2. \A w \in Pool!Workers : walk[w] \in Walks
      BY TypeParts DEF WalkType
    <3>3. \A w \in Pool!Workers : \A x :
            /\ [walk[w] EXCEPT !.wild = x].msg = walk[w].msg
            /\ [walk[w] EXCEPT !.wild = x].sends = walk[w].sends
            /\ [walk[w] EXCEPT !.wild = x].group = walk[w].group
      BY <3>2 DEF Walks
    <3> QED
      BY <3>1, <3>3
  <2> QED
    BY <2>1, <2>2 DEF Loop, Subscribe, JoinGroup, Unsubscribe, Regist, Publish,
       FillGroup, PublishCount, PublishSubmit, walkVars
<1>3. Pool!Workers' = Pool!Workers
  BY DEF Pool!Workers
<1> QED
  BY <1>1, <1>2, <1>3, LoopGrows, WalkStands DEF WalksOK

\* A thread's own step keeps its walk right, and ends it only behind the last
\* group.
LEMMA OwnWalk ==
  ASSUME TypeOK, NEW w \in Pool!Threads, w \in Pool!Workers, WalkOK(w), Worker(w)
  PROVE  /\ WalkOK(w)'
         /\ walk[w].msg # NoMessage /\ walk'[w].msg = NoMessage
              => walk[w].sends = Len(sendGroup[task[w]])
<1>1. /\ at[w] \in Places /\ walk[w] \in Walks /\ DOMAIN at = Pool!Workers
      /\ DOMAIN walk = Pool!Workers
      /\ worker[w] \in {"polling", "trying", "taken", "running", "returned", "ended"}
      /\ DOMAIN worker = Pool!Workers /\ DOMAIN task = Pool!Workers
      /\ walk[w].group \in Nat /\ walk[w].sends \in Nat
  BY TypeParts DEF WalkType, Walks, Pool!TypeOK
<1>2. worker[w] \in {"taken", "running"} => task[w] \in Topics
  BY TaskTopic DEF TypeOK
<1>3. \A t \in Topics : /\ sendGroup[t] \in Seq(Seq(Conns))
                        /\ DOMAIN sendGroup[t] = 1..Len(sendGroup[t])
                        /\ Len(sendGroup[t]) \in Nat
  BY DEF TypeOK
<1>4. NotWalking.msg = NoMessage /\ NotWalking.group = 1 /\ NotWalking.sends = 0
  BY DEF NotWalking
<1>5. CASE PoolStep(w)
  <2>1. worker[w] # "running" /\ UNCHANGED walkVars /\ UNCHANGED sendGroup
    BY <1>5 DEF PoolStep, Pool!WorkerStep, Pool!CheckDone, Pool!TryPop,
                Pool!StartTask, Pool!FinishTask, mapVars
  <2> QED
    BY <2>1 DEF WalkOK, walkVars
<1>6. CASE TestEmpty(w)
  <2>1. /\ at[w] = "test" /\ at'[w] \in {"test", "send"} /\ walk' = walk
    BY <1>1, <1>6 DEF TestEmpty, Continue
  <2> QED
    BY <2>1 DEF WalkOK
<1>7. CASE SendNothing(w)
  <2>1. at[w] = "send" /\ at'[w] = "test" /\ walk' = walk
    BY <1>1, <1>7 DEF SendNothing, Continue
  <2> QED
    BY <2>1 DEF WalkOK
<1>8. CASE SendTake(w)
  <2>1. /\ worker[w] = "running" /\ at[w] = "send" /\ at'[w] = "pick"
        /\ walk'[w] = [NotWalking EXCEPT !.msg = Head(queue[task[w]])]
        /\ UNCHANGED <<worker, task, sendGroup>>
    BY <1>1, <1>8 DEF SendTake, Continue, poolVars
  <2>2. walk'[w].group = 1 /\ walk'[w].sends = 0
    BY <2>1 DEF NotWalking
  <2>3. walk[w].msg = NoMessage
    BY <2>1 DEF WalkOK
  <2> QED
    BY <1>2, <1>3, <2>1, <2>2, <2>3 DEF WalkOK
<1>9. CASE Pick(w)
  <2> DEFINE groups == sendGroup[task[w]]
             g == walk[w].group
  <2>1. /\ worker[w] = "running" /\ at[w] = "pick" /\ task[w] \in Topics
        /\ UNCHANGED <<worker, task, sendGroup>>
        /\ g \in 1..(Len(groups) + 1) /\ walk[w].sends = g - 1
    BY <1>2, <1>9 DEF Pick, WalkOK, mapVars, poolVars
  <2>2. ASSUME g \in DOMAIN groups, NEW i, walk' = [walk EXCEPT ![w].index = i],
               Continue(w, "deliver")
        PROVE  WalkOK(w)' /\ walk'[w].msg = walk[w].msg
    <3>1. /\ walk'[w].msg = walk[w].msg /\ walk'[w].group = g
          /\ walk'[w].sends = walk[w].sends /\ at'[w] = "deliver"
      BY <1>1, <2>2 DEF Walks, Continue
    <3> QED
      BY <1>3, <2>1, <2>2, <3>1 DEF WalkOK
  <2>3. ASSUME g \notin DOMAIN groups, walk' = [walk EXCEPT ![w] = NotWalking],
               Continue(w, "test")
        PROVE  WalkOK(w)' /\ walk[w].sends = Len(groups)
    <3>1. walk'[w].msg = NoMessage /\ at'[w] = "test"
      BY <1>1, <1>4, <2>3 DEF Continue
    <3>2. DOMAIN groups = 1..Len(groups) /\ Len(groups) \in Nat
      BY <1>3, <2>1
    <3>3. g \in 1..(Len(groups) + 1) /\ g \notin DOMAIN groups
          /\ walk[w].sends = g - 1
      BY <2>1, <2>3
    <3> HIDE DEF g, groups
    <3>4. walk[w].sends = Len(groups)
      BY <3>2, <3>3
    <3> QED
      BY <1>4, <3>1, <3>4 DEF WalkOK
  <2> QED
    BY <1>9, <2>2, <2>3 DEF Pick
<1>10. CASE Deliver(w)
  <2>1. /\ worker[w] = "running" /\ at[w] = "deliver" /\ at'[w] = "pick"
        /\ walk' = [walk EXCEPT ![w] = [walk[w] EXCEPT !.group = @ + 1, !.index = 0,
                                                       !.sends = @ + 1]]
        /\ UNCHANGED <<worker, task, sendGroup>>
    BY <1>1, <1>10 DEF Deliver, Continue, mapVars, poolVars
  <2>2. /\ walk'[w].msg = walk[w].msg /\ walk'[w].group = walk[w].group + 1
        /\ walk'[w].sends = walk[w].sends + 1
    BY <1>1, <2>1 DEF Walks
  <2> QED
    BY <1>1, <1>2, <1>3, <2>1, <2>2 DEF WalkOK
<1>11. CASE Misstep(w)
  <2>1. UNCHANGED <<at, walk, worker, task, sendGroup>>
    BY <1>11 DEF Misstep, mapVars, poolVars, walkVars
  <2> QED
    BY <2>1 DEF WalkOK
<1> QED
  BY <1>5, <1>6, <1>7, <1>8, <1>9, <1>10, <1>11 DEF Worker

\* A thread's step moves no other thread, and no group.
LEMMA OthersStand ==
  ASSUME TypeOK, NEW w \in Pool!Threads, Worker(w)
  PROVE  /\ GroupsGrow
         /\ \A u \in Pool!Workers \ {w} :
              /\ at'[u] = at[u] /\ walk'[u] = walk[u]
              /\ worker'[u] = worker[u] /\ task'[u] = task[u]
<1>1. sendGroup' = sendGroup /\ sendGroup \in [Topics -> Seq(Seq(Conns))]
  BY DEF Worker, PoolStep, TestEmpty, SendNothing, SendTake, Pick, Deliver, Misstep,
         mapVars, TypeOK
<1>2. /\ DOMAIN at = Pool!Workers /\ DOMAIN walk = Pool!Workers
      /\ DOMAIN worker = Pool!Workers /\ DOMAIN task = Pool!Workers
  BY DEF TypeOK, Pool!TypeOK
<1>3. \A u \in Pool!Workers \ {w} : at'[u] = at[u] /\ walk'[u] = walk[u]
  BY <1>2 DEF Worker, PoolStep, TestEmpty, SendNothing, SendTake, Pick, Deliver,
              Misstep, Continue, walkVars
<1>4. \A u \in Pool!Workers \ {w} : worker'[u] = worker[u] /\ task'[u] = task[u]
  BY <1>2 DEF Worker, PoolStep, TestEmpty, SendNothing, SendTake, Pick, Deliver,
              Misstep, poolVars, Pool!WorkerStep, Pool!CheckDone, Pool!TryPop,
              Pool!StartTask, Pool!FinishTask, Pool!TaskReturns
<1> QED
  BY <1>1, <1>3, <1>4, GroupsStand

\* Every step keeps the walks right, and those it ends have been everywhere.
LEMMA WalksStep ==
  ASSUME TypeOK, TypeOK', WalksOK, [Next]_vars
  PROVE  /\ WalksOK'
         /\ \A w \in Pool!Threads :
              walk[w].msg # NoMessage /\ walk'[w].msg = NoMessage =>
                walk[w].sends = Len(sendGroup[task[w]])
<1>1. Pool!Threads \subseteq Pool!Workers /\ Pool!Workers' = Pool!Workers
  BY BoundsAssumption DEF TypeOK, Pool!TypeOK, Pool!Threads, Pool!Workers
<1>2. CASE Loop
  BY <1>1, <1>2, LoopWalks
<1>3. ASSUME NEW w \in Pool!Threads, Worker(w)
      PROVE  /\ WalksOK'
             /\ \A u \in Pool!Threads :
                  walk[u].msg # NoMessage /\ walk'[u].msg = NoMessage =>
                    walk[u].sends = Len(sendGroup[task[u]])
  <2>1. /\ GroupsGrow
        /\ \A u \in Pool!Workers \ {w} :
             /\ at'[u] = at[u] /\ walk'[u] = walk[u]
             /\ worker'[u] = worker[u] /\ task'[u] = task[u]
    BY <1>3, OthersStand
  <2>2. \A u \in Pool!Workers \ {w} : WalkOK(u)'
    BY <2>1, WalkStands DEF WalksOK
  <2>3. /\ WalkOK(w)'
        /\ walk[w].msg # NoMessage /\ walk'[w].msg = NoMessage
             => walk[w].sends = Len(sendGroup[task[w]])
    BY <1>1, <1>3, OwnWalk DEF WalksOK
  <2> QED
    BY <1>1, <2>1, <2>2, <2>3 DEF WalksOK
<1>4. CASE UNCHANGED vars
  <2>1. UNCHANGED <<walk, at, worker, task, sendGroup>>
    BY <1>4 DEF vars, walkVars, poolVars, mapVars
  <2> QED
    BY <1>1, <2>1 DEF WalksOK, WalkOK
<1> QED
  BY <1>2, <1>3, <1>4 DEF Next

\* send() walks over every group the topic has when the walk ends
\* (MessageQueue.cpp:22), those included that subscribers add on the way, and
\* sends the message once to each.
THEOREM GroupsServed == Spec => EveryGroupServed
<1>1. Init => WalksOK
  BY DEF Init, WalksOK, WalkOK, NotWalking
<1>2. TypeOK /\ TypeOK' /\ WalksOK /\ [Next]_vars
        => WalksOK' /\ [\A w \in Pool!Threads :
                          walk[w].msg # NoMessage /\ walk'[w].msg = NoMessage =>
                            walk[w].sends = Len(sendGroup[task[w]])]_vars
  BY WalksStep
<1> QED
  BY <1>1, <1>2, TypeInit, TypeStep, PTL DEF Spec, EveryGroupServed

-----------------------------------------------------------------------------
(* A client of one topic is where its group id says. *)

\* While a command fills a new group, the group is there, and empty.
FillOK ==
  loop = "fill" =>
    \E d \in Conns :
      /\ cmd.conn = {d} /\ Subscribed(d, cmd.topic)
      /\ groupid[d] \in DOMAIN sendGroup[cmd.topic]
      /\ sendGroup[cmd.topic][groupid[d]] = << >>

\* Is c still to be put into its group?
Filling(c) == loop = "fill" /\ c \in cmd.conn

\* c is in the group of t it was put into last, while it is subscribed to t.
Placed(c, t) ==
  /\ \A g \in DOMAIN sendGroup[t] :
       Contains(sendGroup[t][g], c)
         <=> Subscribed(c, t) /\ g = groupid[c] /\ ~Filling(c)
  /\ Subscribed(c, t) => groupid[c] \in DOMAIN sendGroup[t]

\* Nobody is in a group twice, and asks for a topic its user does not want.
GroupsInjective ==
  \A t \in Topics : \A g \in DOMAIN sendGroup[t] : IsInjective(sendGroup[t][g])
OnlyWanted == \A c \in DOMAIN subscriberMap : subscriberMap[c] \subseteq Wants[c]

PlaceInv ==
  /\ OnlyWanted /\ GroupsInjective /\ FillOK
  /\ \A c \in Conns, t \in Topics : Wants[c] = {t} => Placed(c, t)

\* What a command does to the groups leaves c where it was, if c is in as many
\* of the old groups as before and in none of the new ones.
MembersKept(c, t) ==
  /\ DOMAIN sendGroup[t] \subseteq DOMAIN sendGroup'[t]
  /\ \A g \in DOMAIN sendGroup[t] :
       Contains(sendGroup'[t][g], c) <=> Contains(sendGroup[t][g], c)
  /\ \A g \in DOMAIN sendGroup'[t] \ DOMAIN sendGroup[t] :
       ~Contains(sendGroup'[t][g], c)

LEMMA PlacedKept ==
  ASSUME NEW c \in Conns, NEW t \in Topics, Placed(c, t), MembersKept(c, t),
         Subscribed(c, t)' <=> Subscribed(c, t), groupid'[c] = groupid[c],
         Filling(c)' <=> Filling(c)
  PROVE  Placed(c, t)'
<1>1. \A g \in DOMAIN sendGroup'[t] :
        Contains(sendGroup'[t][g], c)
          <=> Subscribed(c, t) /\ g = groupid[c] /\ ~Filling(c)
  <2>1. ASSUME NEW g \in DOMAIN sendGroup[t]
        PROVE  Contains(sendGroup'[t][g], c)
                 <=> Subscribed(c, t) /\ g = groupid[c] /\ ~Filling(c)
    BY <2>1 DEF Placed, MembersKept
  <2>2. ASSUME NEW g \in DOMAIN sendGroup'[t] \ DOMAIN sendGroup[t]
        PROVE  /\ ~Contains(sendGroup'[t][g], c)
               /\ ~(Subscribed(c, t) /\ g = groupid[c])
    BY <2>2 DEF Placed, MembersKept
  <2> QED
    BY <2>1, <2>2
<1>2. Subscribed(c, t) => groupid[c] \in DOMAIN sendGroup'[t]
  BY DEF Placed, MembersKept
<1> QED
  BY <1>1, <1>2 DEF Placed

\* One group gets other members.
LEMMA MembersChanged ==
  ASSUME sendGroup \in [Topics -> Seq(Seq(Conns))], NEW t \in Topics,
         NEW g \in DOMAIN sendGroup[t], NEW members \in Seq(Conns),
         sendGroup' = [sendGroup EXCEPT ![t][g] = members]
  PROVE  /\ GroupsInjective /\ IsInjective(members) => GroupsInjective'
         /\ \A c \in Conns, s \in Topics :
              (Contains(members, c) <=> Contains(sendGroup[t][g], c))
                => MembersKept(c, s)
<1>1. /\ DOMAIN sendGroup'[t] = DOMAIN sendGroup[t]
      /\ sendGroup'[t][g] = members
      /\ \A h \in DOMAIN sendGroup[t] \ {g} : sendGroup'[t][h] = sendGroup[t][h]
      /\ \A s \in Topics \ {t} : sendGroup'[s] = sendGroup[s]
  BY GroupChanged
<1>2. GroupsInjective /\ IsInjective(members) => GroupsInjective'
  BY <1>1 DEF GroupsInjective
<1>3. ASSUME NEW c \in Conns, NEW s \in Topics,
             Contains(members, c) <=> Contains(sendGroup[t][g], c)
      PROVE  MembersKept(c, s)
  <2>1. CASE s = t
    BY <1>1, <1>3, <2>1 DEF MembersKept
  <2>2. CASE s # t
    BY <1>1, <2>2 DEF MembersKept
  <2> QED
    BY <2>1, <2>2
<1> QED
  BY <1>2, <1>3

\* A topic gets a group.
LEMMA MembersAdded ==
  ASSUME sendGroup \in [Topics -> Seq(Seq(Conns))], NEW t \in Topics,
         sendGroup' = [sendGroup EXCEPT ![t] = Append(@, << >>)]
  PROVE  /\ GroupsInjective => GroupsInjective'
         /\ \A c \in Conns, s \in Topics : MembersKept(c, s)
<1>1. /\ DOMAIN sendGroup'[t] = DOMAIN sendGroup[t] \cup {Len(sendGroup[t]) + 1}
      /\ sendGroup'[t][Len(sendGroup[t]) + 1] = << >>
      /\ \A h \in DOMAIN sendGroup[t] : sendGroup'[t][h] = sendGroup[t][h]
      /\ \A s \in Topics \ {t} : sendGroup'[s] = sendGroup[s]
  BY GroupAdded
<1>2. IsInjective(<< >>)
  BY DEF IsInjective
<1>3. \A c \in Conns : ~Contains(<< >>, c)
  BY DEF Contains
<1>4. GroupsInjective => GroupsInjective'
  BY <1>1, <1>2 DEF GroupsInjective
<1>5. ASSUME NEW c \in Conns, NEW s \in Topics
      PROVE  MembersKept(c, s)
  <2>1. CASE s = t
    BY <1>1, <1>3, <2>1 DEF MembersKept
  <2>2. CASE s # t
    BY <1>1, <2>2 DEF MembersKept
  <2> QED
    BY <2>1, <2>2
<1> QED
  BY <1>4, <1>5

\* The groups stand still.
LEMMA MembersStand ==
  ASSUME sendGroup' = sendGroup
  PROVE  /\ GroupsInjective => GroupsInjective'
         /\ \A c \in Conns, t \in Topics : MembersKept(c, t)
BY DEF GroupsInjective, MembersKept

\* The steps that touch no map and begin or end no filling.
LEMMA PlacesKeep ==
  ASSUME PlaceInv, UNCHANGED <<subscriberMap, sendGroup, groupid>>,
         UNCHANGED loopVars \/ (loop # "fill" /\ loop' # "fill")
  PROVE  PlaceInv'
<1>1. OnlyWanted' /\ GroupsInjective'
  BY DEF PlaceInv, OnlyWanted, GroupsInjective
<1>2. FillOK'
  BY DEF PlaceInv, FillOK, Subscribed, loopVars
<1>3. ASSUME NEW c \in Conns, NEW t \in Topics, Wants[c] = {t}
      PROVE  Placed(c, t)'
  BY <1>3, PlacedKept, MembersStand DEF PlaceInv, Subscribed, Filling, loopVars
<1> QED
  BY <1>1, <1>2, <1>3 DEF PlaceInv

\* A connection that registers has asked for nothing yet.
LEMMA RegistPlaces ==
  ASSUME TypeOK, PlaceInv, NEW c \in Conns, Regist(c)
  PROVE  PlaceInv'
<1>1. /\ DOMAIN subscriberMap' = DOMAIN subscriberMap \cup {c}
      /\ subscriberMap'[c] = {} /\ c \notin DOMAIN subscriberMap
      /\ \A d \in DOMAIN subscriberMap : subscriberMap'[d] = subscriberMap[d]
      /\ loop = "ready" /\ UNCHANGED <<sendGroup, groupid, loop, cmd>>
  BY DEF Regist, loopVars
<1>2. \A d \in Conns, t \in Topics : Subscribed(d, t)' <=> Subscribed(d, t)
  BY <1>1 DEF Subscribed
<1>3. OnlyWanted' /\ GroupsInjective' /\ FillOK'
  BY <1>1 DEF PlaceInv, OnlyWanted, GroupsInjective, FillOK
<1>4. ASSUME NEW d \in Conns, NEW t \in Topics, Wants[d] = {t}
      PROVE  Placed(d, t)'
  BY <1>1, <1>2, <1>4, PlacedKept, MembersStand DEF PlaceInv, Filling
<1> QED
  BY <1>3, <1>4 DEF PlaceInv

\* A connection that subscribes gets the group it is in, or that it will be put
\* into.
LEMMA SubscribePlaces ==
  ASSUME TypeOK, PlaceInv, NEW c \in Conns, NEW t \in Topics, Subscribe(c, t)
  PROVE  PlaceInv'
<1>1. sendGroup \in [Topics -> Seq(Seq(Conns))]
  BY DEF TypeOK
<1>2. PICK g \in 1..Len(sendGroup[t]) + 1 :
        /\ groupid' = [groupid EXCEPT ![c] = g]
        /\ \/ g \in DOMAIN sendGroup[t] /\ JoinGroup(c, t, g)
           \/ g \notin DOMAIN sendGroup[t] /\ AddGroup(c, t)
  BY DEF Subscribe
<1>3. groupid'[c] = g /\ \A d \in Conns \ {c} : groupid'[d] = groupid[d]
  BY <1>2 DEF TypeOK
<1>4. /\ loop = "ready" /\ t \in Wants[c] /\ ~Subscribed(c, t)
      /\ DOMAIN subscriberMap' = DOMAIN subscriberMap \cup {c}
      /\ subscriberMap'[c]
           = {t} \cup (IF c \in DOMAIN subscriberMap THEN subscriberMap[c] ELSE {})
      /\ \A d \in DOMAIN subscriberMap \ {c} : subscriberMap'[d] = subscriberMap[d]
  BY DEF Subscribe
<1>5. \A d \in Conns \ {c}, s \in Topics : Subscribed(d, s)' <=> Subscribed(d, s)
  BY <1>4 DEF Subscribed
<1>6. OnlyWanted' /\ Subscribed(c, t)'
  BY <1>4 DEF PlaceInv, OnlyWanted, Subscribed
<1>7. \A d \in Conns : ~Filling(d)
  BY <1>4 DEF Filling
<1>8. CASE g \in DOMAIN sendGroup[t] /\ JoinGroup(c, t, g)
  <2> DEFINE old == sendGroup[t][g]
             new == IF Contains(old, c) THEN old ELSE Append(old, c)
  <2>1. old \in Seq(Conns) /\ UNCHANGED <<loop, cmd>>
    BY <1>1, <1>8 DEF JoinGroup, loopVars
  <2>2. new \in Seq(Conns) /\ sendGroup' = [sendGroup EXCEPT ![t][g] = new]
    BY <1>8, <2>1 DEF JoinGroup
  <2>3. IsInjective(new)
    <3>1. IsInjective(old)
      BY <1>8 DEF PlaceInv, GroupsInjective
    <3> QED
      BY <2>1, <3>1, InjectiveAppend
  <2>4. \A d \in Conns : Contains(new, d) <=> (d = c \/ Contains(old, d))
    BY <2>1, ContainsAppend
  <2> HIDE DEF new
  <2>5. GroupsInjective'
    BY <1>1, <1>8, <2>2, <2>3, MembersChanged DEF PlaceInv
  <2>6. FillOK' /\ \A d \in Conns : ~Filling(d)'
    BY <1>4, <2>1 DEF FillOK, Filling
  <2>7. ASSUME NEW d \in Conns, NEW s \in Topics, Wants[d] = {s}, d # c
        PROVE  Placed(d, s)'
    <3>1. MembersKept(d, s)
      BY <1>1, <1>8, <2>2, <2>4, <2>7, MembersChanged
    <3> QED
      BY <1>3, <1>5, <1>7, <2>6, <2>7, <3>1, PlacedKept DEF PlaceInv
  <2>8. ASSUME Wants[c] = {t}
        PROVE  Placed(c, t)'
    <3>1. \A h \in DOMAIN sendGroup[t] : ~Contains(sendGroup[t][h], c)
      BY <1>4, <2>8 DEF PlaceInv, Placed
    <3>2. /\ DOMAIN sendGroup'[t] = DOMAIN sendGroup[t]
          /\ sendGroup'[t][g] = new
          /\ \A h \in DOMAIN sendGroup[t] \ {g} : sendGroup'[t][h] = sendGroup[t][h]
      BY <1>1, <1>8, <2>2, GroupChanged
    <3>3. Contains(new, c)
      BY <2>4
    <3> QED
      BY <1>3, <1>6, <1>8, <2>6, <3>1, <3>2, <3>3 DEF Placed
  <2> QED
    BY <1>4, <1>6, <2>5, <2>6, <2>7, <2>8 DEF PlaceInv
<1>9. CASE g \notin DOMAIN sendGroup[t] /\ AddGroup(c, t)
  <2>1. /\ sendGroup' = [sendGroup EXCEPT ![t] = Append(@, << >>)]
        /\ loop' = "fill" /\ cmd' = [conn |-> {c}, topic |-> t]
    BY <1>9 DEF AddGroup
  <2>2. g = Len(sendGroup[t]) + 1
    <3>1. Len(sendGroup[t]) \in Nat /\ DOMAIN sendGroup[t] = 1..Len(sendGroup[t])
      BY <1>1
    <3> QED
      BY <1>2, <1>9, <3>1
  <2>3. /\ DOMAIN sendGroup'[t] = DOMAIN sendGroup[t] \cup {g}
        /\ sendGroup'[t][g] = << >>
        /\ \A h \in DOMAIN sendGroup[t] : sendGroup'[t][h] = sendGroup[t][h]
    BY <1>1, <2>1, <2>2, GroupAdded
  <2>4. cmd'.conn = {c} /\ cmd'.topic = t
    BY <2>1
  <2>5. FillOK'
    BY <1>3, <1>6, <2>1, <2>3, <2>4 DEF FillOK
  <2>6. GroupsInjective' /\ \A d \in Conns, s \in Topics : MembersKept(d, s)
    BY <1>1, <2>1, MembersAdded DEF PlaceInv
  <2>7. Filling(c)' /\ \A d \in Conns \ {c} : ~Filling(d)'
    BY <2>1, <2>4 DEF Filling
  <2>8. ASSUME NEW d \in Conns, NEW s \in Topics, Wants[d] = {s}, d # c
        PROVE  Placed(d, s)'
    BY <1>3, <1>5, <1>7, <2>6, <2>7, <2>8, PlacedKept DEF PlaceInv
  <2>9. ASSUME Wants[c] = {t}
        PROVE  Placed(c, t)'
    <3>1. \A h \in DOMAIN sendGroup[t] : ~Contains(sendGroup[t][h], c)
      BY <1>4, <2>9 DEF PlaceInv, Placed
    <3>2. ~Contains(<< >>, c)
      BY DEF Contains
    <3> QED
      BY <1>3, <2>3, <2>7, <3>1, <3>2 DEF Placed
  <2> QED
    BY <1>4, <1>6, <2>5, <2>6, <2>8, <2>9 DEF PlaceInv
<1> QED
  BY <1>2, <1>8, <1>9

\* A connection that unsubscribes is taken out of the one group it is in.
LEMMA UnsubscribePlaces ==
  ASSUME TypeOK, PlaceInv, NEW c \in Conns, NEW t \in Topics, Unsubscribe(c, t)
  PROVE  PlaceInv'
<1>1. sendGroup \in [Topics -> Seq(Seq(Conns))]
  BY DEF TypeOK
<1>2. /\ loop = "ready" /\ Subscribed(c, t) /\ RemoveConnection(c, t)
      /\ UNCHANGED <<groupid, loop, cmd>>
      /\ DOMAIN subscriberMap' = DOMAIN subscriberMap
      /\ subscriberMap'[c] = subscriberMap[c] \ {t}
      /\ \A d \in DOMAIN subscriberMap \ {c} : subscriberMap'[d] = subscriberMap[d]
  BY DEF Unsubscribe, loopVars, Subscribed
<1>3. /\ ~Subscribed(c, t)'
      /\ \A d \in Conns \ {c}, s \in Topics : Subscribed(d, s)' <=> Subscribed(d, s)
  BY <1>2 DEF Subscribed
<1>4. OnlyWanted' /\ t \in Wants[c]
  BY <1>2 DEF PlaceInv, OnlyWanted, Subscribed
<1>5. FillOK' /\ \A d \in Conns : ~Filling(d) /\ ~Filling(d)'
  BY <1>2 DEF FillOK, Filling
<1>6. ASSUME GroupsInjective',
             \A d \in Conns \ {c}, s \in Topics : MembersKept(d, s),
             Wants[c] = {t}
               => \A h \in DOMAIN sendGroup'[t] : ~Contains(sendGroup'[t][h], c)
      PROVE  PlaceInv'
  <2>1. ASSUME NEW d \in Conns, NEW s \in Topics, Wants[d] = {s}, d # c
        PROVE  Placed(d, s)'
    BY <1>2, <1>3, <1>5, <1>6, <2>1, PlacedKept DEF PlaceInv
  <2>2. ASSUME Wants[c] = {t}
        PROVE  Placed(c, t)'
    BY <1>3, <1>6, <2>2 DEF Placed
  <2> QED
    BY <1>4, <1>5, <1>6, <2>1, <2>2 DEF PlaceInv
<1>7. ASSUME Wants[c] = {t}
      PROVE  /\ groupid[c] \in DOMAIN sendGroup[t]
             /\ \A h \in DOMAIN sendGroup[t] :
                  Contains(sendGroup[t][h], c) <=> h = groupid[c]
  BY <1>2, <1>5, <1>7 DEF PlaceInv, Placed
<1>8. CASE /\ sendGroup' = sendGroup
           /\ groupid[c] \in DOMAIN sendGroup[t]
                => ~Contains(sendGroup[t][groupid[c]], c)
  <2>1. Wants[c] # {t}
    BY <1>7, <1>8
  <2> QED
    BY <1>6, <1>8, <2>1, MembersStand DEF PlaceInv
<1>9. ASSUME groupid[c] \in DOMAIN sendGroup[t],
             sendGroup[t][groupid[c]] \in Seq(Conns),
             NEW i \in DOMAIN sendGroup[t][groupid[c]],
             sendGroup[t][groupid[c]][i] = c,
             RemoveAt(sendGroup[t][groupid[c]], i) \in Seq(Conns),
             sendGroup' = [sendGroup EXCEPT
                ![t][groupid[c]] = RemoveAt(sendGroup[t][groupid[c]], i)]
      PROVE  PlaceInv'
  <2> DEFINE old == sendGroup[t][groupid[c]]
             left == RemoveAt(old, i)
  <2>1. IsInjective(old)
    BY <1>9 DEF PlaceInv, GroupsInjective
  <2>2. IsInjective(left)
    BY <1>9, <2>1, RemoveAtInjective
  <2>3. /\ \A d \in Conns \ {c} : Contains(left, d) <=> Contains(old, d)
        /\ ~Contains(left, c)
    BY <1>9, <2>1, ContainsRemoveAt
  <2>4. left \in Seq(Conns) /\ sendGroup' = [sendGroup EXCEPT ![t][groupid[c]] = left]
    BY <1>9
  <2> HIDE DEF left
  <2>5. GroupsInjective' /\ \A d \in Conns \ {c}, s \in Topics : MembersKept(d, s)
    BY <1>1, <1>9, <2>2, <2>3, <2>4, MembersChanged DEF PlaceInv
  <2>6. /\ DOMAIN sendGroup'[t] = DOMAIN sendGroup[t]
        /\ sendGroup'[t][groupid[c]] = left
        /\ \A h \in DOMAIN sendGroup[t] \ {groupid[c]} :
             sendGroup'[t][h] = sendGroup[t][h]
    BY <1>1, <1>9, <2>4, GroupChanged
  <2>7. Wants[c] = {t}
          => \A h \in DOMAIN sendGroup'[t] : ~Contains(sendGroup'[t][h], c)
    BY <1>7, <2>3, <2>6
  <2> QED
    BY <1>6, <2>5, <2>7
<1> QED
  BY <1>2, <1>8, <1>9, ConnectionRemoved

\* The connection is put into the group that was added for it.
LEMMA FillPlaces ==
  ASSUME TypeOK, PlaceInv, FillGroup
  PROVE  PlaceInv'
<1>1. sendGroup \in [Topics -> Seq(Seq(Conns))] /\ loop = "fill" /\ cmd.topic \in Topics
  BY DEF TypeOK, FillGroup
<1> DEFINE t == cmd.topic
<1>2. PICK c \in Conns :
        /\ cmd.conn = {c} /\ Subscribed(c, t) /\ groupid[c] \in DOMAIN sendGroup[t]
        /\ sendGroup[t][groupid[c]] = << >>
  BY <1>1 DEF PlaceInv, FillOK
<1>3. /\ sendGroup' = [sendGroup EXCEPT ![t][groupid[c]] = Append(@, c)]
      /\ loop' = "ready" /\ UNCHANGED <<subscriberMap, groupid>>
  BY <1>2 DEF FillGroup
<1> DEFINE new == Append(sendGroup[t][groupid[c]], c)
<1>4. sendGroup[t][groupid[c]] \in Seq(Conns)
  BY <1>1, <1>2
<1>5. new \in Seq(Conns) /\ sendGroup' = [sendGroup EXCEPT ![t][groupid[c]] = new]
  BY <1>3, <1>4
<1>6. \A d \in Conns :
        Contains(new, d) <=> (d = c \/ Contains(sendGroup[t][groupid[c]], d))
  BY <1>4, ContainsAppend
<1>7. IsInjective(new)
  <2>1. ~Contains(sendGroup[t][groupid[c]], c) /\ IsInjective(sendGroup[t][groupid[c]])
    BY <1>2 DEF Contains, IsInjective
  <2> QED
    BY <1>4, <2>1, InjectiveAppend
<1> HIDE DEF t, new
<1>8. GroupsInjective' /\ OnlyWanted' /\ FillOK'
  BY <1>1, <1>2, <1>3, <1>5, <1>7, MembersChanged DEF PlaceInv, OnlyWanted, FillOK, t
<1>9. \A d \in Conns, s \in Topics : Subscribed(d, s)' <=> Subscribed(d, s)
  BY <1>3 DEF Subscribed
<1>10. ASSUME NEW d \in Conns, NEW s \in Topics, Wants[d] = {s}, d # c
       PROVE  Placed(d, s)'
  <2>1. MembersKept(d, s)
    BY <1>1, <1>2, <1>5, <1>6, <1>10, MembersChanged DEF t
  <2>2. ~Filling(d) /\ ~Filling(d)'
    BY <1>2, <1>3, <1>10 DEF Filling
  <2> QED
    BY <1>3, <1>9, <1>10, <2>1, <2>2, PlacedKept DEF PlaceInv
<1>11. ASSUME NEW s \in Topics, Wants[c] = {s}
       PROVE  Placed(c, s)'
  <2>1. s = t
    BY <1>2, <1>11 DEF PlaceInv, OnlyWanted, Subscribed
  <2>2. Filling(c) /\ ~Filling(c)'
    BY <1>1, <1>2, <1>3 DEF Filling
  <2>3. \A h \in DOMAIN sendGroup[t] : ~Contains(sendGroup[t][h], c)
    BY <1>11, <2>1, <2>2 DEF PlaceInv, Placed
  <2>4. /\ DOMAIN sendGroup'[t] = DOMAIN sendGroup[t]
        /\ sendGroup'[t][groupid[c]] = new
        /\ \A h \in DOMAIN sendGroup[t] \ {groupid[c]} :
             sendGroup'[t][h] = sendGroup[t][h]
    BY <1>1, <1>2, <1>5, GroupChanged DEF t
  <2>5. Contains(new, c)
    BY <1>6
  <2> QED
    BY <1>2, <1>3, <1>9, <2>1, <2>2, <2>3, <2>4, <2>5 DEF Placed
<1> QED
  BY <1>8, <1>10, <1>11 DEF PlaceInv

\* Every step keeps the places.
LEMMA PlacesStep == TypeOK /\ PlaceInv /\ [Next]_vars => PlaceInv'
<1> SUFFICES ASSUME TypeOK, PlaceInv, [Next]_vars PROVE PlaceInv'
  OBVIOUS
<1>1. CASE Loop
  <2>1. CASE (\E m \in Messages : Publish(m)) \/ PublishCount \/ PublishSubmit
    BY <2>1, PlacesKeep DEF Publish, PublishCount, PublishSubmit, mapVars
  <2> QED
    BY <1>1, <2>1, RegistPlaces, SubscribePlaces, UnsubscribePlaces, FillPlaces
       DEF Loop
<1>2. ASSUME NEW w \in Pool!Threads, Worker(w) PROVE PlaceInv'
  <2>1. UNCHANGED <<subscriberMap, sendGroup, groupid>> /\ UNCHANGED loopVars
    BY <1>2 DEF Worker, PoolStep, TestEmpty, SendNothing, SendTake, Pick, Deliver,
                Misstep, mapVars
  <2> QED
    BY <2>1, PlacesKeep
<1>3. CASE UNCHANGED vars
  BY <1>3, PlacesKeep DEF vars, mapVars
<1> QED
  BY <1>1, <1>2, <1>3 DEF Next

LEMMA PlacesInit == Init => PlaceInv
<1> SUFFICES ASSUME Init PROVE PlaceInv
  OBVIOUS
<1>1. DOMAIN subscriberMap = {} /\ loop = "ready"
  BY DEF Init
<1>2. \A t \in Topics : DOMAIN sendGroup[t] = {}
  BY DEF Init
<1> QED
  BY <1>1, <1>2 DEF PlaceInv, OnlyWanted, GroupsInjective, FillOK, Placed, Subscribed

\* A client that only ever asks for one topic is in one group of that topic
\* while it is subscribed, and in none otherwise: the group id that
\* removeConnection() goes by (MessageQueue.cpp:69) is still that of the group it
\* was put into.  Another topic in between would overwrite it.
THEOREM SinglePlaces == Spec => []SingleTopicPlaced
<1>1. PlaceInv => SingleTopicPlaced
  <2> SUFFICES ASSUME PlaceInv, NEW c \in Conns, NEW t \in Topics, Wants[c] = {t},
                      ~Filling(c)
               PROVE  Cardinality({g \in DOMAIN sendGroup[t] :
                                     Contains(sendGroup[t][g], c)})
                        = (IF Subscribed(c, t) THEN 1 ELSE 0)
    BY DEF SingleTopicPlaced, Filling
  <2> DEFINE Homes == {g \in DOMAIN sendGroup[t] : Contains(sendGroup[t][g], c)}
  <2>1. Homes = IF Subscribed(c, t) THEN {groupid[c]} ELSE {}
    BY DEF PlaceInv, Placed
  <2>2. Cardinality({groupid[c]}) = 1 /\ Cardinality({}) = 0
    BY FS_Singleton, FS_EmptySet
  <2> HIDE DEF Homes
  <2>3. Cardinality(Homes) = IF Subscribed(c, t) THEN 1 ELSE 0
    BY <2>1, <2>2
  <2> QED
    BY <2>3 DEF Homes
<1> QED
  BY <1>1, PlacesInit, PlacesStep, TypeInit, TypeStep, PTL DEF Spec
=============================================================================
