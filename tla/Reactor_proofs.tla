---------------------------- MODULE Reactor_proofs ----------------------------
(***************************************************************************)
(* The reactor's tables agree with each other and with the kernel, however *)
(* many clients connect and hang up, and whatever descriptors there are.   *)
(***************************************************************************)
EXTENDS Reactor, SequenceLemmas, FiniteSetTheorems, TLAPS

-----------------------------------------------------------------------------
(* The invariant, in parts. *)

Polled == Fds \cup {ListenFd}
Owners == Conns \cup {Listener}
Events == [owner : Owners, revents : SUBSET {"in", "err"}]

KernelType ==
  /\ backlog \in 0..MaxConns /\ made \in 0..MaxConns
  /\ made + backlog <= MaxConns
  /\ file \in [Fds -> Conns \cup {Nobody}]
PeersType ==
  /\ inbox \in [Conns -> {"none", "message", "partial", "empty"}]
  /\ link \in [Conns -> {"up", "eof", "reset"}]
ServerType ==
  /\ socketfd \in [Conns -> Polled]
  /\ DOMAIN connectionsMap \subseteq Fds /\ Connected \subseteq 1..made
  /\ currentConn \in 1..made \cup {Nobody} /\ kept \subseteq 1..made
ListType == pollfdList \in Seq(Polled)
EventsType ==
  /\ DOMAIN eventsMap \subseteq Polled
  /\ \A fd \in DOMAIN eventsMap : eventsMap[fd] \in Owners
RoundType ==
  /\ activeEvents \in Seq(Events)
  /\ at \in {"poll", "read", "error"}
  /\ (at = "poll") <=> (activeEvents = << >>)

\* The parts are the whole.
LEMMA TypeParts ==
  TypeOK <=> /\ KernelType /\ PeersType /\ ServerType
             /\ ListType /\ EventsType /\ RoundType
BY DEF TypeOK, KernelType, PeersType, ServerType, ListType, EventsType,
       RoundType, Polled, Owners, Events

\* And after a step.
LEMMA TypePartsNext ==
  TypeOK' <=> /\ KernelType' /\ PeersType' /\ ServerType'
              /\ ListType' /\ EventsType' /\ RoundType'
BY DEF TypeOK, KernelType, PeersType, ServerType, ListType, EventsType,
       RoundType, Polled, Owners, Events

\* The list of descriptors names each descriptor that has an event, once.
ListOK ==
  /\ \A i, j \in DOMAIN pollfdList : pollfdList[i] = pollfdList[j] => i = j
  /\ {pollfdList[i] : i \in DOMAIN pollfdList} = DOMAIN eventsMap

\* The tables of Poller, Server and kernel name the same connection.
MapsOK ==
  /\ DOMAIN eventsMap = DOMAIN connectionsMap \cup {ListenFd}
  /\ eventsMap[ListenFd] = Listener
  /\ \A fd \in DOMAIN connectionsMap :
       /\ eventsMap[fd] = connectionsMap[fd]
       /\ file[fd] = connectionsMap[fd]
       /\ socketfd[connectionsMap[fd]] = fd

\* A round has at most one event of each owner.  Without this a connection that
\* one event closes could have another event later in the round.
RoundDistinct ==
  \A i, j \in DOMAIN activeEvents :
    activeEvents[i].owner = activeEvents[j].owner => i = j

IInv == /\ TypeOK /\ TablesAgree /\ DescriptorOwned
        /\ ReadsLiveConnections /\ RoundDistinct

\* The two halves of TablesAgree.
LEMMA TableParts ==
  /\ TablesAgree <=> ListOK /\ MapsOK
  /\ TablesAgree' <=> ListOK' /\ MapsOK'
BY DEF TablesAgree, ListOK, MapsOK

-----------------------------------------------------------------------------
(* The operators the handlers are built from. *)

\* An event that is added is in both tables, and the others stay.
LEMMA UpdateEventFacts ==
  ASSUME ListType, ListOK, NEW fd \in Polled, NEW c,
         fd \notin DOMAIN eventsMap, UpdateEvent(fd, c)
  PROVE  /\ ListType' /\ ListOK'
         /\ DOMAIN eventsMap' = DOMAIN eventsMap \cup {fd}
         /\ eventsMap'[fd] = c
         /\ \A f \in DOMAIN eventsMap : eventsMap'[f] = eventsMap[f]
<1>1. /\ DOMAIN eventsMap' = DOMAIN eventsMap \cup {fd}
      /\ eventsMap'[fd] = c
      /\ \A f \in DOMAIN eventsMap : eventsMap'[f] = eventsMap[f]
  BY DEF UpdateEvent
<1>2. pollfdList' = Append(pollfdList, fd)
  BY DEF UpdateEvent
<1> DEFINE n == Len(pollfdList) + 1
<1>3. /\ pollfdList' \in Seq(Polled)
      /\ DOMAIN pollfdList' = DOMAIN pollfdList \cup {n}
      /\ n \notin DOMAIN pollfdList
      /\ pollfdList'[n] = fd
      /\ \A i \in DOMAIN pollfdList : pollfdList'[i] = pollfdList[i]
  BY <1>2, AppendFacts DEF ListType
<1> HIDE DEF n
<1>4. fd \notin {pollfdList[i] : i \in DOMAIN pollfdList}
  BY DEF ListOK
<1>5. \A i, j \in DOMAIN pollfdList' : pollfdList'[i] = pollfdList'[j] => i = j
  BY <1>3, <1>4 DEF ListOK
<1>6. {pollfdList'[i] : i \in DOMAIN pollfdList'} = DOMAIN eventsMap'
  BY <1>1, <1>3 DEF ListOK
<1> QED
  BY <1>1, <1>3, <1>5, <1>6 DEF ListType, ListOK

\* An event that is deleted is in neither table, and the others stay.
LEMMA DeleteEventFacts ==
  ASSUME ListType, ListOK, NEW fd \in DOMAIN eventsMap, DeleteEvent(fd)
  PROVE  /\ ListType' /\ ListOK'
         /\ DOMAIN eventsMap' = DOMAIN eventsMap \ {fd}
         /\ \A f \in DOMAIN eventsMap' : eventsMap'[f] = eventsMap[f]
<1>1. /\ DOMAIN eventsMap' = DOMAIN eventsMap \ {fd}
      /\ \A f \in DOMAIN eventsMap' : eventsMap'[f] = eventsMap[f]
  BY DEF DeleteEvent
<1> DEFINE k == CHOOSE i \in DOMAIN pollfdList : pollfdList[i] = fd
<1>2. pollfdList' = RemoveAt(pollfdList, k)
  BY DEF DeleteEvent
<1>3. k \in DOMAIN pollfdList /\ pollfdList[k] = fd
  BY DEF ListOK
<1> HIDE DEF k
<1> DEFINE n == Len(pollfdList)
<1>4. /\ pollfdList' \in Seq(Polled)
      /\ Len(pollfdList') = n - 1
      /\ \A i \in 1..(n - 1) :
           pollfdList'[i] = IF i < k THEN pollfdList[i] ELSE pollfdList[i + 1]
  BY <1>2, <1>3, RemoveAtFacts DEF ListType
<1>5. /\ n \in Nat /\ DOMAIN pollfdList = 1..n
      /\ DOMAIN pollfdList' = 1..(n - 1)
      /\ k \in 1..n
  BY <1>3, <1>4 DEF ListType
<1> HIDE DEF n
<1>6. \A i, j \in DOMAIN pollfdList' : pollfdList'[i] = pollfdList'[j] => i = j
  <2> SUFFICES ASSUME NEW i \in 1..(n - 1), NEW j \in 1..(n - 1),
                      pollfdList'[i] = pollfdList'[j], i # j
               PROVE  FALSE
    BY <1>5
  <2> DEFINE a == IF i < k THEN i ELSE i + 1
             b == IF j < k THEN j ELSE j + 1
  <2>1. a \in 1..n /\ b \in 1..n /\ a # b
    BY <1>5
  <2>2. pollfdList[a] = pollfdList[b]
    BY <1>4
  <2> QED
    BY <1>5, <2>1, <2>2 DEF ListOK
<1>7. \A i \in DOMAIN pollfdList' :
        pollfdList'[i] \in DOMAIN eventsMap /\ pollfdList'[i] # fd
  <2> TAKE i \in DOMAIN pollfdList'
  <2> DEFINE a == IF i < k THEN i ELSE i + 1
  <2>1. a \in 1..n /\ a # k /\ pollfdList'[i] = pollfdList[a]
    BY <1>4, <1>5
  <2> HIDE DEF a
  <2> QED
    BY <1>3, <1>5, <2>1 DEF ListOK
<1>8. \A f \in DOMAIN eventsMap \ {fd} :
        \E i \in DOMAIN pollfdList' : pollfdList'[i] = f
  <2> TAKE f \in DOMAIN eventsMap \ {fd}
  <2>1. PICK a \in 1..n : pollfdList[a] = f /\ a # k
    BY <1>3, <1>5 DEF ListOK
  <2>2. CASE a < k
    BY <1>4, <1>5, <2>1, <2>2
  <2>3. CASE a > k
    <3>1. a - 1 \in 1..(n - 1) /\ ~(a - 1 < k) /\ (a - 1) + 1 = a
      BY <1>5, <2>1, <2>3
    <3> QED
      BY <1>4, <1>5, <2>1, <3>1
  <2> QED
    BY <1>5, <2>1, <2>2, <2>3
<1>9. {pollfdList'[i] : i \in DOMAIN pollfdList'} = DOMAIN eventsMap'
  BY <1>1, <1>7, <1>8
<1> QED
  BY <1>1, <1>4, <1>6, <1>9 DEF ListType, ListOK

\* Closing descriptors takes from the kernel's table and adds nothing to it.
LEMMA CloseType ==
  ASSUME KernelType, NEW gone
  PROVE  /\ Close(gone) \in [Fds -> Conns \cup {Nobody}]
         /\ \A fd \in Fds : (\A g \in gone : socketfd[g] # fd)
                              => Close(gone)[fd] = file[fd]
BY DEF KernelType, Close

\* A connection that keeps an owner keeps its descriptor when others lose theirs.
LEMMA CloseKeeps ==
  ASSUME KernelType, DescriptorOwned, NEW gone, gone \subseteq Alive,
         NEW d \in Alive, d \notin gone
  PROVE  socketfd[d] \in Fds /\ Close(gone)[socketfd[d]] = d
<1>1. socketfd[d] \in Fds /\ file[socketfd[d]] = d
  BY DEF DescriptorOwned
<1>2. \A g \in gone : socketfd[g] # socketfd[d]
  BY <1>1 DEF DescriptorOwned
<1> QED
  BY <1>1, <1>2, CloseType

\* After a callback the round is the same event's error callback, or goes on with
\* the events after the first.
LEMMA AdvanceFacts ==
  ASSUME RoundType, RoundDistinct, at # "poll", Advance
  PROVE  /\ RoundType' /\ RoundDistinct'
         /\ \A i \in DOMAIN activeEvents' :
              i > 1 \/ at' = "read" =>
                \E j \in DOMAIN activeEvents :
                  j > 1 /\ activeEvents[j] = activeEvents'[i]
<1>1. activeEvents \in Seq(Events) /\ activeEvents # << >>
  BY DEF RoundType
<1>2. CASE at' = "error" /\ activeEvents' = activeEvents
  BY <1>1, <1>2 DEF RoundType, RoundDistinct
<1>3. CASE activeEvents' = Tail(activeEvents) /\ at' = Due(activeEvents')
  <2>1. /\ activeEvents' \in Seq(Events)
        /\ \A i \in DOMAIN activeEvents' :
             /\ i \in Nat \ {0} /\ i + 1 \in DOMAIN activeEvents
             /\ activeEvents'[i] = activeEvents[i + 1]
    BY <1>1, <1>3, HeadTail
  <2>2. RoundType'
    BY <1>3, <2>1 DEF RoundType, Due
  <2>3. RoundDistinct'
    BY <2>1 DEF RoundDistinct
  <2>4. \A i \in DOMAIN activeEvents' :
          i + 1 > 1 /\ i + 1 \in DOMAIN activeEvents
          /\ activeEvents[i + 1] = activeEvents'[i]
    BY <2>1
  <2> QED
    BY <2>2, <2>3, <2>4
<1> QED
  BY <1>2, <1>3 DEF Advance

\* The connection whose read callback runs is in the server's map, under its
\* descriptor, and no later event of the round is its own.
LEMMA Handled ==
  ASSUME IInv, NEW c \in Conns, Handling(c)
  PROVE  /\ at # "poll"
         /\ c \in Connected /\ c \in Alive
         /\ socketfd[c] \in DOMAIN connectionsMap
         /\ connectionsMap[socketfd[c]] = c
         /\ \A j \in DOMAIN activeEvents : j > 1 => activeEvents[j].owner # c
<1>1. at = "read" /\ activeEvents \in Seq(Events) /\ activeEvents # << >>
  BY TypeParts DEF IInv, Handling, RoundType
<1>2. 1 \in DOMAIN activeEvents /\ activeEvents[1].owner = c
  BY <1>1, HeadTail DEF Handling
<1>3. c \in Connected
  BY <1>1, <1>2, NamesAssumption DEF IInv, ReadsLiveConnections, Conns
<1>4. PICK fd \in DOMAIN connectionsMap : connectionsMap[fd] = c
  BY <1>3 DEF Connected
<1>5. socketfd[c] = fd
  BY <1>4 DEF IInv, TablesAgree
<1>6. \A j \in DOMAIN activeEvents : j > 1 => activeEvents[j].owner # c
  BY <1>2 DEF IInv, RoundDistinct
<1>7. c \in Alive
  BY <1>3 DEF Alive, Owned, Connected
<1> QED
  BY <1>1, <1>3, <1>4, <1>5, <1>6, <1>7

\* If the server's map keeps the connections of later events, the rest of a round is still valid.
LEMMA RoundGoesOn ==
  ASSUME IInv, at # "poll", Advance,
         \A j \in DOMAIN activeEvents :
           j > 1 /\ activeEvents[j].owner \in Connected
             => activeEvents[j].owner \in Connected'
  PROVE  RoundType' /\ RoundDistinct' /\ ReadsLiveConnections'
<1>1. /\ RoundType' /\ RoundDistinct'
      /\ \A i \in DOMAIN activeEvents' :
           i > 1 \/ at' = "read" =>
             \E j \in DOMAIN activeEvents :
               j > 1 /\ activeEvents[j] = activeEvents'[i]
  BY TypeParts, AdvanceFacts DEF IInv
<1>2. ASSUME NEW i \in DOMAIN activeEvents', i > 1 \/ at' = "read"
      PROVE  activeEvents'[i].owner \in Connected' \cup {Listener}
  <2>1. PICK j \in DOMAIN activeEvents :
               j > 1 /\ activeEvents[j] = activeEvents'[i]
    BY <1>1, <1>2
  <2>2. activeEvents[j].owner \in Connected \cup {Listener}
    BY <2>1 DEF IInv, ReadsLiveConnections
  <2> QED
    BY <2>1, <2>2
<1> QED
  BY <1>1, <1>2 DEF ReadsLiveConnections

-----------------------------------------------------------------------------
(* The steps. *)

\* Nothing but the round changes while nobody is accepted or closed.
LEMMA StandStill ==
  ASSUME IInv, UNCHANGED <<kernel, tables, server>>
  PROVE  /\ KernelType' /\ ServerType' /\ ListType' /\ EventsType'
         /\ TablesAgree' /\ DescriptorOwned' /\ Connected' = Connected
<1> USE DEF kernel, tables, server
<1>1. KernelType /\ ServerType /\ ListType /\ EventsType
  BY TypeParts DEF IInv
<1>2. Connected' = Connected /\ Alive' = Alive
  BY DEF Connected, Alive, Owned
<1>3. KernelType' /\ ServerType' /\ ListType' /\ EventsType'
  BY <1>1, <1>2 DEF KernelType, ServerType, ListType, EventsType
<1>4. TablesAgree'
  BY DEF IInv, TablesAgree
<1>5. DescriptorOwned'
  BY <1>2 DEF IInv, DescriptorOwned
<1> QED
  BY <1>2, <1>3, <1>4, <1>5

\* A round that stands still stays valid.
LEMMA RoundStands ==
  ASSUME IInv, UNCHANGED round, Connected' = Connected
  PROVE  RoundType' /\ RoundDistinct' /\ ReadsLiveConnections'
BY TypeParts DEF IInv, round, RoundType, RoundDistinct, ReadsLiveConnections

\* What poll reports is what a callback can be due for.
LEMMA ReventsType == \A fd : Revents(fd) \in SUBSET {"in", "err"}
BY DEF Revents

\* A round begins with one event of each descriptor that has something to report.
LEMMA PollInv == IInv /\ Poll => IInv'
<1> SUFFICES ASSUME IInv, Poll PROVE IInv'
  OBVIOUS
<1>1. /\ KernelType /\ PeersType /\ ServerType
      /\ ListType /\ EventsType /\ RoundType
  BY TypeParts DEF IInv
<1>2. PeersType'
  BY <1>1 DEF Poll, PeersType, peers
<1>3. /\ KernelType' /\ ServerType' /\ ListType' /\ EventsType'
      /\ TablesAgree' /\ DescriptorOwned' /\ Connected' = Connected
  BY StandStill DEF Poll
<1> DEFINE ready == {i \in DOMAIN pollfdList : Revents(pollfdList[i]) # {}}
           n == Cardinality(ready)
<1>4. n \in Nat \ {0}
  <2>1. pollfdList \in Seq(Polled)
    BY <1>1 DEF ListType
  <2>2. DOMAIN pollfdList = 1..Len(pollfdList) /\ Len(pollfdList) \in Nat
    BY <2>1
  <2>3. IsFiniteSet(DOMAIN pollfdList)
    BY <2>2, FS_Interval
  <2>4. IsFiniteSet(ready)
    BY <2>3, FS_Subset
  <2>5. ready # {}
    BY DEF Poll
  <2> HIDE DEF ready
  <2> QED
    BY <2>4, <2>5, FS_CardinalityType, FS_EmptySet
<1>5. PICK order \in [1..n -> ready] :
        /\ \A i, j \in DOMAIN order : i < j => order[i] < order[j]
        /\ activeEvents' = [i \in DOMAIN order |->
                              [owner |-> eventsMap[pollfdList[order[i]]],
                               revents |-> Revents(pollfdList[order[i]])]]
  BY DEF Poll
<1> HIDE DEF n
<1> DEFINE fds == [i \in 1..n |-> pollfdList[order[i]]]
<1>6. \A i \in 1..n : fds[i] \in DOMAIN eventsMap
  BY DEF IInv, TablesAgree
<1>7. \A i, j \in 1..n : i # j => fds[i] # fds[j]
  <2> SUFFICES ASSUME NEW i \in 1..n, NEW j \in 1..n, i # j, fds[i] = fds[j]
               PROVE  FALSE
    OBVIOUS
  <2>1. order[i] \in DOMAIN pollfdList /\ order[j] \in DOMAIN pollfdList
    OBVIOUS
  <2>2. order[i] = order[j]
    BY <2>1 DEF IInv, TablesAgree
  <2>3. order[i] \in Nat /\ order[j] \in Nat
    BY <1>1, <2>1 DEF ListType
  <2>4. i < j \/ j < i
    BY <1>4
  <2> QED
    BY <1>5, <2>2, <2>3, <2>4
<1>8. /\ DOMAIN activeEvents' = 1..n
      /\ \A i \in 1..n : /\ activeEvents'[i] \in Events
                         /\ activeEvents'[i].owner = eventsMap[fds[i]]
  <2>1. \A i \in 1..n : eventsMap[fds[i]] \in Owners
    BY <1>1, <1>6 DEF EventsType
  <2> QED
    BY <1>5, <2>1, ReventsType DEF Events
<1>9. activeEvents' \in Seq(Events) /\ activeEvents' # << >>
  <2>1. activeEvents' \in [1..n -> Events]
    BY <1>5, <1>8
  <2> QED
    BY <1>4, <2>1
<1> HIDE DEF fds
<1>10. RoundType'
  BY <1>9 DEF Poll, RoundType, Due
<1>11. \A fd \in DOMAIN eventsMap :
         \/ fd = ListenFd /\ eventsMap[fd] = Listener
         \/ /\ eventsMap[fd] \in Connected /\ eventsMap[fd] # Listener
            /\ socketfd[eventsMap[fd]] = fd
  <2> TAKE fd \in DOMAIN eventsMap
  <2>1. CASE fd = ListenFd
    BY <2>1 DEF IInv, TablesAgree
  <2>2. CASE fd # ListenFd
    <3>1. fd \in DOMAIN connectionsMap
      BY <2>2 DEF IInv, TablesAgree
    <3>2. /\ eventsMap[fd] = connectionsMap[fd]
          /\ socketfd[connectionsMap[fd]] = fd
      BY <3>1 DEF IInv, TablesAgree
    <3>3. connectionsMap[fd] \in Connected
      BY <3>1 DEF Connected
    <3>4. connectionsMap[fd] \in 1..MaxConns
      <4>1. made \in 0..MaxConns /\ Connected \subseteq 1..made
        BY <1>1 DEF ServerType, KernelType
      <4>2. 1..made \subseteq 1..MaxConns
        BY <4>1, ConnsAssumption
      <4> QED
        BY <3>3, <4>1, <4>2
    <3> QED
      BY <3>2, <3>3, <3>4, NamesAssumption
  <2> QED
    BY <2>1, <2>2
<1>12. RoundDistinct'
  BY <1>6, <1>7, <1>8, <1>11 DEF RoundDistinct
<1>13. ReadsLiveConnections'
  BY <1>3, <1>6, <1>8, <1>11 DEF ReadsLiveConnections
<1> QED
  BY <1>2, <1>3, <1>10, <1>12, <1>13, TypePartsNext DEF IInv

\* A new connection takes a free descriptor, which no table knows.
LEMMA AcceptInv == IInv /\ Accept => IInv'
<1> SUFFICES ASSUME IInv, Accept PROVE IInv'
  OBVIOUS
<1>1. /\ KernelType /\ PeersType /\ ServerType
      /\ ListType /\ EventsType /\ RoundType
  BY TypeParts DEF IInv
<1> DEFINE fd == Min(FreeFds)
           c == made + 1
           gone == Alive \ Owned(connectionsMap', c, kept)
<1>2. fd \in Fds /\ file[fd] = Nobody
  <2>1. FreeFds \subseteq Nat /\ FreeFds # {}
    BY FdAssumption DEF Accept, FreeFds
  <2>2. fd \in FreeFds
    BY <2>1, MinOf
  <2> QED
    BY <2>2 DEF FreeFds
<1>3. c \in Conns /\ c \notin 1..made /\ c # Nobody
  BY <1>1, ConnsAssumption, NamesAssumption DEF Accept, KernelType, Conns
<1>4. fd \notin DOMAIN connectionsMap
  BY <1>1, <1>2, NamesAssumption, ConnsAssumption
     DEF IInv, TablesAgree, ServerType, KernelType, Connected
<1>5. fd \notin DOMAIN eventsMap
  BY <1>2, <1>4, FdAssumption DEF IInv, TablesAgree
<1>6. /\ made' = c /\ backlog' = backlog - 1 /\ backlog > 0
      /\ socketfd' = [socketfd EXCEPT ![c] = fd]
      /\ currentConn' = c /\ kept' = kept
      /\ connectionsMap' = [f \in DOMAIN connectionsMap \cup {fd} |->
                              IF f = fd THEN c ELSE connectionsMap[f]]
      /\ file' = [Close(gone) EXCEPT ![fd] = c]
      /\ UpdateEvent(fd, c)
  BY <1>4 DEF Accept
<1> HIDE DEF fd, c
<1>7. /\ DOMAIN connectionsMap' = DOMAIN connectionsMap \cup {fd}
      /\ connectionsMap'[fd] = c
      /\ \A f \in DOMAIN connectionsMap : connectionsMap'[f] = connectionsMap[f]
  BY <1>4, <1>6
<1>8. /\ ListType' /\ ListOK'
      /\ DOMAIN eventsMap' = DOMAIN eventsMap \cup {fd}
      /\ eventsMap'[fd] = c
      /\ \A f \in DOMAIN eventsMap : eventsMap'[f] = eventsMap[f]
  BY <1>1, <1>2, <1>5, <1>6, UpdateEventFacts, TableParts DEF IInv, Polled
<1>9. Connected' = Connected \cup {c}
  BY <1>7 DEF Connected
<1>10. /\ Alive' = Connected \cup {c} \cup kept
       /\ gone = Alive \ Alive' /\ Alive' \subseteq Alive \cup {c}
  <2>1. Owned(connectionsMap', c, kept) = Connected \cup {c} \cup kept
    BY <1>3, <1>9 DEF Owned, Connected
  <2>2. Alive' = Owned(connectionsMap', c, kept)
    BY <1>6 DEF Alive
  <2> QED
    BY <2>1, <2>2 DEF Alive, Owned, Connected
<1>11. \A d \in Alive : d \in 1..made /\ d # c
  BY <1>1, <1>3 DEF Alive, Owned, ServerType, Connected
<1>12. ASSUME NEW d \in Alive, d \notin gone
       PROVE  /\ socketfd'[d] = socketfd[d] /\ socketfd[d] \in Fds
              /\ file'[socketfd[d]] = d
  <2>1. socketfd[d] \in Fds /\ Close(gone)[socketfd[d]] = d
    BY <1>1, <1>12, CloseKeeps DEF IInv
  <2>2. file[socketfd[d]] = d
    BY DEF IInv, DescriptorOwned
  <2>3. d \in Conns /\ d # Nobody
    BY <1>1, <1>11, NamesAssumption, ConnsAssumption DEF Conns, KernelType
  <2>4. socketfd[d] # fd
    BY <1>2, <2>2, <2>3
  <2>5. Close(gone) \in [Fds -> Conns \cup {Nobody}]
    BY <1>1, CloseType
  <2>6. file'[socketfd[d]] = d
    BY <1>6, <2>1, <2>4, <2>5
  <2>7. socketfd'[d] = socketfd[d]
    BY <1>1, <1>6, <1>11, <2>3 DEF ServerType
  <2> QED
    BY <2>1, <2>6, <2>7
<1>13. socketfd'[c] = fd /\ file'[fd] = c
  <2>1. Close(gone) \in [Fds -> Conns \cup {Nobody}]
    BY <1>1, CloseType
  <2> QED
    BY <1>1, <1>2, <1>3, <1>6, <2>1 DEF ServerType
<1>14. KernelType'
  <2>1. Close(gone) \in [Fds -> Conns \cup {Nobody}]
    BY <1>1, CloseType
  <2>2. file' \in [Fds -> Conns \cup {Nobody}]
    BY <1>3, <1>6, <2>1
  <2>3. backlog' \in 0..MaxConns /\ made' \in 0..MaxConns
        /\ made' + backlog' <= MaxConns
    BY <1>1, <1>6, ConnsAssumption DEF KernelType, c
  <2> QED
    BY <2>2, <2>3 DEF KernelType
<1>15. ServerType'
  <2>1. 1..made \subseteq 1..made' /\ c \in 1..made'
    BY <1>1, <1>6 DEF KernelType, c
  <2>2. socketfd' \in [Conns -> Polled]
    BY <1>1, <1>2, <1>6 DEF ServerType, Polled
  <2> QED
    BY <1>1, <1>2, <1>6, <1>7, <1>9, <2>1, <2>2 DEF ServerType
<1>16. EventsType'
  BY <1>1, <1>2, <1>3, <1>8 DEF EventsType, Polled, Owners
<1>17. MapsOK'
  <2>1. ListenFd # fd /\ ListenFd \in DOMAIN eventsMap
    BY <1>2, FdAssumption DEF IInv, TablesAgree
  <2>2. ASSUME NEW f \in DOMAIN connectionsMap
        PROVE  /\ eventsMap'[f] = connectionsMap'[f]
               /\ file'[f] = connectionsMap'[f]
               /\ socketfd'[connectionsMap'[f]] = f
    <3>1. /\ eventsMap[f] = connectionsMap[f] /\ f \in DOMAIN eventsMap
          /\ socketfd[connectionsMap[f]] = f
      BY DEF IInv, TablesAgree
    <3>2. connectionsMap[f] \in Alive /\ connectionsMap[f] \notin gone
      BY <1>10 DEF Alive, Owned, Connected
    <3> QED
      BY <1>7, <1>8, <1>12, <3>1, <3>2
  <2>3. DOMAIN eventsMap' = DOMAIN connectionsMap' \cup {ListenFd}
    BY <1>7, <1>8 DEF IInv, TablesAgree
  <2>4. eventsMap'[ListenFd] = Listener
    BY <1>8, <2>1 DEF IInv, TablesAgree
  <2> QED
    BY <1>7, <1>8, <1>13, <2>2, <2>3, <2>4 DEF MapsOK
<1>18. DescriptorOwned'
  BY <1>2, <1>10, <1>12, <1>13 DEF DescriptorOwned
<1>19. RoundType' /\ RoundDistinct' /\ ReadsLiveConnections'
  <2>1. at # "poll" /\ Advance
    BY DEF Accept, Handling
  <2>2. \A j \in DOMAIN activeEvents :
          j > 1 /\ activeEvents[j].owner \in Connected
            => activeEvents[j].owner \in Connected'
    BY <1>9
  <2> QED
    BY <2>1, <2>2, RoundGoesOn
<1>20. PeersType'
  BY <1>1 DEF Accept, PeersType, peers
<1> QED
  BY <1>8, <1>14, <1>15, <1>16, <1>17, <1>18, <1>19, <1>20, TypePartsNext,
     TableParts DEF IInv

\* A callback that only reads leaves the tables as they are.
LEMMA QuietCallback ==
  ASSUME IInv, at # "poll", Advance, PeersType',
         UNCHANGED <<kernel, tables, server>>
  PROVE  IInv'
<1>1. /\ KernelType' /\ ServerType' /\ ListType' /\ EventsType'
      /\ TablesAgree' /\ DescriptorOwned' /\ Connected' = Connected
  BY StandStill
<1>2. \A j \in DOMAIN activeEvents :
        j > 1 /\ activeEvents[j].owner \in Connected
          => activeEvents[j].owner \in Connected'
  BY <1>1
<1>3. RoundType' /\ RoundDistinct' /\ ReadsLiveConnections'
  BY <1>2, RoundGoesOn
<1> QED
  BY <1>1, <1>3, TypePartsNext DEF IInv

\* What a read takes from a socket leaves it empty.
LEMMA ReadType ==
  ASSUME PeersType, NEW d, inbox' = [inbox EXCEPT ![d] = "none"],
         UNCHANGED link
  PROVE  PeersType'
BY DEF PeersType

\* A failed accept changes no table.
LEMMA AcceptFailsInv == IInv /\ AcceptFails => IInv'
<1> SUFFICES ASSUME IInv, AcceptFails PROVE IInv'
  OBVIOUS
<1>1. PeersType'
  BY TypeParts DEF IInv, AcceptFails, PeersType, peers
<1> QED
  BY <1>1, QuietCallback DEF AcceptFails, Handling

\* An error callback does nothing.
LEMMA HandleErrorInv == IInv /\ HandleError => IInv'
<1> SUFFICES ASSUME IInv, HandleError PROVE IInv'
  OBVIOUS
<1>1. PeersType'
  BY TypeParts DEF IInv, HandleError, PeersType, peers
<1> QED
  BY <1>1, QuietCallback DEF HandleError

\* A message may make the program keep the connection, which is alive.
LEMMA HandleMessageInv ==
  ASSUME NEW c \in 1..made, IInv, HandleMessage(c)
  PROVE  IInv'
<1>1. /\ KernelType /\ PeersType /\ ServerType
      /\ ListType /\ EventsType /\ RoundType
  BY TypeParts DEF IInv
<1>2. c \in Conns
  BY <1>1, ConnsAssumption DEF KernelType, Conns
<1>3. at # "poll" /\ c \in Alive
  BY <1>2, Handled DEF HandleMessage
<1>4. /\ Advance /\ UNCHANGED <<kernel, tables>>
      /\ UNCHANGED <<socketfd, connectionsMap, currentConn>>
  BY DEF HandleMessage
<1>5. PICK keep \in SUBSET {c} : kept' = kept \cup keep
  BY DEF HandleMessage
<1>6. Connected' = Connected /\ Alive' = Alive
  BY <1>3, <1>4, <1>5 DEF Connected, Alive, Owned
<1>7. PeersType'
  BY <1>1, ReadType DEF HandleMessage
<1>8. KernelType' /\ ListType' /\ EventsType'
  BY <1>1, <1>4 DEF KernelType, ListType, EventsType, kernel, tables
<1>9. ServerType'
  BY <1>1, <1>4, <1>5, <1>6 DEF ServerType, kernel
<1>10. TablesAgree' /\ DescriptorOwned'
  BY <1>4, <1>6 DEF IInv, TablesAgree, DescriptorOwned, kernel, tables
<1>11. RoundType' /\ RoundDistinct' /\ ReadsLiveConnections'
  <2>1. \A j \in DOMAIN activeEvents :
          j > 1 /\ activeEvents[j].owner \in Connected
            => activeEvents[j].owner \in Connected'
    BY <1>6
  <2> QED
    BY <1>3, <1>4, <2>1, RoundGoesOn
<1> QED
  BY <1>7, <1>8, <1>9, <1>10, <1>11, TypePartsNext DEF IInv

\* A connection that is closed leaves every table, and with its last owner the
\* kernel's; whoever is left keeps its descriptor.
LEMMA HandleEmptyInv ==
  ASSUME NEW c \in 1..made, IInv, HandleEmpty(c)
  PROVE  IInv'
<1>1. /\ KernelType /\ PeersType /\ ServerType
      /\ ListType /\ EventsType /\ RoundType
  BY TypeParts DEF IInv
<1>2. c \in Conns
  BY <1>1, ConnsAssumption DEF KernelType, Conns
<1> DEFINE fd == socketfd[c]
           gone == (Alive \cup {c}) \ Owned(connectionsMap', currentConn, kept)
<1>3. /\ at # "poll"
      /\ c \in Connected /\ c \in Alive
      /\ fd \in DOMAIN connectionsMap /\ connectionsMap[fd] = c
      /\ \A j \in DOMAIN activeEvents : j > 1 => activeEvents[j].owner # c
  BY <1>2, Handled DEF HandleEmpty
<1>4. /\ DeleteEvent(fd) /\ Advance
      /\ connectionsMap' = [f \in DOMAIN connectionsMap \ {fd} |->
                              connectionsMap[f]]
      /\ file' = Close(gone)
      /\ UNCHANGED <<backlog, made, socketfd, currentConn, kept>>
  BY DEF HandleEmpty, HandleClose
<1>5. fd \in DOMAIN eventsMap /\ fd \in Fds /\ fd # ListenFd
  BY <1>1, <1>3, FdAssumption DEF IInv, TablesAgree, ServerType
<1> HIDE DEF fd
<1>6. /\ DOMAIN connectionsMap' = DOMAIN connectionsMap \ {fd}
      /\ \A f \in DOMAIN connectionsMap' : connectionsMap'[f] = connectionsMap[f]
  BY <1>4
<1>7. /\ ListType' /\ ListOK'
      /\ DOMAIN eventsMap' = DOMAIN eventsMap \ {fd}
      /\ \A f \in DOMAIN eventsMap' : eventsMap'[f] = eventsMap[f]
  BY <1>1, <1>4, <1>5, DeleteEventFacts, TableParts DEF IInv
<1>8. Connected \ {c} \subseteq Connected' /\ Connected' \subseteq Connected
  BY <1>3, <1>6 DEF Connected
<1>9. /\ Owned(connectionsMap', currentConn, kept) = Alive'
      /\ Alive' \subseteq Alive
  <2>1. Owned(connectionsMap', currentConn, kept) = Alive'
    BY <1>4 DEF Alive
  <2>2. Alive' \subseteq Alive
    BY <1>4, <1>8 DEF Alive, Owned, Connected
  <2> QED
    BY <2>1, <2>2
<1>10. gone = Alive \ Alive'
  BY <1>3, <1>9
<1> HIDE DEF gone
<1>11. ASSUME NEW d \in Alive'
       PROVE  /\ d \in Alive /\ socketfd'[d] = socketfd[d]
              /\ socketfd[d] \in Fds /\ file'[socketfd[d]] = d
  BY <1>1, <1>4, <1>9, <1>10, CloseKeeps DEF IInv
<1>12. DescriptorOwned'
  BY <1>11 DEF DescriptorOwned
<1>13. MapsOK'
  <2>1. ASSUME NEW f \in DOMAIN connectionsMap'
        PROVE  /\ eventsMap'[f] = connectionsMap'[f]
               /\ file'[f] = connectionsMap'[f]
               /\ socketfd'[connectionsMap'[f]] = f
    <3>1. /\ eventsMap[f] = connectionsMap[f] /\ f \in DOMAIN eventsMap'
          /\ socketfd[connectionsMap[f]] = f
      BY <1>6, <1>7 DEF IInv, TablesAgree
    <3>2. connectionsMap'[f] \in Alive'
      BY DEF Alive, Owned
    <3> QED
      BY <1>6, <1>7, <1>11, <3>1, <3>2
  <2>2. DOMAIN eventsMap' = DOMAIN connectionsMap' \cup {ListenFd}
    BY <1>5, <1>6, <1>7 DEF IInv, TablesAgree
  <2>3. eventsMap'[ListenFd] = Listener
    BY <1>7, <2>2 DEF IInv, TablesAgree
  <2> QED
    BY <2>1, <2>2, <2>3 DEF MapsOK
<1>14. KernelType'
  BY <1>1, <1>4, CloseType DEF KernelType
<1>15. ServerType'
  BY <1>1, <1>4, <1>6, <1>8 DEF ServerType
<1>16. EventsType'
  BY <1>1, <1>7 DEF EventsType
<1>17. RoundType' /\ RoundDistinct' /\ ReadsLiveConnections'
  <2>1. \A j \in DOMAIN activeEvents :
          j > 1 /\ activeEvents[j].owner \in Connected
            => activeEvents[j].owner \in Connected'
    BY <1>3, <1>8
  <2> QED
    BY <1>3, <1>4, <2>1, RoundGoesOn
<1>18. PeersType'
  BY <1>1, ReadType DEF HandleEmpty
<1> QED
  BY <1>7, <1>12, <1>13, <1>14, <1>15, <1>16, <1>17, <1>18, TypePartsNext,
     TableParts DEF IInv

\* The clients and their messages touch no table.
LEMMA EnvironmentInv == IInv /\ Environment => IInv'
<1> SUFFICES ASSUME IInv, Environment PROVE IInv'
  OBVIOUS
<1>1. /\ KernelType /\ PeersType /\ ServerType
      /\ ListType /\ EventsType /\ RoundType
  BY TypeParts DEF IInv
<1>2. CASE Connect
  <2>1. backlog' = backlog + 1 /\ made + backlog < MaxConns
        /\ UNCHANGED <<made, file, peers, tables, server, round>>
    BY <1>2 DEF Connect
  <2>2. KernelType'
    BY <1>1, <2>1, ConnsAssumption DEF KernelType
  <2>3. Connected' = Connected /\ Alive' = Alive
    BY <2>1 DEF Connected, Alive, Owned, server
  <2>4. PeersType' /\ ServerType' /\ ListType' /\ EventsType'
    BY <1>1, <2>1, <2>3
       DEF PeersType, ServerType, ListType, EventsType, peers, server, tables
  <2>5. TablesAgree' /\ DescriptorOwned'
    BY <2>1, <2>3 DEF IInv, TablesAgree, DescriptorOwned, server, tables
  <2>6. RoundType' /\ RoundDistinct' /\ ReadsLiveConnections'
    BY <2>1, <2>3, RoundStands
  <2> QED
    BY <2>2, <2>4, <2>5, <2>6, TypePartsNext DEF IInv
<1>3. ASSUME NEW c \in 1..made, Arrive(c) \/ HangUp(c)
      PROVE  IInv'
  <2>1. UNCHANGED <<kernel, tables, server, round>>
    BY <1>3 DEF Arrive, HangUp
  <2>2. PeersType'
    BY <1>1, <1>3 DEF Arrive, HangUp, PeersType
  <2>3. /\ KernelType' /\ ServerType' /\ ListType' /\ EventsType'
        /\ TablesAgree' /\ DescriptorOwned' /\ Connected' = Connected
    BY <2>1, StandStill
  <2>4. RoundType' /\ RoundDistinct' /\ ReadsLiveConnections'
    BY <2>1, <2>3, RoundStands
  <2> QED
    BY <2>2, <2>3, <2>4, TypePartsNext DEF IInv
<1> QED
  BY <1>2, <1>3 DEF Environment

-----------------------------------------------------------------------------
(* The theorems. *)

\* The server starts with the listening socket in every table.
LEMMA InitInv == Init => IInv
<1> SUFFICES ASSUME Init PROVE IInv
  OBVIOUS
<1> USE DEF Init
<1>1. pollfdList \in Seq(Polled) /\ DOMAIN pollfdList = {1}
      /\ pollfdList[1] = ListenFd
  BY DEF Polled
<1>2. DOMAIN eventsMap = {ListenFd} /\ eventsMap[ListenFd] = Listener
      /\ DOMAIN connectionsMap = {}
  OBVIOUS
<1>3. Connected = {} /\ Alive = {}
  BY <1>2 DEF Connected, Alive, Owned
<1>4. ListType /\ ListOK /\ MapsOK
  BY <1>1, <1>2 DEF ListType, ListOK, MapsOK
<1>5. KernelType /\ PeersType
  BY ConnsAssumption DEF KernelType, PeersType
<1>6. ServerType
  BY <1>2, <1>3 DEF ServerType, Polled
<1>7. EventsType
  BY <1>2 DEF EventsType, Polled, Owners
<1>8. RoundType /\ RoundDistinct /\ ReadsLiveConnections
  BY DEF RoundType, RoundDistinct, ReadsLiveConnections, Events
<1>9. DescriptorOwned
  BY <1>3 DEF DescriptorOwned
<1> QED
  BY <1>4, <1>5, <1>6, <1>7, <1>8, <1>9, TypeParts, TableParts DEF IInv

\* Every step keeps the invariant.
LEMMA StepInv == IInv /\ [Next]_vars => IInv'
<1> SUFFICES ASSUME IInv, [Next]_vars PROVE IInv'
  OBVIOUS
<1>1. CASE Poll
  BY <1>1, PollInv
<1>2. CASE Accept
  BY <1>2, AcceptInv
<1>3. CASE AcceptFails
  BY <1>3, AcceptFailsInv
<1>4. CASE HandleError
  BY <1>4, HandleErrorInv
<1>5. ASSUME NEW c \in 1..made, HandleMessage(c)
      PROVE  IInv'
  BY <1>5, HandleMessageInv
<1>6. ASSUME NEW c \in 1..made, HandleEmpty(c)
      PROVE  IInv'
  BY <1>6, HandleEmptyInv
<1>7. CASE Environment
  BY <1>7, EnvironmentInv
<1>8. CASE UNCHANGED vars
  <2>1. UNCHANGED <<kernel, peers, tables, server, round>>
    BY <1>8 DEF vars
  <2>2. /\ KernelType' /\ ServerType' /\ ListType' /\ EventsType'
        /\ TablesAgree' /\ DescriptorOwned' /\ Connected' = Connected
    BY <2>1, StandStill
  <2>3. PeersType'
    BY <2>1, TypeParts DEF IInv, PeersType, peers
  <2>4. RoundType' /\ RoundDistinct' /\ ReadsLiveConnections'
    BY <2>1, <2>2, RoundStands
  <2> QED
    BY <2>2, <2>3, <2>4, TypePartsNext DEF IInv
<1> QED
  BY <1>1, <1>2, <1>3, <1>4, <1>5, <1>6, <1>7, <1>8 DEF Next, Callback

\* Every table of Poller, Server and kernel keeps its type, and a round of events
\* is empty exactly when the loop polls.
THEOREM ReactorTypes == Spec => []TypeOK
<1>1. IInv => TypeOK
  BY DEF IInv
<1> QED
  BY <1>1, InitInv, StepInv, PTL DEF Spec

\* However connections come, are closed inside a round, are kept by the program
\* and leave their descriptors to others, Poller's list and map, Server's map and
\* the kernel name the same connection for every descriptor.
THEOREM TablesAlwaysAgree == Spec => []TablesAgree
<1>1. IInv => TablesAgree
  BY DEF IInv
<1> QED
  BY <1>1, InitInv, StepInv, PTL DEF Spec

\* No Connection that somebody holds ever shares its descriptor: a send to a
\* connection that was closed long ago cannot reach another peer.
THEOREM DescriptorsOwned == Spec => []DescriptorOwned
<1>1. IInv => DescriptorOwned
  BY DEF IInv
<1> QED
  BY <1>1, InitInv, StepInv, PTL DEF Spec

\* No read callback of a round runs for a connection that an earlier callback of
\* the round has closed.
THEOREM ReadsLive == Spec => []ReadsLiveConnections
<1>1. IInv => ReadsLiveConnections
  BY DEF IInv
<1> QED
  BY <1>1, InitInv, StepInv, PTL DEF Spec
=============================================================================
