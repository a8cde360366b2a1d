------------------------------ MODULE Reactor ------------------------------
(***************************************************************************)
(* The reactor of socketx: EventLoop, Poller and Event, and the Server and *)
(* Connections whose callbacks the events hold, under a program that reads *)
(* messages as PubSubSys.cpp and EchoServer.cpp do.  One thread runs it.   *)
(*                                                                         *)
(* The kernel is the other side: it hands out the lowest free descriptor,  *)
(* forgets a descriptor when the last owner of the Connection lets go of   *)
(* it (~Socket closes it), and knows what each peer has sent.  An Event    *)
(* holds a bare pointer to its Connection, which nothing of the event      *)
(* keeps alive.                                                            *)
(***************************************************************************)
EXTENDS Integers, SequencesExt

CONSTANTS Fds,      \* the descriptors left to connections
          ListenFd, \* the server socket's
          Listener, \* the ServerSocket, as the owner of an event
          Nobody,   \* no connection
          MaxConns  \* bound: how many clients ever connect

ASSUME FdAssumption == Fds \subseteq Nat /\ ListenFd \in Nat \ Fds
ASSUME ConnsAssumption == MaxConns \in Nat
ASSUME NamesAssumption == /\ Listener \notin 1..MaxConns
                          /\ Nobody \notin 1..MaxConns
                          /\ Listener # Nobody

\* The Connection objects, numbered as they are made.
Conns == 1..MaxConns

VARIABLES
  backlog,        \* the clients waiting to be accepted
  made,           \* the connections made so far
  file,           \* per descriptor, the connection whose socket it is
  inbox, link,    \* per connection, what its peer has sent and whether it is up
  socketfd,       \* per Connection object, its descriptor
  connectionsMap, currentConn,   \* Server's
  kept,           \* the connections the program keeps in maps of its own
  pollfdList, eventsMap,         \* Poller's; an event is known by its owner
  activeEvents,   \* the events of this round still to be handled
  at              \* the callback of the first of them that is due, or "poll"

kernel == <<backlog, made, file>>
peers == <<inbox, link>>
tables == <<pollfdList, eventsMap>>
server == <<socketfd, connectionsMap, currentConn, kept>>
round == <<activeEvents, at>>
vars == <<kernel, peers, tables, server, round>>

FreeFds == {fd \in Fds : file[fd] = Nobody}
Connected == {connectionsMap[fd] : fd \in DOMAIN connectionsMap}

\* Who a shared_ptr keeps alive between two callbacks.
Owned(map, current, keeps) ==
  {map[fd] : fd \in DOMAIN map} \cup ({current} \ {Nobody}) \cup keeps
Alive == Owned(connectionsMap, currentConn, kept)

\* ~Socket, for the connections that are in gone: their descriptors are closed.
Close(gone) == [fd \in Fds |-> IF \E c \in gone : socketfd[c] = fd THEN Nobody
                                                                ELSE file[fd]]

-----------------------------------------------------------------------------
\* Server::start() has registered the listening socket.
Init ==
  /\ backlog = 0 /\ made = 0
  /\ file = [fd \in Fds |-> Nobody]
  /\ inbox = [c \in Conns |-> "none"]
  /\ link = [c \in Conns |-> "up"]
  /\ socketfd = [c \in Conns |-> ListenFd]
  /\ connectionsMap = [fd \in {} |-> Nobody]
  /\ currentConn = Nobody
  /\ kept = {}
  /\ pollfdList = <<ListenFd>>
  /\ eventsMap = [fd \in {ListenFd} |-> Listener]
  /\ activeEvents = << >> /\ at = "poll"

-----------------------------------------------------------------------------
\* The clients.
Connect ==
  /\ made + backlog < MaxConns
  /\ backlog' = backlog + 1
  /\ UNCHANGED <<made, file, peers, tables, server, round>>

Linked(c) == (\E fd \in Fds : file[fd] = c) /\ link[c] = "up"

\* A message arrives whole or its first part does; an empty one is a size of 0.
Arrive(c) ==
  /\ Linked(c)
  /\ \/ inbox[c] = "none" /\ \E m \in {"message", "partial", "empty"} :
                                inbox' = [inbox EXCEPT ![c] = m]
     \/ inbox[c] = "partial" /\ inbox' = [inbox EXCEPT ![c] = "message"]
  /\ UNCHANGED <<kernel, link, tables, server, round>>

HangUp(c) ==
  /\ Linked(c)
  /\ \E how \in {"eof", "reset"} : link' = [link EXCEPT ![c] = how]
  /\ UNCHANGED <<kernel, inbox, tables, server, round>>

-----------------------------------------------------------------------------
\* What ::poll reports of a descriptor.
Revents(fd) ==
  IF fd = ListenFd THEN {"in" : b \in 1..backlog}
  ELSE IF file[fd] = Nobody THEN {"err"}
  ELSE LET c == file[fd]
       IN {"in" : x \in {inbox[c], link[c]} \ {"none", "up"}}
            \cup {"err" : x \in {link[c]} \cap {"reset"}}

\* handleEvent() begins with the read callback.
Due(events) == IF events = << >> THEN "poll"
               ELSE IF "in" \in Head(events).revents THEN "read" ELSE "error"

\* Poller::poll() blocks until there is something to report, and then makes the
\* events of the descriptors it is reported of, in the order of the list.
Poll ==
  /\ at = "poll"
  /\ LET ready == {i \in DOMAIN pollfdList : Revents(pollfdList[i]) # {}}
     IN /\ ready # {}
        /\ \E order \in [1..Cardinality(ready) -> ready] :
             /\ \A i, j \in DOMAIN order : i < j => order[i] < order[j]
             /\ activeEvents' = [i \in DOMAIN order |->
                                   [owner |-> eventsMap[pollfdList[order[i]]],
                                    revents |-> Revents(pollfdList[order[i]])]]
  /\ at' = Due(activeEvents')
  /\ UNCHANGED <<kernel, peers, tables, server>>

\* After a callback: the error callback of the same event, or the next event.
Advance ==
  IF at = "read" /\ "err" \in Head(activeEvents).revents
  THEN at' = "error" /\ UNCHANGED activeEvents
  ELSE activeEvents' = Tail(activeEvents) /\ at' = Due(activeEvents')

\* updateEvent() adds an event for a descriptor it does not know, and otherwise
\* leaves the Event that is there.
UpdateEvent(fd, c) ==
  /\ eventsMap' = [f \in DOMAIN eventsMap \cup {fd} |->
                     IF f \in DOMAIN eventsMap THEN eventsMap[f] ELSE c]
  /\ pollfdList' = IF fd \in DOMAIN eventsMap THEN pollfdList
                                              ELSE Append(pollfdList, fd)

\* Faulty variant: the event goes, its descriptor is still polled.
DeleteEventPolled(fd) ==
  /\ eventsMap' = [f \in DOMAIN eventsMap \ {fd} |-> eventsMap[f]]
  /\ UNCHANGED pollfdList

\* deleteEvent() erases the first entry of the list.
DeleteEvent(fd) ==
  IF fd \in DOMAIN eventsMap
  THEN /\ eventsMap' = [f \in DOMAIN eventsMap \ {fd} |-> eventsMap[f]]
       /\ LET i == CHOOSE i \in DOMAIN pollfdList : pollfdList[i] = fd
          IN pollfdList' = RemoveAt(pollfdList, i)
  ELSE UNCHANGED tables

-----------------------------------------------------------------------------
Handling(owner) == at = "read" /\ Head(activeEvents).owner = owner

\* ::accept() takes the lowest free descriptor, and Server::newConnection()
\* makes the Connection; the one that was current loses an owner.  The program
\* sets the read callback, which registers the event.
Accept ==
  /\ Handling(Listener)
  /\ backlog > 0 /\ FreeFds # {}
  /\ LET fd == Min(FreeFds)
         c == made + 1
         known == fd \in DOMAIN connectionsMap
     IN /\ made' = c /\ backlog' = backlog - 1
        /\ socketfd' = [socketfd EXCEPT ![c] = fd]
        /\ currentConn' = c
        /\ connectionsMap' = IF known THEN connectionsMap
                             ELSE [f \in DOMAIN connectionsMap \cup {fd} |->
                                     IF f = fd THEN c ELSE connectionsMap[f]]
        /\ file' = [Close(Alive \ Owned(connectionsMap', c, kept))
                      EXCEPT ![fd] = c]
        /\ known \/ UpdateEvent(fd, c)
        /\ known => UNCHANGED tables
  /\ Advance
  /\ UNCHANGED <<peers, kept>>

\* Faulty variant: after a failed accept the server listens no more.
AcceptFailsForGood ==
  /\ Handling(Listener)
  /\ backlog > 0 /\ FreeFds = {}
  /\ DeleteEvent(ListenFd)
  /\ Advance
  /\ UNCHANGED <<kernel, peers, server>>

\* Without a free descriptor the client stays in the backlog.
AcceptFails ==
  /\ Handling(Listener)
  /\ backlog > 0 /\ FreeFds = {}
  /\ Advance
  /\ UNCHANGED <<kernel, peers, tables, server>>

\* The read callback reads from the descriptor of its Connection.
Peer(c) == file[socketfd[c]]

\* A message, whole or cut short by the end of the connection, goes to the
\* program, which keeps the connection (regist, subscribe) or does not.
HandleMessage(c) ==
  /\ Handling(c)
  /\ \/ inbox[Peer(c)] = "message"
     \/ inbox[Peer(c)] = "partial" /\ link[Peer(c)] # "up"
  /\ inbox' = [inbox EXCEPT ![Peer(c)] = "none"]
  /\ \E keep \in SUBSET {c} : kept' = kept \cup keep
  /\ Advance
  /\ UNCHANGED <<kernel, link, tables, socketfd, connectionsMap, currentConn>>

\* Faulty variant: the event is not deleted.
HandleCloseListed(c) ==
  /\ connectionsMap' = [fd \in DOMAIN connectionsMap \ {socketfd[c]} |->
                          connectionsMap[fd]]
  /\ file' = Close((Alive \cup {c}) \ Owned(connectionsMap', currentConn, kept))
  /\ UNCHANGED <<backlog, made, socketfd, currentConn, kept, tables>>

\* Faulty variant: the descriptor is closed here, and not by ~Socket alone.
HandleCloseSocket(c) ==
  /\ DeleteEvent(socketfd[c])
  /\ connectionsMap' = [fd \in DOMAIN connectionsMap \ {socketfd[c]} |->
                          connectionsMap[fd]]
  /\ file' = Close({c})
  /\ UNCHANGED <<backlog, made, socketfd, currentConn, kept>>

\* Connection::handleClose() and Server::removeConnection().  When the callback
\* returns, its own reference to the Connection is gone too.
HandleClose(c) ==
  /\ DeleteEvent(socketfd[c])
  /\ connectionsMap' = [fd \in DOMAIN connectionsMap \ {socketfd[c]} |->
                          connectionsMap[fd]]
  /\ file' = Close((Alive \cup {c}) \ Owned(connectionsMap', currentConn, kept))
  /\ UNCHANGED <<backlog, made, socketfd, currentConn, kept>>

\* Faulty variant: an empty message is ignored.
HandleEmptyIgnored(c) ==
  /\ Handling(c)
  /\ \/ inbox[Peer(c)] = "empty"
     \/ inbox[Peer(c)] = "none" /\ link[Peer(c)] # "up"
  /\ inbox' = [inbox EXCEPT ![Peer(c)] = "none"]
  /\ Advance
  /\ UNCHANGED <<kernel, link, tables, server>>

\* recvmsg() returns an empty message: its size was 0, or the peer is gone.
HandleEmpty(c) ==
  /\ Handling(c)
  /\ \/ inbox[Peer(c)] = "empty"
     \/ inbox[Peer(c)] = "none" /\ link[Peer(c)] # "up"
  /\ inbox' = [inbox EXCEPT ![Peer(c)] = "none"]
  /\ HandleClose(c)
  /\ Advance
  /\ UNCHANGED link

\* Faulty variant: an error ends the round.
HandleErrorBreak ==
  /\ at = "error"
  /\ at' = "poll"
  /\ UNCHANGED <<kernel, peers, tables, server, activeEvents>>

\* Connection::handleError() does nothing, to a Connection that HandleEmpty may
\* have destroyed by now.
HandleError ==
  /\ at = "error"
  /\ Advance
  /\ UNCHANGED <<kernel, peers, tables, server>>

-----------------------------------------------------------------------------
Callback == \/ Accept \/ AcceptFails \/ HandleError
            \/ \E c \in 1..made : HandleMessage(c) \/ HandleEmpty(c)
Environment == Connect \/ \E c \in 1..made : Arrive(c) \/ HangUp(c)

Next == Poll \/ Callback \/ Environment

Spec == Init /\ [][Next]_vars

\* The loop's thread runs.
FairSpec == Spec /\ WF_vars(Poll \/ Callback)

-----------------------------------------------------------------------------
\* The types of the tables, of the kernel's side, and of a round of events.
TypeOK ==
  /\ backlog \in 0..MaxConns /\ made \in 0..MaxConns
  /\ made + backlog <= MaxConns
  /\ file \in [Fds -> Conns \cup {Nobody}]
  /\ inbox \in [Conns -> {"none", "message", "partial", "empty"}]
  /\ link \in [Conns -> {"up", "eof", "reset"}]
  /\ socketfd \in [Conns -> Fds \cup {ListenFd}]
  /\ DOMAIN connectionsMap \subseteq Fds /\ Connected \subseteq 1..made
  /\ currentConn \in 1..made \cup {Nobody} /\ kept \subseteq 1..made
  /\ pollfdList \in Seq(Fds \cup {ListenFd})
  /\ DOMAIN eventsMap \subseteq Fds \cup {ListenFd}
  /\ \A fd \in DOMAIN eventsMap : eventsMap[fd] \in Conns \cup {Listener}
  /\ activeEvents \in Seq([owner : Conns \cup {Listener},
                           revents : SUBSET {"in", "err"}])
  /\ at \in {"poll", "read", "error"}
  /\ (at = "poll") <=> (activeEvents = << >>)

\* Poller, Server and kernel agree, although handlers close connections and
\* descriptors are handed out again: each descriptor is polled once, its event
\* is the one of the connection in the server's map, and the kernel still has
\* it as that connection's socket.  So accept() never meets a descriptor that
\* the map knows, updateEvent() never finds the event of an earlier owner, and
\* removeConnection() never erases end().
TablesAgree ==
  /\ \A i, j \in DOMAIN pollfdList : pollfdList[i] = pollfdList[j] => i = j
  /\ {pollfdList[i] : i \in DOMAIN pollfdList} = DOMAIN eventsMap
  /\ DOMAIN eventsMap = DOMAIN connectionsMap \cup {ListenFd}
  /\ eventsMap[ListenFd] = Listener
  /\ \A fd \in DOMAIN connectionsMap :
       /\ eventsMap[fd] = connectionsMap[fd]
       /\ file[fd] = connectionsMap[fd]
       /\ socketfd[connectionsMap[fd]] = fd

\* A Connection that somebody still holds, and may send to, has its descriptor
\* to itself, also when it was closed long ago.
DescriptorOwned ==
  \A c \in Alive : socketfd[c] \in Fds /\ file[socketfd[c]] = c

\* Every event of the round whose read callback is still to come belongs to the
\* listener or to a connection that has not been closed: a callback that closes
\* one connection leaves the events after it valid.
ReadsLiveConnections ==
  \A i \in DOMAIN activeEvents :
    i > 1 \/ at = "read" => activeEvents[i].owner \in Connected \cup {Listener}

\* recv() waits for the rest of a message, and the whole loop with it.
Stuck == /\ at = "read" /\ Head(activeEvents).owner # Listener
         /\ LET c == Head(activeEvents).owner
            IN inbox[c] = "partial" /\ link[c] = "up"

\* A peer that has gone is noticed and its connection removed, unless the loop
\* waits for ever for the rest of a message of another peer.
HangUpNoticed ==
  \/ <>[]Stuck
  \/ \A c \in Conns : (c \in Connected /\ link[c] # "up") ~> c \notin Connected

\* A waiting client is accepted, unless the loop is stuck or no descriptor is
\* free: connections that close make room for it, except for those that the
\* program keeps.
WaitingAccepted ==
  \/ <>[]Stuck
  \/ \A n \in 0..MaxConns :
       (backlog > 0 /\ made = n) ~> (made > n \/ FreeFds = {})
=============================================================================
