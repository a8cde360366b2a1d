----------------------------- MODULE MCPrograms -----------------------------
(* The programs that keep a state from call to call: the request clients,    *)
(* the MySQL wrapper, the Redis client and the ZeroMQ programs of            *)
(* src/后台组件, the broker with fan-out and the wire protocol of            *)
(* lightMQ-master, and the list queue, the growing stack, the Bloom filter   *)
(* and the sorts of src/算法类. One of them runs in each behaviour: they     *)
(* share nothing.                                                            *)
EXTENDS Integers, Sequences
CONSTANTS HttpRequests, Fds, Chunks, Size, MaxCalls, TEST_CMD_COUNT,
          Clients, Topics, Messages, TopicOf, Threads, MaxCommands,
          Commands, Base, RIO_BUFSIZE, Hosts, ZmqRequests,
          Elements, Cells, SIZE, MaxTop, Items, Params, MaxAdds, Murmur(_, _),
          Values, MaxLength

ASSUME RequestsAssumption == HttpRequests \in Nat \ {0}
ASSUME CommandsAssumption == TEST_CMD_COUNT \in Nat \ {0}
ASSUME SizeAssumption == Size \in Nat \ {0}

\* The strings of a command have no zero byte.
ASSUME FramesAssumption ==
  /\ Base \in Nat \ {0} /\ RIO_BUFSIZE \in Nat \ {0}
  /\ Commands \in Seq([cmd : Seq(1..(Base - 1)), topic : Seq(1..(Base - 1)),
                       msg : Seq(1..(Base - 1))])

\* A cell of memory is not at NULL.
ASSUME ContainersAssumption == Cells \subseteq Nat \ {0} /\ SIZE \in Nat \ {0}

\* The code sorts numbers.
ASSUME ValuesAssumption == Values \subseteq Int /\ MaxLength \in Nat

VARIABLES which,        \* the program of this behaviour
          ctx, main, sock, interest, thread, events, peer, got,
          mysql_, link, job, calls, told,
          rds, pending, g_iCmdCallback,
          topics_, up, down, seen, subscriberMap_, queueMap_, tasks, worker,
          asked, published, broken,
          sender, wire, over, receiver, rio, received,
          requester, responder, pipes, catcher,
          queue_, stack_, popped,
          filter, file, added, saved, exact,
          given, array, temp, recursion, loop

async == <<ctx, main, sock, interest, thread, events, peer, got>>
sql == <<mysql_, link, job, calls, told>>
redis == <<rds, pending, g_iCmdCallback>>
broker == <<topics_, up, down, seen, subscriberMap_, queueMap_, tasks, worker,
            asked, published, broken>>
frames == <<sender, wire, over, receiver, rio, received>>
zmq == <<requester, responder, pipes, catcher>>
containers == <<queue_, stack_, popped>>
bloom == <<filter, file, added, saved, exact>>
sorting == <<given, array, temp, recursion, loop>>
services == <<async, sql, redis, broker, frames, zmq>>
vars == <<which, services, containers, bloom, sorting>>

\* Two messages of one topic.
MCTopicOf == <<11, 11>>

\* Commands with and without a message, of different lengths.
MCCommands == <<[cmd |-> <<1>>, topic |-> <<2, 3>>, msg |-> <<4>>],
                [cmd |-> <<5>>, topic |-> <<6>>, msg |-> <<>>]>>

\* Two items with one position in common, for the seeds that are used.
MCMurmur(item, seed) == 7 * item + 11 * (seed % 3) + 5

\* Different seeds and sizes; MaxAdds is beyond the items they are made for.
MCParams == {<<0, 2, 30>>, <<1, 2, 70>>}

Req == INSTANCE AsyncRequests WITH Requests <- HttpRequests
Sql == INSTANCE SqlConnection
Rds == INSTANCE RedisAsync
Fan == INSTANCE FanOut
Frm == INSTANCE Framing
Zmq == INSTANCE RequestReply WITH Requests <- ZmqRequests
Con == INSTANCE Containers WITH q <- queue_, s <- stack_, data <- popped
Blm == INSTANCE BloomFilter
Srt == INSTANCE Sorting WITH data <- array

\* The choice of a program that does not run is fixed.
Init == /\ which \in {"requests", "sql", "redis", "broker", "frames", "zmq",
                      "queue", "stack", "filter", "sort"}
        /\ Req!Init /\ Sql!Init /\ Rds!Init /\ Fan!Init /\ Frm!Init /\ Zmq!Init
        /\ Con!Init /\ Blm!Init
        /\ IF which = "sort" THEN Srt!Init
           ELSE /\ given = <<>> /\ array = <<>> /\ temp = <<>> /\ recursion = <<>>
                /\ loop = Srt!Loop("sorted", 0, 0, 0, 0)
        /\ which = "requests" \/ ctx.program = "http"
        /\ which = "redis" \/ rds.sender = "set"
        /\ which = "frames" \/ receiver.buffered

Service(name) == which = name /\ UNCHANGED <<which, containers, bloom, sorting>>

Requesting == Service("requests") /\ UNCHANGED <<sql, redis, broker, frames, zmq>>
Redis == Service("redis") /\ UNCHANGED <<async, sql, broker, frames, zmq>>
Sorting == which = "sort" /\ UNCHANGED <<which, services, containers, bloom>>
ZeroMQ == Service("zmq") /\ UNCHANGED <<async, sql, redis, broker, frames>>

Next ==
  \/ Requesting /\ Req!Next
  \/ Redis /\ Rds!Next
  \/ ZeroMQ /\ Zmq!Next
  \/ Service("sql") /\ Sql!Next /\ UNCHANGED <<async, redis, broker, frames, zmq>>
  \/ Service("broker") /\ Fan!Next /\ UNCHANGED <<async, sql, redis, frames, zmq>>
  \/ Service("frames") /\ Frm!Next /\ UNCHANGED <<async, sql, redis, broker, zmq>>
  \/ which = "queue" /\ Con!QueueNext /\ UNCHANGED <<which, services, bloom, sorting>>
  \/ which = "stack" /\ Con!StackNext /\ UNCHANGED <<which, services, bloom, sorting>>
  \/ which = "filter" /\ Blm!Next /\ UNCHANGED <<which, services, containers, sorting>>
  \/ Sorting /\ Srt!Next

\* The fairness that each program has in its module.
Spec == /\ Init /\ [][Next]_vars
        /\ WF_vars(Requesting /\ Req!Callback)
        /\ WF_vars(Redis /\ Rds!Loop)
        /\ WF_vars(ZeroMQ /\ (Zmq!Ask \/ Zmq!Answered)) /\ WF_vars(ZeroMQ /\ Zmq!Catch)
        /\ WF_vars(Sorting /\ Srt!Next)
        /\ \A h \in 1..Hosts : WF_vars(ZeroMQ /\ Zmq!Respond(h))

During(program, value, otherwise) == IF which = program THEN value ELSE otherwise

Line == INSTANCE KeptOrder WITH FirstOut <- TRUE,
          items <- During("queue", Con!Queued, <<>>), out <- During("queue", popped, 0)

Pile == INSTANCE KeptOrder WITH FirstOut <- FALSE,
          items <- During("stack", Con!Stacked, <<>>), out <- During("stack", popped, 0)
-----------------------------------------------------------------------------
\* A transaction is committed whole or not at all, wherever the connection
\* is lost (sqlconnection.cpp:133). A command arrives whole and in its turn,
\* however its bytes are written and read, until the connection is cut
\* (Connection.cpp:94-153, Protocol.cpp).
WholeOrNothing == Sql!TransactionsWhole /\ Frm!CommandsWhole

\* Each request gets one answer at most and nothing of another's, although
\* descriptors are used again (asyn_http.c:200, asyntemplate.c:119); the
\* Redis test disconnects only after its last answer (redisasyn.cpp:137).
OwnAnswers == Req!OwnAnswers /\ Rds!NothingCutOff

\* The broker's two tables and the subscribers' own sets agree when nothing
\* is on the way (PubSub.cpp, MessageQueue.cpp, Subscriber.cpp).
SubscriptionsAgree == Fan!SubscriptionsAgree

\* A registered request is answered when its peer answers or ends, the Redis
\* test ends, all requests to hosts that stay up are answered, and a signal
\* ends the loop that catches it once a message comes. A sort ends.
EventuallyAnswered ==
  /\ Req!Answered /\ Rds!TestEnds /\ Zmq!AllAnswered /\ Zmq!SignalEnds
  /\ Srt!Ends

\* The queue hands its elements out in order and the stack against it,
\* whatever cells the nodes are in and whenever the array grows; ends, size
\* and emptiness agree with what is inside (listqueue.cpp, stack.cpp). Each of
\* the sorts ends with the array in ascending order, whatever was in it and
\* however often (sort.cpp).
OrderKept == Line!Spec /\ Pile!Spec /\ []Con!EndsAgree /\ []Srt!Sorts

\* The filter never denies an item that was added since the last reset, over
\* resets, saving and loading (bloomfilter.h).
ItemsRemembered == Blm!Remembers
=============================================================================
