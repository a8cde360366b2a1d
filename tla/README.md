# TLA+ models of C-server-study-route

The repository collects server components and data structures: a bounded
message queue with an event dispatcher (`算法类/pubsub`), a message broker with
its own networking library (`算法类/designtemplate/lightmqgroup` and the earlier
`lightMQ-master`), trees, sorts, string matching, a Bloom filter, and wrappers
around MySQL, Redis/HTTP and ZeroMQ (`后台组件`).  This directory models them
in TLA+, checks them with TLC and proves with TLAPS the safety properties of the
concurrent core, of the clients, the wire protocol, the containers and the sorts.

Paths below are relative to `src/`; `LG` stands for
`算法类/designtemplate/lightmqgroup/lightMQ-master` and `LM` for the earlier
`算法类/designtemplate/lightMQ-master`.

## Inventory

| component | state | operations | talks to | what is hard |
|---|---|---|---|---|
| **PosixQueue** `算法类/pubsub/MsgQueue.h` | list of items, bound, two waiting counts, `m_aborting`, a mutex, three conditions | enqueue, dequeue, peek (with timeouts), abort, destructor | called by the dispatcher's threads | lost wakeups, timeouts racing signals, destruction under waiters |
| **DispatchMsgService** `算法类/pubsub/DispatchMsgService.cpp` | `subscribers_` (map of vectors), the queue, `svr_exit_`, the thread | init, uninit, subscribe, unsubscribe, publish, svc, process | PosixQueue; the handlers, which may call back | unlocked vector under iteration, the second life after uninit, who owns an event |
| **Events and JSON** `event*.cpp`, `events_def.cpp` | fields of one event | decode, getters | vendored jsoncpp | none of its own |
| **lightMQ broker, groups** `LG/src/PubSub.cpp`, `LG/socketx/src/MessageQueue.cpp` | `subscriberMap_`, `queueMap_` (queue and groups per topic), a group id per connection | regist, subscribe, unsubscribe, publish, publishMsg, send | the thread pool; connections | pool threads walk over groups that the loop changes; one group id for all topics; threads kept by topics without subscribers |
| **lightMQ broker, fan-out** `LM/src/PubSub.cpp`, `LM/socketx/src/MessageQueue.cpp` | `subscriberMap_`, `queueMap_` (queue and `sendList` per topic) | regist, subscribe, unsubscribe, publish, broadcast, publishMsg, send | the thread pool; connections | pool threads walk over a list that the loop changes; two of them write to one connection |
| **clients and protocol** `LM/src/Subscriber.cpp`, `Publisher.cpp`, `Protocol.cpp`, `LM/socketx/src/Connection.cpp` | the client's list of topics; the bytes read so far | subscribe, unsubscribe, filter; (de)serialization; send, recv, rio_read, recvmsg | the broker, over TCP | the client's list against the broker's tables; short reads and writes |
| **thread pool and queues** `LG/socketx/src/Threadx.cpp`, `Threadx.hpp` | queue of tasks, `done`, thread and idle counts; semaphores and a ring (`cirqueue`) | submit, addThread, worker, destructor; wait_push, wait_pop | the broker; the multi-echo example | the idle count, joining polling threads, a mutex that starts at n |
| **reactor** `LG/socketx/src/EventLoop.cpp`, `Poller.cpp`, `Event.cpp`, `Connection.cpp`, `Server.cpp` | poll table, event map, connection list and buffers | loop, updateEvent, deleteEvent, handleEvent, handleClose, newConnection | the broker's callbacks; the kernel | a handler that closes a connection later in the same batch; reused descriptors |
| **trees** `算法类/Tree` | nodes, the root | insert, delete, search, traversal; text and back | – | long sequences of deletions; the shared nil node; a root that is freed |
| **sorts, KMP, list queue, stack** `算法类/sort` | arrays, nodes and cells | sorts, searches, push, pop | – | boundaries; a cell that is used again |
| **Bloom filter** `算法类/bloom/bloomfilter.h` | bits, lazy-reset flag, memory, the file | Init, Add, Check, Reset, Save, Load, Free | the file system | lazy reset, failing Load |
| **MySQL wrapper** `后台组件/mysql/Cmysql` | the connection, its state | Init, Execute, Transaction, Close | the server | a connection lost in a transaction |
| **asynchronous clients** `后台组件/redis` | sockets and their requests in epoll | request, callback thread | servers | a request handed to another thread through epoll alone |
| **identifiers** `后台组件/mysql/conf/uuid.lua` | – | new, randomseed | – | bit arithmetic by tables |
| **ZeroMQ examples** `后台组件/zmq` | the requests on their way, `s_interrupted` | request/response, a loop ended by a signal | libzmq | hosts that end; a signal at the wrong moment |

Left out for good: the event decoding (only an event's id reaches the
dispatcher), `init.lua` (request handling inside OpenResty, which is not here),
the duty-chain example (no state that changes), the `setjmp` toys, and all vendored
code.

What makes each part correct, in one line each: the queue is a FIFO whose
callers never sleep on a condition that holds; the dispatcher delivers to the
subscribed, owns each event once and is quiet after `uninit`; the broker takes
each message once, leaves none behind and sends it once to each group; the pool
counts its idle threads and can be destroyed; the reactor never handles an event
of a closed connection; the trees stay search trees with their balance; the
algorithms compute what their names say; the fan-out broker and its subscribers
agree on who has subscribed; a command or a transaction arrives whole or not at
all; a request gets one answer, its own, and gets it.

## Modules

| module | role |
|---|---|
| `QueueCalls` | the vocabulary of a queue's calls and results, shared by the next two |
| `BoundedFIFO` | the abstract queue: invoke, one atomic Put / Take / Look / Refuse, close |
| `PosixQueue` | MsgQueue.h with its mutex, conditions, counts and destructor; `ImplementsFIFO` is its refinement of `BoundedFIFO` |
| `DispatchMsgService` | the dispatcher, built on an `INSTANCE` of `BoundedFIFO` |
| `ThreadPool` | the pool and its `squeue` of tasks |
| `PubSub` | the broker with groups, built on an `INSTANCE` of `ThreadPool` |
| `Reactor` | event loop, poller, server and connections of socketx, with the kernel's descriptors and the peers |
| `FanOut` | the fan-out broker, its pool's threads, its subscribers and a publisher |
| `Framing` | one direction of a connection: (de)serialization, send, recv and the buffered reads |
| `SqlConnection` | the MySQL wrapper over a handle of libmysql and a server that may drop sessions |
| `AsyncRequests` | the three HTTP clients: two with an epoll thread, one blocking |
| `RedisAsync` | the hiredis test and its callbacks |
| `RequestReply` | requester, responders, and the loop that a signal ends |
| `RedBlackTree`, `BTree`, `BinaryTree` | the trees; `KeySet` is the set with insert and delete that the first implements |
| `Sorting` | shell, merge and quick sort, round by round and call by call |
| `Matching`, `Uuid` | the pure algorithms against their definitions |
| `Containers` | list queue and stack; `KeptOrder` is the line or pile that they implement |
| `BloomFilter` | the filter with its memory, lazy reset and file |
| `MCTrees`, `MCAlgorithms`, `MCPrograms` | programs that share nothing, one of them (`which`) in each behaviour of a run |
| other `MC…` | the constants for TLC |
| `…_proofs` | the theorems and their proofs: of a module, of `MCPrograms` (`Services_proofs`, `Containers_proofs`) |
| `SequenceLemmas` | lemmas about sequences that the proofs share |

The grain of each model is the code's own synchronisation.

**PosixQueue.** The mutex makes the code between two lock or wait points one
step.  A thread's `pc` says whether it is on its way to the mutex (`lock`),
asleep on a condition (`wait`), or on its way back from one (`woken`,
`expired`); `Enter` is the call up to the lock, `EnqueueWait`, `EnqueuePush`,
`PopWait`, `DequeuePop`, `PeekHead`, `PopEmpty` and `GiveUp` are what a thread
does with the mutex in hand, `TimeOut` and `SpuriousWakeup` what the kernel does
to a sleeper, and `DtorEnter`, `AbortBegin`, `AbortDrained` and `Destroy` the
destructor.  A broadcast wakes all sleepers of its condition, and only when the
count says there is one, as in the code.  Timeouts are 0, finite or none.

**DispatchMsgService.** Each touch of `subscribers_`, `svr_exit_` or the queue
is one step of the thread that makes it; `ProcessLoop` and `HandleReturn` are
the two ends of a `handle()` during which `Subscribe` and `Unsubscribe` may
happen, from another thread or from the handler.  `iter` is the vector iterator
with its position and whether a reallocation has left it dangling; a run beyond
`end()` or through a dangling iterator ends in `svc = "undefined"`.

**ThreadPool.** A worker goes from `polling` (reads `done`) to `trying`
(`try_pop`) to `taken`, `running` (after `--idleThreadNum`), `returned` and back
(after `++idleThreadNum`).  The `squeue` locks, so push, `try_pop` and `empty`
are one step each, and the two counters are atomics or belong to the owner.

**PubSub.** The event loop is one thread and runs one command at a time; its
commands are one step except where a pool thread can see the middle: a new group
is pushed empty and then filled (`AddGroup`, `FillGroup`), and `publish` pushes
the message, looks at the idle count and submits (`Publish`, `PublishCount`,
`PublishSubmit`).  A pool thread in `publishMsg` tests the queue, takes a
message, and walks over the groups, drawing a member (`Pick`) and then sending
to it (`Deliver`).  The test for no group and the `try_pop` after it are one
step, because groups are never removed: once there is one there always is.
What C++ leaves undefined is the action `Misstep`: the modulus by an empty
group, an index into a group that has shrunk, an iterator into a vector that
was reallocated (`wild`, which may or may not happen when a group is added).
After it nothing is said of the program, and no action follows.  `Pool` is the
instance of ThreadPool whose tasks are topics: `publishMsg` bound to a topic.

**Reactor.** One thread; a step is one callback, or `poll`, and between them the
clients and the kernel move.  `activeEvents` is the vector `poll` returned, the
first of which is being handled: `at` is its `read` or `error` callback, or
`poll`.  An event is known by the owner its callbacks point to.  `file` is the
kernel's table of descriptors: `accept` takes the lowest free one, and one is
free again when nobody owns its Connection, whose destructor closes it; owners
are `connectionsMap`, `currentConn` and the program's own maps (`kept`).
`HandleEmpty` with `HandleClose` is the way every connection ends.  A peer's
`inbox` holds at most one message, which may have arrived in part; `recvmsg`
then waits, and with it the loop (`Stuck`), until the rest comes or the peer
goes.  After a reset the error callback runs after the read callback has closed
and perhaps destroyed the Connection: a call to a dead object, which does
nothing because `handleError` is empty, and is modelled as that.

**FanOut.** The loop's thread runs one command at a time, so a command is one
step; a pool thread tests its topic's queue, takes a message under the queue's
lock, and then writes the size and the bytes of the message to one connection
after the other, each a step.  `it` is the position of its iterator in
`sendList`, which the loop changes meanwhile: an erased element moves the others
under the iterator, one that is past `end()` or whose vector has moved is
`broken`, as is a look-up while the map grows, and the behaviour stops.  A
subscriber that takes the bytes of one message for the size of another is
`garbled`.  A connection that has been left stays in both tables and what is
written to it is lost.

**Framing.** Each `write` and `read` moves any number of the bytes that are
left.  A `size_t` has two bytes below `Base`.  The buffered and the direct
receiver are both there (`buffered`).  A message that is cut is handed on all
the same by `recvmsg`, and a buffer that was not filled holds anything
(`Garbled`).

**SqlConnection.** A query is one step with every outcome libmysql can report:
done, refused, or a connection lost before or after the server did it.  What the
server keeps is `link.db`; `told` are the calls that returned true.  `mysql_`
follows the handle from raw memory through `Init`, `Close` and the destructor,
and is `"undefined"` where one of them uses it wrongly.

**AsyncRequests.** The steps of the main thread are `Connect` and `Register`,
those of the callback thread `Wait`, `CallBack` and the two halves of `Finish`,
so that a descriptor can be handed out again between any two of them.  epoll
forgets a closed descriptor.  Peers send, close and reset at any time.  An
allocation or `epoll_ctl` that fails leaves the socket open, as in the code.

**RedisAsync, RequestReply.** hiredis calls each callback once and in order,
with NULL for what a lost connection leaves open; ZeroMQ queues a request for
its host, up or not.  Both are external.

**Trees.** The red-black tree's nodes are records in a function from keys, since
they point to their parents and share the nil node; the binary tree and the
B-tree, whose nodes have one parent and no way back, are nested values;
insertions and deletions are one step each, with the code's own recursion,
rotations and order of cases.  `broken` marks a B-tree that has used
freed memory, and ends there.  The B-tree's deletions lose keys, repeat others
and destroy the order, and the model does what they do: a borrow from the
previous sibling drops that sibling's last key and leaves a second copy of the
separator; when the siblings are inner nodes, or when a key is replaced from a
child that is no leaf, keys come to lie on the wrong side.  So a B-tree is not a
`KeySet`, and its properties say exactly what it is instead, for every operation
possible in every state: which deletions lose the order of distinct keys
(`KeepsOrder`), which
keys are lost and repeated and that no others are (`KeepsKeys`), that a search
finds every key while the order holds (`Findable`), and that fill and depth are
right in any case (`Shape`).  `MCTrees` lets one B-tree take any order of a few
keys and go on whatever becomes of them, and a tall one lose and regain keys
until one is there twice or out of order.  The binary tree likewise loses
greater data for an equal one, and nothing else.

**Sorting.** A behaviour is one call of one of the sorts.  `loop` is the place
in the code with its variables, `recursion` the stack of calls under way; a step
is a call, a return or one round of a loop.  `given` is the array as the caller
had it, for the property.  `merge_sort` and `quick_sort` have no return
statement; they are modelled as compiled without optimisation, which returns.

**Matching, Uuid.** `Search` and `New` apply the functions to every input within
the bounds.

**Containers, BloomFilter.** `Containers` has the addresses that `malloc` hands
out again; what is in the queue is read off its nodes along `next` (`List`).
`BloomFilter` has the memory, the file, and the static file head that a failed
load leaves behind; `Murmur` is a constant operator, of which nothing is assumed.

## Runs

| run | expects | shows |
|---|---|---|
| `posix_queue` | pass | the type invariant; counts exact; no lost wakeup; capacity; nobody inside when the mutex is destroyed; refinement of the FIFO; timed calls return; the destructor finishes |
| `posix_queue_late_callers` | violation of `AbortedNobodySleeps` | `m_aborting` is tested only after a wait, so a call that gets the mutex after `abort()` sleeps |
| `dispatch` | pass | types; delivery to all subscribed unless somebody unsubscribes; quiet when down; an event in one place and never used after delete; `uninit` returns; queued events are served |
| `dispatch_unsubscribe` | violation of `SubscribersHandleEvents` | erasing one handler during a dispatch makes the loop skip another |
| `dispatch_reinit` | violation of `InitServes` | the second thread reads the old `svr_exit_` and ends |
| `thread_pool` | pass | types; the idle count; the destructor returns |
| `pubsub` | pass | types; no message stranded; a message in one place; a walk serves every group; a one-topic client is in one group; queued messages are taken |
| `reactor` | pass | types; poller, server and kernel agree on each descriptor; a Connection has its descriptor to itself; no read callback of a closed connection; a peer's end is noticed; a waiting client is accepted |
| `algorithms` | pass | both trees balanced; the red-black tree in order and a set of keys; the B-tree loses its order, and loses or repeats keys, in no other operations than the two kinds that do; the binary tree keeps its order, loses data for an equal one only, and its text is read back; searches and identifiers right |
| `programs` | pass | transactions and commands whole or nothing; answers to their own requests, and in the end; the broker's tables and the subscribers' agree; the list queue and the growing stack in order; each sort ends, with the same elements in order; the filter denies nothing |
| `fan_out_twice` | violation of `SentOnce` | a subscriber that leaves and comes back during a walk is sent a message twice |
| `pubsub_one_group` | violation of `OneGroupEach` | one group id per connection leaves a subscriber of two topics in two groups of one |

Every property of a passing run has a mutant: an operator marked `Faulty
variant` or `Wrong` next to the one it stands in for, the way a slip in that
code would change it, under which TLC refutes the property.

### Bounds

* `posix_queue`: three threads (a producer, a consumer, one that does both and
  peeks) so that two pushers compete for room and two poppers for an item; every
  kind of timeout; an unbounded queue and one of capacity 1, in which every push
  meets a full queue; `MaxBacklog` 2 bounds the unbounded list, which is enough
  to have it empty, at one item and beyond.  `LateCallers = FALSE` is the
  contract under which the destructor can be correct at all; the violation run
  drops it.  Deadlock is not checked: a destroyed queue stops.
* `dispatch`: two handlers (one to be skipped, one to be erased), two events of
  one id and one that did not decode, a queue of one item so that publishing
  blocks, `MaxInits` 2 for a second life.  Deadlock is not checked: after the
  last `uninit`, or after undefined behaviour, the system stops.
* `thread_pool`: zero to two initial threads, three in all, two tasks in the
  queue: several threads race for one task, and one finds the queue empty.
* `pubsub`: two messages to one topic, so that two threads walk at once and
  one may take both; two connections, one of which asks for two topics;
  `MaxGroups` two groups of the first topic and one of the second; `MaxThreads`
  2, with zero or one to begin with, so that `publish` adds threads.  At the
  bound `PublishCount` waits for an idle thread where the code would add one.
  A connection that closes is one that issues no further command: the broker
  keeps it in its maps, as the code does, and `sendmsg` to it fails silently.

* `reactor`: three clients for two descriptors, so that one is handed out again
  and the third client may find none; a round holds up to three events, the
  listener's among them, and every peer may send any number of messages, stop in
  the middle of one, close or reset.  Deadlock is not checked: when all clients
  have come and gone `poll` waits for ever.

* `algorithms`: seven keys in the red-black tree, which reaches every case of
  both fix-ups; a B-tree of degree 2 with seven keys in any order, at most seven
  with their repetitions, and one of ten keys with three levels and seven keys
  or more once it is filled, so that merges, borrows between leaves and between
  inner nodes, substitutes from either and a root that shrinks happen; four data in the binary tree, six insertions, an equal one among them;
  texts of six and patterns of four letters.  Deadlock is not checked: a search
  ends, and a broken tree stops.
* `programs`: two requests on two descriptors whose answers come in two pieces,
  so that a descriptor is used again; four calls of the MySQL wrapper with
  transactions of two statements; three Redis commands; two subscribers, two
  messages to one topic and two threads, with one command of the users besides
  the invitations; two commands of different lengths and a buffer shorter than
  either; two hosts and four requests; the queue's four cells of memory, which
  are handed out again and again; a stack that grows twice; a filter of every
  size `Params` gives, filled beyond the items it is made for, with two items
  that share a position; every array of up to five of three values, which has
  equal elements, two gaps, and halves of unequal length.  Deadlock is not
  checked: programs end.
* `fan_out_twice`: one message and one thread, and two commands of the users,
  which is what it takes to leave and come back.

### Fairness

* PosixQueue: weak fairness for a thread that holds or wants the mutex (`Run`)
  and for the destructor; strong fairness for `TimeOut`, because the deadline of
  a timed wait is absolute and computed once per call: a call that is woken and
  sleeps again still reaches it.
* DispatchMsgService: weak fairness for the steps of the service thread, which
  includes that `handle()` returns, and for the caller of `init` and `uninit`;
  strong fairness for a dequeue that finds an item, since `dequeue` does not
  wait on a list that is not empty.
* Reactor: weak fairness for the one thread of the loop.  Nothing is assumed of
  clients, so a peer may leave a message unfinished for ever; the liveness
  properties name that case.
* AsyncRequests: weak fairness for the callback thread, which is scheduled.  Of
  peers and of the main thread nothing is assumed: the property is about a
  registered request whose peer has answered or ended.
* RedisAsync: weak fairness for the event loop and the server that answers it.
* RequestReply: weak fairness for each program and each responder that runs;
  that a host starts or a message comes is a premise of the properties.
* Sorting: weak fairness for the sequential code of the sort.
* ThreadPool and PubSub: weak fairness per thread (the scheduler runs each), and
  for the loop thread to end a command it has begun.  No command has to be
  issued.  Nothing is assumed of the topics: a thread may stay for ever with a
  topic that has no group, and `QueuedUntilTaken` names that case (`Starved`).

## Proofs

All theorems hold for every value of the constants that the named `ASSUME`s
allow: finitely many threads, any capacities, calls, topics, connections,
messages and bounds.

* `PosixQueue_proofs`: `TypeCorrect`, `CountsExact`, `WakeupsDelivered`,
  `CapacityKept`, `DestructionSafe` and `Refinement`.  The inductive invariant
  `IInv` adds to the checked properties how far the destructor has come against
  where the threads can be (`DtorProgress`) and that only a call whose timeout
  allows it waits or expires (`WaitsAllowed`).  `NoLostWakeup` is inductive only
  with exact counts, since a broadcast is skipped when the count is 0, and the
  counts only with the types.  `DestructionSafe` assumes `~LateCallers`.  The
  refinement maps every step to one step of `BoundedFIFO` or to a stutter; the
  dispatcher's model stands on it.
* `ThreadPool_proofs`: `TypeCorrect` and `IdleCount`.  The invariant is
  `TypeOK /\ IdleExact`; the busy threads are a finite set that a start
  enlarges and a finish shrinks by one.
* `PubSub_proofs`: `TypeCorrect`, `MessagesAttended` (`NothingStranded`),
  `MessagesTakenOnce` (`MessageInOnePlace`), `GroupsServed`
  (`EveryGroupServed`) and `SinglePlaces` (`SingleTopicPlaced`).  The first
  three are inductive together with `TypeOK`, for which the pool's types are
  carried along.  `NothingStranded` is the argument that the code relies on:
  `publish` pushes before it submits, `try_pop` hands the task to the thread in
  one step, and a thread leaves `publishMsg` only in the step that finds the
  queue empty.  `EveryGroupServed` needs `WalksOK`: a walk has sent once
  for each group it has passed, and groups are only added behind it.
  `SingleTopicPlaced` needs `PlaceInv`: the groups that hold a connection of one
  topic are the one its group id names while it is subscribed (`Placed`), but
  for the moment when the loop has pushed a new group and not yet filled it
  (`FillOK`); nobody is in a group twice.
* `DispatchMsgService_proofs`: `ServiceTypes` (`TypeOK`), `Quiet`
  (`QuietWhenDown`), `OwnedOnce` (`EventOwnedOnce`) and `Delivered`
  (`DeliveredUnlessUnsubscribed`).  `Apart` strengthens the third: every event
  in the queue, in a call of `publish` or with the thread has been published and
  not deleted, and they all differ.  It needs only how the queue of
  `BoundedFIFO` hands events on, and nothing of `subscribers_`, which no lock
  guards.  `Delivered` needs `Aligned`: while the vector has lost no handler,
  those before the iterator are the ones called, in their order, and all that
  were due are still in it.
* `Reactor_proofs`: `ReactorTypes` (`TypeOK`), `TablesAlwaysAgree`
  (`TablesAgree`), `DescriptorsOwned` (`DescriptorOwned`) and `ReadsLive`
  (`ReadsLiveConnections`).  The four are one inductive invariant with
  `RoundDistinct`: a round has at most one event of each owner.  A connection
  that `HandleEmpty` closes is the owner of the event being handled, so that no
  later event of the round is its own; that, with descriptors that are freed
  only when nobody owns their Connection, keeps the tables together.
* `Services_proofs`: `AllOrNothing` (`WholeOrNothing`), `TablesAgreeing`
  (`SubscriptionsAgree`) and `AnswersOwn` (`OwnAnswers`).
  `AllOrNothing`: for the MySQL wrapper `CallUnderWay` says which statements are
  pending at each step of `Transaction`; the argument is that a session that serves a query inside a
  transaction is the one it began in (`SameSession`), because libmysql does not
  reconnect while the server said a transaction was open.  For the wire protocol
  the bytes of all commands are laid out as one stream (`StreamExists`).
  `FrameInv` gives the sender and the reader their places in it (`SenderAt`,
  `ReaderAt`) and says that the bytes in the reader's hands, in its buffer and
  on the wire are consecutive stretches of the stream (`Held`), which end where
  the sender is unless the connection was reset (`CellsAt`).  A read then only
  moves a boundary, and a part that is complete is what was serialized; that
  `deserialization` undoes `serialization` is `Deserialized`.  `Stopped` is the
  other disjunct: after the end of a cut connection one message may come that
  nobody sent, and no more.
  `TablesAgreeing` is inductive as `FanInv`: the fan-out broker's
  two maps say the same (`TablesMatch`), a connection registers with its first
  command (`RegistersFirst`), and what a subscriber believes of a topic is what
  its last command about it that is on the way says, or what the broker has, if
  there is none (`AllBelieved`).  `AnswersOwn` is `RequestInv`: a request has one
  socket (`OneSocket`); epoll, the events it has returned and the callback
  thread name a descriptor by the request whose socket it still is
  (`InterestOwn`, `EventsOwn`, `ThreadOwn`); and a request that can still be
  answered has not been (`Unanswered`).  For the Redis test, counted replies and
  open commands are never more than `TEST_CMD_COUNT` (`Counted`).
* `Containers_proofs`: `OrdersKept` (`OrderKept`) and `Remembered`
  (`ItemsRemembered`).
  `OrdersKept` is a refinement: each call of the queue or the stack is one step
  of `KeptOrder`, or changes nothing of it.  Its invariant says that there is a
  list of distinct cells, all that are allocated, along which `next` leads from
  `front` to `rear` (`Chain`), and that the used part of the array is within
  it (`StackInv`).  Two lists that follow the same links are equal
  (`SameLinks`), so that this one is what the model reads off the nodes
  (`ListIs`); then `push_queue` appends to it (`Pushed`), `pop_queue` takes its
  first (`Popped`), and the array that grows keeps its used part (`Stacked`).
  For the sorts `SortInv` says that the array with what is in hand put back
  (`Whole`) is another order of the one given, and where each algorithm stands.
  Shell sort: when the gap is 1 the first elements are in order but for the free
  place (`RunOpen`).  Quick sort: two elements out of order are both in the range
  of one call that is still to come (`Parted`), the ranges are disjoint
  (`Apart`), and no element before `i` is above the key and none behind `j`
  below it (`Split`); moving an element into the free place is a swap of
  `Whole` (`MoveHole`) within one range (`PartedSwap`).  Merge sort: each call is
  the half that its caller waits for (`Nested`), whose other half is in order if
  it is the second (`HalvesSorted`), and the merged elements are those of the
  two runs before `i` and `j` and not above what is left (`Merged`).
  `Remembered` needs `FilterInv`: the bits hold the items in the memory and, as
  of the last save, in the file, and while `cInitFlag` says that the bits are
  old no item counts.
* `SequenceLemmas`: what taking out, appending and looking up do to a sequence
  of any length, and that a set of numbers has a least element.  An induction
  over numbers, as for `StreamExists`, is done as a least counterexample.

The clients' numbers of requests, commands and statements are assumed positive,
as the constants in the source are; a command's strings hold no zero byte, since
`serialization` ends them with one and `deserialization` reads them as C
strings; a byte has a positive number of values and the buffer room for one.
A cell of memory is not at address 0, and the stack grows by `SIZE`, which is
positive.  What is sorted are integers.  The assumptions are in `MCPrograms`.

Only model-checked: everything about liveness; and the run `algorithms`.  What
the trees, searches and identifiers compute is defined by recursion over data
and stays with TLC; the sorts could be proved because their loops and calls are
steps.  That a sort ends is liveness and stays with TLC too.

## Findings

`PROJECT.json` lists them with their lines.  In short: calls that reach a
PosixQueue after `abort()` sleep on conditions about to be destroyed; unsubscribing during a dispatch skips a
handler; a second `init` may start a thread that ends at once; `publish` of the
dispatcher returns success and failure swapped; the broker's group id belongs to
a connection and not to a subscription; `send` divides by the size of an empty
group; a topic without subscribers keeps a thread spinning for ever; a broadcast
is sent only for a topic never seen before; the fan-out broker sends twice to
who comes back during a walk, and two threads mix their bytes on one connection;
the B-tree takes the wrong predecessor, loses a key and repeats another when it
borrows from a previous sibling, and uses a freed root; the binary tree
drops a subtree for an equal datum; the Bloom filter answers from old bits after
a lazy reset and keeps dangling pointers after a failed load; a transaction
leaves autocommit off, and `Execute` with a record set reports a write as
failed; the HTTP clients give the callback no host name and cut longer answers;
a signal between the test and the read is not seen; `uuid.lua` makes the variant
from the wrong byte; two of the sorts end without the return they promise; `cirqueue`'s mutex admits `num` threads.

## Not modelled

In the modelled components: a failing `pthread_*` or `new`; the read-only
queries of the queue, which nothing calls; what a torn `std::map` or `vector`
call does when another thread runs into the middle of it (each such call is one
step, or the end of what the model says); a `send` that blocks on a slow peer;
writing events, timers and the client's side of socketx; `~Server`, which no
program reaches while the loop runs; `unpublish`, which finds `channelMap_`
always empty; `EscapeString` and the cursor of a record set, which only call
libmysql; `readline`.

Whole parts: `rbtree.cpp`, an unfinished copy of `rbtreestd.cpp`; the ZeroMQ
file transfer, `zmq_kill_worker.c` and `zmq_poll.c`, which do not compile
(`int int main`, a full-width semicolon) and so have no behaviour; `cirqueue`
and its semaphores, which the multi-echo example alone uses; `init.lua`; the
decoding of events; the duty chain; the exception toys.

External, modelled from how the code uses them: the kernel's sockets,
descriptors and epoll, TCP, libmysql and its server, hiredis and its server,
ZeroMQ, and the peers and users of every program.

## Plan

1. PosixQueue over BoundedFIFO; DispatchMsgService on it; ThreadPool; PubSub
   with groups on it; Reactor.  **Done.**
2. The trees over KeySet, the containers over KeptOrder, sorts, searches, the
   Bloom filter and the identifiers.  **Done.**
3. FanOut, Framing, SqlConnection and the request clients.  **Done.**
4. Proofs of the safety invariants of the dispatcher, the pool, the broker with
   groups, the reactor, the fan-out broker, the clients, the transactions and
   the wire protocol.  **Done.**
5. Proofs that the list queue and the stack keep their order, that the sorts
   sort and that the Bloom filter remembers.  **Done.**
6. Left: the trees and searches, whose recursive operators would have to become
   steps, as those of the sorts have.
