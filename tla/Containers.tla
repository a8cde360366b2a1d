----------------------------- MODULE Containers -----------------------------
(* The linked queue of src/算法类/sort/listqueue.cpp and the growing array   *)
(* stack of stack.cpp. A queue node is a cell of memory, which malloc may    *)
(* hand out again after a free; 0 is NULL.                                   *)
EXTENDS Integers, SequencesExt
CONSTANTS Elements,     \* the keys put in
          Cells,        \* bound: the cells of memory, positive numbers
          SIZE,         \* by how much the stack grows
          MaxTop        \* bound: the elements in the stack
VARIABLES q,            \* the queue: front, rear, queue_size, its nodes
          s,            \* the stack: base, top, stack_size
          data          \* what the last pop handed out

containerVars == <<q, s, data>>

NoNode == [next |-> 0, key |-> 0]

init_queue == q' = [front |-> 0, rear |-> 0, queue_size |-> 0, node |-> <<>>]

\* A new node goes behind the rear, or becomes both ends.
push_queue(key) ==
  \E new \in Cells \ DOMAIN q.node :
    LET nodes == [c \in DOMAIN q.node \union {new} |->
                    IF c = new THEN [NoNode EXCEPT !.key = key]
                    ELSE IF c = q.rear THEN [q.node[c] EXCEPT !.next = new]
                    ELSE q.node[c]]
    IN  /\ q' = [front |-> IF q.rear = 0 THEN new ELSE q.front, rear |-> new,
                 queue_size |-> q.queue_size + 1, node |-> nodes]
        /\ UNCHANGED <<s, data>>

Freed(cell) == [c \in DOMAIN q.node \ {cell} |-> q.node[c]]

pop_queue ==
  /\ q.front # 0
  /\ data' = q.node[q.front].key
  /\ q' = [front |-> IF q.front = q.rear THEN 0 ELSE q.node[q.front].next,
           rear |-> IF q.front = q.rear THEN 0 ELSE q.rear,
           queue_size |-> q.queue_size - 1, node |-> Freed(q.front)]
  /\ UNCHANGED s

\* 0 for an empty queue, as main's loop expects.
empty_queue == IF q.rear = 0 THEN 0 ELSE 1

\* destory_queue frees the list; the queue is set up again before it is used.
destory_queue == init_queue /\ UNCHANGED <<s, data>>

\* Memory that has not been written holds any number; 0 stands for it.
initStack == s' = [base |-> [i \in 1..SIZE |-> 0], top |-> 0, stack_size |-> SIZE]

\* Wrong: the larger array is new memory, without the elements so far.
pushStackFresh(value) ==
  LET full == s.top >= s.stack_size
      grown == IF full THEN [i \in 1..(s.stack_size + SIZE) |-> 0] ELSE s.base
  IN  /\ s.top < MaxTop
      /\ s' = [base |-> [grown EXCEPT ![s.top + 1] = value], top |-> s.top + 1,
               stack_size |-> IF full THEN s.stack_size + SIZE ELSE s.stack_size]
      /\ UNCHANGED <<q, data>>

pushStack(value) ==
  LET full == s.top >= s.stack_size
      grown == IF full THEN s.base \o [i \in 1..SIZE |-> 0] ELSE s.base
  IN  /\ s.top < MaxTop
      /\ s' = [base |-> [grown EXCEPT ![s.top + 1] = value], top |-> s.top + 1,
               stack_size |-> IF full THEN s.stack_size + SIZE ELSE s.stack_size]
      /\ UNCHANGED <<q, data>>

\* An empty stack leaves *data as it was.
popStack ==
  /\ data' = IF s.top = 0 THEN data ELSE s.base[s.top]
  /\ s' = [s EXCEPT !.top = IF @ = 0 THEN 0 ELSE @ - 1]
  /\ UNCHANGED q

\* destroyStack, and initStack before the stack is used again.
destroyStack == initStack /\ UNCHANGED <<q, data>>

Init == /\ q = [front |-> 0, rear |-> 0, queue_size |-> 0, node |-> <<>>]
        /\ s = [base |-> [i \in 1..SIZE |-> 0], top |-> 0, stack_size |-> SIZE]
        /\ data = 0

QueueNext == (\E e \in Elements : push_queue(e)) \/ pop_queue \/ destory_queue

StackNext == (\E e \in Elements : pushStack(e)) \/ popStack \/ destroyStack

Next == QueueNext \/ StackNext

Spec == Init /\ [][Next]_containerVars
-----------------------------------------------------------------------------
\* The cells in the order of the list: from the front along next to NULL.
Linked(front, node, list) ==
  /\ front = IF list = <<>> THEN 0 ELSE list[1]
  /\ \A i \in DOMAIN list :
       node[list[i]].next = IF i = Len(list) THEN 0 ELSE list[i + 1]

ListFrom(front, node) ==
  CHOOSE list \in SeqOf(DOMAIN node, Cardinality(DOMAIN node)) :
    Linked(front, node, list)

List == ListFrom(q.front, q.node)

Queued == [i \in DOMAIN List |-> q.node[List[i]].key]

Stacked == SubSeq(s.base, 1, s.top)

\* Both ends, the size and the emptiness test agree with the linked nodes,
\* none of which is leaked; the stack's array has room for its top.
EndsAgree ==
  /\ q.queue_size = Len(List) /\ ToSet(List) = DOMAIN q.node
  /\ q.rear = IF List = <<>> THEN 0 ELSE Last(List)
  /\ (empty_queue = 0) <=> (List = <<>>)
  /\ s.top <= s.stack_size /\ s.stack_size = Len(s.base)
=============================================================================
