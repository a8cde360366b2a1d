----------------------------- MODULE QueueCalls -----------------------------
(***************************************************************************)
(* The vocabulary of a call on a message queue of pubsub/MsgQueue.h: which *)
(* operation, with which timeout, on which item, and what it returns.  The *)
(* detailed queue (PosixQueue) and its abstraction (BoundedFIFO) share it. *)
(***************************************************************************)
EXTENDS Integers, Sequences

CONSTANTS Threads,   \* the threads that call enqueue, dequeue and peek
          Items,     \* the T* values handed to enqueue
          NoItem     \* the NULL item pointer

ASSUME NoItemAssumption == NoItem \notin Items

\* The timeout argument, in milliseconds: -1 waits for ever, 0 makes dequeue
\* and peek return at once, and 1 stands for every positive value.
Forever == -1
Timeouts == {Forever, 0, 1}

Pushing == {"enqueue"}
Popping == {"dequeue", "peek"}

AllCalls == [op : Pushing, timeout : Timeouts, item : Items]
              \cup [op : Popping, timeout : Timeouts, item : {NoItem}]

\* The call record of a thread that is in no operation of the queue.
NoCall == [op |-> "none", timeout |-> 0, item |-> NoItem]

\* What an operation returns: its int result and the item it hands out.
Results == [code : {0, -1}, item : Items \cup {NoItem}]
Success(i) == [code |-> 0, item |-> i]
Failure == [code |-> -1, item |-> NoItem]
=============================================================================
