---------------------------- MODULE BoundedFIFO -----------------------------
(***************************************************************************)
(* What the message queue of pubsub/MsgQueue.h promises its callers, with  *)
(* no mutex, condition variable or waiting count: every call takes effect  *)
(* at one instant between its start and its return, items leave in the     *)
(* order they entered, a failed call leaves the queue as it was, and a     *)
(* call fails only for a reason its timeout allows.                        *)
(***************************************************************************)
EXTENDS QueueCalls

VARIABLES capacity,  \* the bound on Len(contents), 0 for none
          contents,  \* the queued items, oldest first
          closing,   \* whether the queue is being destroyed
          call,      \* per thread, the call it is in, or NoCall
          ret        \* per thread, what its last call returned

vars == <<capacity, contents, closing, call, ret>>

HasRoom == capacity = 0 \/ Len(contents) < capacity

Init ==
  /\ capacity \in Nat
  /\ contents = << >>
  /\ closing = FALSE
  /\ call = [t \in Threads |-> NoCall]
  /\ ret = [t \in Threads |-> Failure]

Invoke(t) ==
  /\ call[t] = NoCall
  /\ \E c \in AllCalls : call' = [call EXCEPT ![t] = c]
  /\ UNCHANGED <<capacity, contents, closing, ret>>

Return(t, r) ==
  /\ call' = [call EXCEPT ![t] = NoCall]
  /\ ret' = [ret EXCEPT ![t] = r]
  /\ UNCHANGED <<capacity, closing>>

Put(t) ==
  /\ call[t].op = "enqueue"
  /\ HasRoom
  /\ contents' = Append(contents, call[t].item)
  /\ Return(t, Success(NoItem))

Take(t) ==
  /\ call[t].op = "dequeue"
  /\ contents # << >>
  /\ contents' = Tail(contents)
  /\ Return(t, Success(Head(contents)))

Look(t) ==
  /\ call[t].op = "peek"
  /\ contents # << >>
  /\ UNCHANGED contents
  /\ Return(t, Success(Head(contents)))

\* A call that was asked to wait for ever fails only while the queue closes;
\* a dequeue or peek that was asked not to wait fails only on an empty queue.
Refuse(t) ==
  /\ call[t] # NoCall
  /\ call[t].timeout = Forever => closing
  /\ call[t].op \in Popping /\ call[t].timeout = 0 => contents = << >>
  /\ UNCHANGED contents
  /\ Return(t, Failure)

Close ==
  /\ closing' = TRUE
  /\ contents' \in {contents, << >>}
  /\ UNCHANGED <<capacity, call, ret>>

Next ==
  \/ \E t \in Threads : Invoke(t) \/ Put(t) \/ Take(t) \/ Look(t) \/ Refuse(t)
  \/ Close

Spec == Init /\ [][Next]_vars
=============================================================================
