----------------------------- MODULE KeptOrder ------------------------------
(* What a queue and a stack promise: elements come out at one end in the     *)
(* order, or against the order, in which they went in.                       *)
EXTENDS Sequences, Integers
CONSTANTS Elements, FirstOut    \* the elements; TRUE for a queue
VARIABLES items,                \* the elements inside, the oldest first
          out                   \* the element taken out last

Init == items = <<>>

Put(e) == items' = Append(items, e) /\ out' = out

Take ==
  /\ items # <<>>
  /\ IF FirstOut
     THEN out' = Head(items) /\ items' = Tail(items)
     ELSE out' = items[Len(items)] /\ items' = SubSeq(items, 1, Len(items) - 1)

\* The container is destroyed and set up again.
Clear == items' = <<>> /\ out' = out

Next == (\E e \in Elements : Put(e)) \/ Take \/ Clear

Spec == Init /\ [][Next]_<<items, out>>
=============================================================================
