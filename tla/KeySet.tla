------------------------------- MODULE KeySet -------------------------------
(* What a search tree of src/算法类/Tree promises: a set of keys that an    *)
(* insertion enlarges by its key and a deletion makes smaller by its own.    *)
CONSTANT Keys           \* the keys a program uses
VARIABLE contents       \* the keys in the tree

Init == contents = {}

Insert(k) == contents' = contents \union {k}

Delete(k) == contents' = contents \ {k}

Next == \E k \in Keys : Insert(k) \/ Delete(k)

Spec == Init /\ [][Next]_contents
=============================================================================
