---------------------------- MODULE MCAlgorithms ----------------------------
(* The searches of src/算法类/sort, the identifiers of uuid.lua and, from    *)
(* MCTrees, the trees: one of them in each behaviour.                        *)
EXTENDS MCTrees, Sequences
CONSTANTS Letters, MaxText, MaxPattern,
          Addresses, Seeds, bitsize
VARIABLES text, pattern, answers, drawn, hwaddr, uuid

matching == <<text, pattern, answers>>
ids == <<drawn, hwaddr, uuid>>

\* Every byte that is changed, with the bytes around it.
MCDrawn == { [i \in 1..16 |-> IF i = 7 THEN a ELSE IF i = 9 THEN b ELSE 3 * i] :
               a \in 0..255, b \in {0, 165} }

\* No address, one with separators, a longer one, and one that is too short.
MCAddresses == {<<>>, <<0, 1, 16, 2, 3, 16, 4, 5, 16, 6, 7, 16, 8, 9, 16, 10, 11>>,
                [i \in 1..14 |-> i], <<1, 2, 3>>}

MCSeeds == -20..40

Kmp == INSTANCE Matching
Uid == INSTANCE Uuid WITH Drawn <- MCDrawn

Init == /\ which \in Trees \union {"search", "uuid"}
        /\ InitTrees
        /\ IF which = "search" THEN Kmp!Init
           ELSE text = <<>> /\ pattern = <<>> /\ answers = <<>>
        /\ IF which = "uuid" THEN Uid!Init
           ELSE drawn = [i \in 1..16 |-> 0] /\ hwaddr = <<>> /\ uuid = <<>>

Next ==
  \/ NextTrees /\ UNCHANGED <<matching, ids>>
  \/ /\ which = "search" /\ Kmp!Search
     /\ UNCHANGED <<which, trees, ids>>
  \/ /\ which = "uuid" /\ Uid!New
     /\ UNCHANGED <<which, trees, matching>>

Spec == Init /\ [][Next]_<<which, trees, matching, ids>>
-----------------------------------------------------------------------------
\* Both searches find the first occurrence or none, with their different tables
\* and conventions (kmp.cpp, kmpversio2.cpp). An identifier is made of its
\* bytes and address as its truth tables and digits say (uuid.lua).
AnswersAgree ==
  /\ which = "search" => Kmp!FindsFirst
  /\ which = "uuid" => Uid!Identifies
=============================================================================
