------------------------------ MODULE MCTrees -------------------------------
(* The trees of src/算法类/Tree, one in each behaviour: the programs that    *)
(* use them have nothing in common but what they promise.                    *)
EXTENDS Integers, Sequences, FiniteSets
CONSTANTS RBKeys, BTKeys, BSTKeys, Nil, T, MaxInserts,
          LowKeys,      \* the keys of a B-tree used in any order
          Tall          \* keys in a B-tree with three levels
VARIABLES which,        \* the program of this behaviour
          tree, root, broken, bst, inserted

trees == <<tree, root, broken, bst, inserted>>

RB == INSTANCE RedBlackTree WITH Keys <- RBKeys
BT == INSTANCE BTree WITH Keys <- BTKeys
BST == INSTANCE BinaryTree WITH Keys <- BSTKeys

Trees == {"red-black tree", "B-tree", "tall B-tree", "binary tree"}

InitTrees == RB!Init /\ BT!Init /\ BST!Init

\* One B-tree takes a few keys in any order and goes on whatever becomes of
\* them, with at most so many together with their repetitions. The tall one is
\* filled in ascending order, as main does, and then loses and regains a few
\* keys, until one is there twice or out of order.
NextTrees ==
  \/ /\ which = "red-black tree" /\ RB!Next
     /\ UNCHANGED <<which, root, broken, bst, inserted>>
  \/ /\ which \in {"B-tree", "tall B-tree"} /\ BT!Next
     /\ LET keys == BT!Stored'
            n == Len(BT!List(root'))
        IN  IF which = "B-tree"
            THEN keys \subseteq LowKeys /\ n <= Cardinality(LowKeys)
            ELSE BT!Distinct(BT!List(root)) /\ (keys = 1..n \/ n >= Tall)
     /\ UNCHANGED <<which, tree, bst, inserted>>
  \/ /\ which = "binary tree" /\ BST!Next
     /\ UNCHANGED <<which, tree, root, broken>>

Abstract == INSTANCE KeySet WITH Keys <- RBKeys, contents <- RB!Found
-----------------------------------------------------------------------------
\* The fix-ups keep the red-black tree balanced, whatever is inserted and
\* deleted: colours, black heights and parent links (rbtreestd.cpp:98, :178).
\* Splits, borrows and merges keep the B-tree's fill and depth (btree.c:55,
\* :200, :301), out of order or not, as long as no freed root is used.
Balanced == RB!RedBlack /\ BT!Shape

\* Traversals of the red-black and the binary tree are in order, and successor,
\* minimum and maximum agree with them. In the B-tree the order is lost by the
\* deletions that replace a key from a child that is no leaf or move a child
\* from a previous sibling, by all of them as long as the keys are distinct and
\* by nothing else; a key is there twice only after a borrow from a previous
\* sibling (btree.c:263-275, :324-338). A binary search agrees with deletion's.
Ordered == RB!InOrder /\ BST!InOrder /\ BT!KeepsOrder /\ BT!SearchesAgree

\* The red-black tree is a set of keys: no rotation loses or adds one. The
\* B-tree finds every key while its order holds, and an operation changes the
\* copies of no key but its own, those that borrows from previous siblings lose
\* and those they repeat (btree.c:333-336). The binary tree loses nothing for a
\* new datum, and only greater ones for an equal one (binarytree.cpp:68).
KeysKept ==
  /\ Abstract!Spec
  /\ [](BT!Findable /\ BT!KeepsKeys)
  /\ []BST!KeepsData

\* The text that showTree prints is read by createTree as the same tree, and
\* findNode and highTree say of it what the text says (binarytree1.cpp).
RoundTrip == BST!RoundTrip
=============================================================================
