------------------------------- MODULE BTree --------------------------------
(* The B-tree of src/算法类/Tree/btree.c, of keys that are not inserted while*)
(* they are there: a full node is split on the way down of an insertion, a   *)
(* node with the fewest keys is filled up on the way down of a deletion. A   *)
(* node is its keys and its children, so key i separates child i from child  *)
(* i + 1. What deletions do to keys that are not theirs is kept as it is: see*)
(* Lost and Misplaces.                                                       *)
EXTENDS Integers, SequencesExt
CONSTANTS Keys,         \* the keys a program inserts and deletes
          T             \* the degree: a node has at most 2T - 1 keys
VARIABLES root,         \* T->root: <<>> for NULL, <<node>> otherwise
          broken        \* a freed or NULL node has been used

btreeVars == <<root, broken>>

Leaf(keys) == [keys |-> keys, kids |-> <<>>]

IsLeaf(x) == x.kids = <<>>

NumKeys(x) == Len(x.keys)

Init == root = <<Leaf(<<>>)>> /\ broken = FALSE

\* The keys a..b of a node and, if it has any, the children around them.
Piece(y, a, b) == [keys |-> SubSeq(y.keys, a, b),
                   kids |-> IF IsLeaf(y) THEN <<>> ELSE SubSeq(y.kids, a, b + 1)]

SplitChild(x, i) ==
  LET y == x.kids[i]
  IN  [keys |-> InsertAt(x.keys, i, y.keys[T]),
       kids |-> InsertAt(ReplaceAt(x.kids, i, Piece(y, 1, T - 1)), i + 1,
                         Piece(y, T + 1, 2 * T - 1))]

\* Insertion looks for its place from the last key down.
PlaceFor(x, k) == 1 + Max({ j \in 1..NumKeys(x) : x.keys[j] <= k } \union {0})

RECURSIVE InsertNonfull(_, _)
InsertNonfull(x, k) ==
  LET i == PlaceFor(x, k)
      full == NumKeys(x.kids[i]) = 2 * T - 1
      x1 == IF full THEN SplitChild(x, i) ELSE x
      j == IF full /\ k > x1.keys[i] THEN i + 1 ELSE i
  IN  IF IsLeaf(x)
      THEN Leaf(InsertAt(x.keys, i, k))
      ELSE [x1 EXCEPT !.kids[j] = InsertNonfull(@, k)]

\* The keys of a subtree from the i-th child on, as btree_traverse prints
\* them.
RECURSIVE TraverseFrom(_, _)
TraverseFrom(x, i) ==
  (IF IsLeaf(x) THEN <<>> ELSE TraverseFrom(x.kids[i], 1)) \o
  (IF i > NumKeys(x) THEN <<>> ELSE <<x.keys[i]>> \o TraverseFrom(x, i + 1))

Traverse(x) == TraverseFrom(x, 1)

\* The keys of a tree with their repetitions, and those in the tree.
List(tree) == IF tree = <<>> THEN <<>> ELSE Traverse(tree[1])

Stored == ToSet(List(root))

\* A full root gets a new root above it.
Inserted(tree, k) ==
  LET above == [keys |-> <<>>, kids |-> tree]
      full == NumKeys(tree[1]) = 2 * T - 1
  IN  <<InsertNonfull(IF full THEN SplitChild(above, 1) ELSE tree[1], k)>>

\* btree_delete sets T->root to NULL with the last key, and btree_insert
\* reads the root's num all the same.
Insert(k) ==
  /\ ~broken
  /\ IF root = <<>>
     THEN broken' = TRUE /\ UNCHANGED root
     ELSE root' = Inserted(root, k) /\ UNCHANGED broken

\* Wrong merge: the key between the children is dropped.
MergeKeyless(x, i) ==
  LET l == x.kids[i]
      r == x.kids[i + 1]
      merged == [keys |-> l.keys \o r.keys, kids |-> l.kids \o r.kids]
  IN  [keys |-> RemoveAt(x.keys, i),
       kids |-> ReplaceAt(RemoveAt(x.kids, i + 1), i, merged)]

\* Child i, key i and child i + 1 become one child.
Merge(x, i) ==
  LET l == x.kids[i]
      r == x.kids[i + 1]
      merged == [keys |-> l.keys \o <<x.keys[i]>> \o r.keys, kids |-> l.kids \o r.kids]
  IN  [keys |-> RemoveAt(x.keys, i),
       kids |-> ReplaceAt(RemoveAt(x.kids, i + 1), i, merged)]

BorrowNext(x, i) ==
  LET r == x.kids[i + 1]
      moved == IF IsLeaf(r) THEN <<>> ELSE <<Head(r.kids)>>
  IN  [x EXCEPT !.keys[i] = Head(r.keys),
                !.kids[i] = [keys |-> Append(@.keys, x.keys[i]),
                             kids |-> @.kids \o moved],
                !.kids[i + 1] = Piece(r, 2, NumKeys(r))]

\* The last child of the previous sibling moves with a copy of the separator,
\* which stays; the sibling's last key goes nowhere.
BorrowPrev(x, i) ==
  LET l == x.kids[i - 1]
      moved == IF IsLeaf(l) THEN <<>> ELSE <<Last(l.kids)>>
  IN  [x EXCEPT !.kids[i] = [keys |-> <<x.keys[i - 1]>> \o @.keys,
                             kids |-> moved \o @.kids],
                !.kids[i - 1] = Piece(l, 1, NumKeys(l) - 1)]

Rich(x, i) == i \in 1..Len(x.kids) /\ NumKeys(x.kids[i]) >= T

\* The richer neighbour is borrowed from, the next one only if it has more
\* keys.
BorrowsNext(x, i) ==
  ~Rich(x, i) /\ Rich(x, i + 1) /\
    (i = 1 \/ NumKeys(x.kids[i + 1]) > NumKeys(x.kids[i - 1]))

BorrowsPrev(x, i) == ~Rich(x, i) /\ Rich(x, i - 1) /\ ~BorrowsNext(x, i)

\* Without a rich neighbour the child is merged, with the previous one when
\* there is one. The result is the node and the child to go down to.
FillChild(x, i) ==
  IF Rich(x, i) THEN <<x, i>>
  ELSE IF BorrowsNext(x, i) THEN <<BorrowNext(x, i), i>>
  ELSE IF BorrowsPrev(x, i) THEN <<BorrowPrev(x, i), i>>
  ELSE IF i > 1 THEN <<Merge(x, i - 1), i - 1>>
  ELSE <<Merge(x, i), i>>

\* Deletion looks for its key from the first key up.
Position(x, k) ==
  Min({ j \in 1..NumKeys(x) : x.keys[j] >= k } \union {NumKeys(x) + 1})

Holds(x, k) ==
  LET i == Position(x, k) IN i <= NumKeys(x) /\ x.keys[i] = k

\* What a deletion does to the inner node x: the node, the child it goes down
\* to, and the key it deletes there. A key in an inner node is replaced by the
\* last key of the child before it, or the first key of the child after it.
Descend(x, k) ==
  LET i == Position(x, k)
      filled == FillChild(x, i)
      prev == Last(x.kids[i].keys)
      next == Head(x.kids[i + 1].keys)
      Down(y, j, key) == [node |-> y, child |-> j, key |-> key]
  IN  IF ~Holds(x, k) THEN Down(filled[1], filled[2], k)
      ELSE IF Rich(x, i) THEN Down([x EXCEPT !.keys[i] = prev], i, prev)
      ELSE IF Rich(x, i + 1) THEN Down([x EXCEPT !.keys[i] = next], i + 1, next)
      ELSE Down(Merge(x, i), i, k)

RECURSIVE DeleteKey(_, _)
DeleteKey(x, k) ==
  LET d == Descend(x, k)
  IN  IF ~IsLeaf(x) THEN [d.node EXCEPT !.kids[d.child] = DeleteKey(@, d.key)]
      ELSE IF Holds(x, k) THEN Leaf(RemoveAt(x.keys, Position(x, k)))
      ELSE x

\* A root left without keys is freed, and its only child follows it.
Collapse(x) == IF x.keys = <<>> THEN x.kids ELSE <<x>>

Deleted(tree, k) == Collapse(DeleteKey(tree[1], k))

\* The root's only key is deleted and both children have the fewest keys:
\* btree_merge frees the root, whose children are read next.
ReadsFreedRoot(x, k) ==
  x.keys = <<k>> /\ ~IsLeaf(x) /\ ~Rich(x, 1) /\ ~Rich(x, 2)

Delete(k) ==
  /\ ~broken /\ root # <<>>
  /\ IF ReadsFreedRoot(root[1], k)
     THEN broken' = TRUE /\ UNCHANGED root
     ELSE root' = Deleted(root, k) /\ UNCHANGED broken

Next == \/ \E k \in Keys \ Stored : Insert(k)
        \/ \E k \in Keys : Delete(k)

Spec == Init /\ [][Next]_btreeVars
-----------------------------------------------------------------------------
\* btree_bin_search, which nothing calls: positions count from 0.
RECURSIVE BinSearchBetween(_, _, _, _)
BinSearchBetween(keys, low, high, k) ==
  LET mid == (low + high) \div 2
  IN  IF low > high THEN low
      ELSE IF k > keys[mid + 1] THEN BinSearchBetween(keys, mid + 1, high, k)
      ELSE BinSearchBetween(keys, low, mid - 1, k)

BinSearch(keys, low, high, k) ==
  IF low > high \/ low < 0 \/ high < 0 THEN -1
  ELSE BinSearchBetween(keys, low, high, k)
-----------------------------------------------------------------------------
\* Levels below a node whose leaves are all at one depth, or -1.
RECURSIVE Depth(_)
Depth(x) ==
  LET below == { Depth(x.kids[i]) : i \in 1..Len(x.kids) }
  IN  IF IsLeaf(x) THEN 0
      ELSE IF Cardinality(below) = 1 /\ -1 \notin below THEN 1 + Max(below) ELSE -1

RECURSIVE Filled(_, _)
Filled(x, least) ==
  /\ NumKeys(x) \in least..2 * T - 1
  /\ IsLeaf(x) \/ Len(x.kids) = NumKeys(x) + 1
  /\ \A i \in 1..Len(x.kids) : Filled(x.kids[i], T - 1)

\* Every node but the root has T - 1 to 2T - 1 keys, and the leaves are at
\* one depth.
Shape == root # <<>> => Filled(root[1], 0) /\ Depth(root[1]) # -1

Sorted(s) == \A i \in 1..Len(s) - 1 : s[i] <= s[i + 1]

Distinct(s) == \A i \in 1..Len(s) - 1 : s[i] < s[i + 1]

\* A binary search in the root finds the place deletion finds.
SearchesAgree ==
  root # <<>> => LET x == root[1]
                 IN  x.keys # <<>> /\ Sorted(x.keys) => \A k \in Keys :
                       BinSearch(x.keys, 0, NumKeys(x) - 1, k) = Position(x, k) - 1

\* The nodes on the way of a deletion, each with the key it looks for there.
RECURSIVE Way(_, _)
Way(x, k) ==
  LET d == Descend(x, k)
  IN  <<[node |-> x, key |-> k]>> \o
      (IF IsLeaf(x) THEN <<>> ELSE Way(d.node.kids[d.child], d.key))

Borrows(v) ==
  /\ ~IsLeaf(v.node) /\ ~Holds(v.node, v.key)
  /\ BorrowsPrev(v.node, Position(v.node, v.key))

\* The keys that a deletion loses with its own, and those it repeats: the last
\* keys and the separators of the previous siblings it borrows from.
Lost(x, k) ==
  LET Key(v) == Last(v.node.kids[Position(v.node, v.key) - 1].keys)
      way == SelectSeq(Way(x, k), Borrows)
  IN  [i \in DOMAIN way |-> Key(way[i])]

Repeated(x, k) ==
  LET Key(v) == v.node.keys[Position(v.node, v.key) - 1]
      way == SelectSeq(Way(x, k), Borrows)
  IN  [i \in DOMAIN way |-> Key(way[i])]

\* Two levels above the leaves or more, a deletion takes a substitute that is
\* not its key's neighbour, or moves a child across a separator that stays.
Misplaces(x, k) ==
  \E v \in ToSet(Way(x, k)) :
    LET i == Position(v.node, v.key)
    IN  /\ ~IsLeaf(v.node) /\ ~IsLeaf(v.node.kids[1])
        /\ \/ Borrows(v)
           \/ Holds(v.node, v.key) /\ (Rich(v.node, i) \/ Rich(v.node, i + 1))

\* The keys that can be inserted or deleted now.
Insertable == IF broken \/ root = <<>> THEN {} ELSE Keys \ Stored
Deletable == IF broken \/ root = <<>> THEN {} ELSE { k \in Keys : ~ReadsFreedRoot(root[1], k) }

\* Insertions keep the order, and so do deletions but for those that misplace
\* keys. Each of these destroys the order of distinct keys, and each borrow
\* from a previous sibling makes a key that is not.
KeepsOrder ==
  /\ Sorted(List(root)) => \A k \in Insertable : Sorted(List(Inserted(root, k)))
  /\ \A k \in Deletable :
       LET misplaces == Misplaces(root[1], k)
           after == List(Deleted(root, k))
       IN  /\ Sorted(List(root)) /\ ~misplaces => Sorted(after)
           /\ Distinct(List(root)) =>
                /\ Sorted(after) <=> ~misplaces
                /\ Distinct(after) <=> ~misplaces /\ Lost(root[1], k) = <<>>

Copies(s, k) == Cardinality({ i \in DOMAIN s : s[i] = k })

\* An insertion adds its key. A deletion takes one copy of its own, loses a
\* key for every borrow from a previous sibling and repeats another: no split,
\* merge, substitution or borrow from a next sibling changes what is stored.
KeepsKeys ==
  /\ \A k \in Insertable, j \in Keys :
       Copies(List(Inserted(root, k)), j) = Copies(List(root), j) + (IF j = k THEN 1 ELSE 0)
  /\ Sorted(List(root)) => \A k \in Deletable :
       LET before == List(root) \o Repeated(root[1], k)
           after == List(Deleted(root, k)) \o Lost(root[1], k) \o
                    (IF k \in Stored THEN <<k>> ELSE <<>>)
       IN  \A j \in Keys : Copies(before, j) = Copies(after, j)

\* While the order holds a deletion comes to its key.
Findable ==
  Sorted(List(root)) => \A k \in Stored :
    \E v \in ToSet(Way(root[1], k)) : v.key = k /\ Holds(v.node, k)
=============================================================================
