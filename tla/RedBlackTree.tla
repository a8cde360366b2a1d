---------------------------- MODULE RedBlackTree ----------------------------
(* The red-black tree of src/算法类/Tree/rbtreestd.cpp: nodes linked three   *)
(* ways around one shared nil node, insertion, deletion and their fix-ups.   *)
(* A node is known by its key, so the copy of a key into another node        *)
(* (z->key = y->key) gives that node its new name everywhere.                *)
EXTENDS Integers, Sequences, FiniteSets
CONSTANTS Keys,         \* the keys a program inserts and deletes
          Nil           \* T->nil, the leaf that all nodes share
VARIABLE tree           \* *T: the root and the nodes' fields

Unlinked == [color |-> "black", left |-> Nil, right |-> Nil, parent |-> Nil]

Other(side) == IF side = "left" THEN "right" ELSE "left"

Init == tree = [root |-> Nil, node |-> [n \in Keys \union {Nil} |-> Unlinked]]

RECURSIVE Extreme(_, _, _)
Extreme(t, x, side) ==
  IF t.node[x][side] = Nil THEN x ELSE Extreme(t, t.node[x][side], side)

\* The first ancestor y that the path from x enters through its left link.
RECURSIVE Climb(_, _, _)
Climb(t, x, y) ==
  IF y # Nil /\ x = t.node[y].right THEN Climb(t, y, t.node[y].parent) ELSE y

\* Wrong successor: without a right subtree it is the parent.
SuccessorParent(t, x) ==
  IF t.node[x].right # Nil
  THEN Extreme(t, t.node[x].right, "left")
  ELSE t.node[x].parent

Successor(t, x) ==
  IF t.node[x].right # Nil
  THEN Extreme(t, t.node[x].right, "left")
  ELSE Climb(t, x, t.node[x].parent)

RECURSIVE SearchFrom(_, _, _)
SearchFrom(t, n, k) ==
  IF n = Nil \/ n = k THEN n
  ELSE SearchFrom(t, t.node[n][IF k < n THEN "left" ELSE "right"], k)

RECURSIVE Traversal(_, _)
Traversal(t, n) ==
  IF n = Nil THEN <<>>
  ELSE Traversal(t, t.node[n].left) \o <<n>> \o Traversal(t, t.node[n].right)

SideOf(t, x) == IF x = t.node[t.node[x].parent].left THEN "left" ELSE "right"

\* x's place below its parent is given to y.
Replace(t, x, y) ==
  LET p == t.node[x].parent
  IN  IF p = Nil
      THEN [t EXCEPT !.root = y]
      ELSE [t EXCEPT !.node[p][SideOf(t, x)] = y]

\* Left and right rotation are one: x goes down on the side named.
Rotate(t, x, side) ==
  LET y == t.node[x][Other(side)]
      c == t.node[y][side]
  IN  [Replace(t, x, y) EXCEPT !.node[x][Other(side)] = c,
                               !.node[c].parent = IF c # Nil THEN x ELSE @,
                               !.node[y].parent = t.node[x].parent,
                               !.node[y][side] = x,
                               !.node[x].parent = y]

Paint(t, n, c) == [t EXCEPT !.node[n].color = c]

IsRed(t, n) == t.node[n].color = "red"

\* A wrong fix-up: it forgets the inner-child case.
RECURSIVE InsertFixupOuterOnly(_, _)
InsertFixupOuterOnly(t, z) ==
  LET p == t.node[z].parent
      g == t.node[p].parent
      uncle == t.node[g][Other(SideOf(t, p))]
  IN  IF ~IsRed(t, p) THEN Paint(t, t.root, "black")
      ELSE IF IsRed(t, uncle)
      THEN InsertFixupOuterOnly(
             Paint(Paint(Paint(t, p, "black"), uncle, "black"), g, "red"), g)
      ELSE Rotate(Paint(Paint(t, p, "black"), g, "red"), g, Other(SideOf(t, p)))
\* Recolour a red uncle and go on at the grandparent; turn an inner child
\* outwards; rotate the grandparent away from the side of the red pair.
RECURSIVE InsertFixup(_, _)
InsertFixup(t, z) ==
  LET p == t.node[z].parent
      g == t.node[p].parent
      side == SideOf(t, p)
      uncle == t.node[g][Other(side)]
      inner == z = t.node[p][Other(side)]
      t1 == IF inner THEN Rotate(t, p, side) ELSE t
      z1 == IF inner THEN p ELSE z
      p1 == t1.node[z1].parent
      g1 == t1.node[p1].parent
  IN  IF ~IsRed(t, p) THEN Paint(t, t.root, "black")
      ELSE IF IsRed(t, uncle)
      THEN InsertFixup(
             Paint(Paint(Paint(t, p, "black"), uncle, "black"), g, "red"), g)
      ELSE InsertFixup(
             Rotate(Paint(Paint(t1, p1, "black"), g1, "red"), g1, Other(side)), z1)

\* The node that a descent for k ends at.
RECURSIVE Descend(_, _, _)
Descend(t, n, k) ==
  LET next == t.node[n][IF k < n THEN "left" ELSE "right"]
  IN  IF n = k \/ next = Nil THEN n ELSE Descend(t, next, k)

Insert(k) ==
  LET y == IF tree.root = Nil THEN Nil ELSE Descend(tree, tree.root, k)
      z == [color |-> "red", left |-> Nil, right |-> Nil, parent |-> y]
      linked == [tree EXCEPT !.node[k] = z]
      t == IF y = Nil
           THEN [linked EXCEPT !.root = k]
           ELSE [linked EXCEPT !.node[y][IF k < y THEN "left" ELSE "right"] = k]
  IN  tree' = IF y = k THEN tree ELSE InsertFixup(t, k)

\* x lacks one black: take it from a red sibling's turn, from the sibling, or
\* from the sibling's red child.
RECURSIVE DeleteFixup(_, _)
DeleteFixup(t, x) ==
  LET p == t.node[x].parent
      side == SideOf(t, x)
      far == Other(side)
      w == t.node[p][far]
      t1 == IF IsRed(t, w)
            THEN Rotate(Paint(Paint(t, w, "black"), p, "red"), p, side)
            ELSE t
      w1 == t1.node[p][far]
      near1 == t1.node[w1][side]
      t2 == IF IsRed(t1, t1.node[w1][far]) THEN t1
            ELSE Rotate(Paint(Paint(t1, near1, "black"), w1, "red"), w1, far)
      w2 == t2.node[p][far]
      t3 == Paint(Paint(Paint(t2, w2, t2.node[p].color), p, "black"),
                  t2.node[w2][far], "black")
      t4 == Rotate(t3, p, side)
  IN  IF x = t.root \/ IsRed(t, x) THEN Paint(t, x, "black")
      ELSE IF ~IsRed(t1, near1) /\ ~IsRed(t1, t1.node[w1][far])
      THEN DeleteFixup(Paint(t1, w1, "red"), p)
      ELSE DeleteFixup(t4, t4.root)

\* Node z takes the key of node y, which has been unlinked.
TakeKey(t, z, y) ==
  LET named(n) == IF n = z THEN y ELSE n
      moved(n) == LET o == t.node[IF n = y THEN z ELSE n]
                  IN  [o EXCEPT !.left = named(@), !.right = named(@),
                                !.parent = named(@)]
  IN  [root |-> named(t.root),
       node |-> [n \in DOMAIN t.node |-> IF n = z THEN Unlinked ELSE moved(n)]]

\* What is spliced out is z, or its successor, whose key z then takes. The
\* node that moves up is given its parent even when it is the shared nil.
DeleteNode(t, z) ==
  LET y == IF t.node[z].left = Nil \/ t.node[z].right = Nil
           THEN z ELSE Successor(t, z)
      x == IF t.node[y].left # Nil THEN t.node[y].left ELSE t.node[y].right
      spliced == [Replace(t, y, x) EXCEPT !.node[x].parent = t.node[y].parent]
      renamed == IF y = z THEN [spliced EXCEPT !.node[z] = Unlinked]
                 ELSE TakeKey(spliced, z, y)
  IN  IF IsRed(t, y) THEN renamed ELSE DeleteFixup(renamed, x)

\* main deletes what a search has found.
Delete(k) ==
  /\ SearchFrom(tree, tree.root, k) = k
  /\ tree' = DeleteNode(tree, k)

Next == \E k \in Keys : Insert(k) \/ Delete(k)

Spec == Init /\ [][Next]_tree
-----------------------------------------------------------------------------
\* The keys that a search finds.
Found == { k \in Keys : SearchFrom(tree, tree.root, k) = k }

\* The number of black nodes on every path down from n, or -1.
RECURSIVE BlackHeight(_, _)
BlackHeight(t, n) ==
  LET l == BlackHeight(t, t.node[n].left)
  IN  IF n = Nil THEN 0
      ELSE IF l = -1 \/ l # BlackHeight(t, t.node[n].right) THEN -1
      ELSE l + (IF IsRed(t, n) THEN 0 ELSE 1)

\* Root and nil are black, no red node has a red child, every path has the
\* same number of black nodes, and every link down is answered by one up.
RedBlack ==
  /\ ~IsRed(tree, tree.root) /\ ~IsRed(tree, Nil)
  /\ BlackHeight(tree, tree.root) # -1
  /\ tree.root # Nil => tree.node[tree.root].parent = Nil
  /\ \A n \in Found, side \in {"left", "right"} :
       LET c == tree.node[n][side]
       IN  c # Nil => /\ tree.node[c].parent = n
                      /\ ~(IsRed(tree, n) /\ IsRed(tree, c))

\* A traversal meets the keys in ascending order, and so does a walk with
\* rbtree_successor from the smallest key to the largest.
InOrder ==
  LET walk == Traversal(tree, tree.root)
      n == Len(walk)
  IN  /\ \A i \in 1..n - 1 : walk[i] < walk[i + 1]
      /\ \A i \in 1..n : Successor(tree, walk[i]) = IF i = n THEN Nil ELSE walk[i + 1]
      /\ n > 0 => /\ Extreme(tree, tree.root, "left") = walk[1]
                  /\ Extreme(tree, tree.root, "right") = walk[n]
=============================================================================
