----------------------------- MODULE BinaryTree -----------------------------
(* The search tree of src/算法类/Tree/binarytree.cpp, which only grows, and  *)
(* the text form A(B(C,D),E) that binarytree1.cpp reads and shows. A tree is *)
(* <<>> or one node with its two subtrees.                                   *)
EXTENDS Integers, SequencesExt
CONSTANTS Keys,         \* the data a program inserts
          MaxInserts    \* bound: insertions in a run
VARIABLES bst,          \* tree->root
          inserted      \* the data inserted so far

binaryVars == <<bst, inserted>>

createNode(d) == <<[data |-> d, left |-> <<>>, right |-> <<>>]>>

Init == bst = <<>> /\ inserted = <<>>

\* An equal key sends the search to the left, but the node it ends at takes
\* the new one on its right, in place of what is there.
RECURSIVE insertNode(_, _)
insertNode(tree, d) ==
  LET node == tree[1]
      side == IF node.data < d THEN "right" ELSE "left"
      place == IF node.data > d THEN "left" ELSE "right"
  IN  IF tree = <<>> THEN createNode(d)
      ELSE IF node[side] # <<>>
      THEN <<[node EXCEPT ![side] = insertNode(@, d)]>>
      ELSE <<[node EXCEPT ![place] = createNode(d)]>>

Insert(d) ==
  /\ Len(inserted) < MaxInserts
  /\ bst' = insertNode(bst, d)
  /\ inserted' = Append(inserted, d)

Next == \E d \in Keys : Insert(d)

Spec == Init /\ [][Next]_binaryVars
-----------------------------------------------------------------------------
RECURSIVE Travalsal(_)
Travalsal(tree) ==
  IF tree = <<>> THEN <<>>
  ELSE Travalsal(tree[1].left) \o <<tree[1].data>> \o Travalsal(tree[1].right)

\* The text of a tree is a sequence of data and of these marks.
Open == -1      \* "("
Comma == -2     \* ","
Close == -3     \* ")"

\* Wrong text: the comma is left out when there is no left subtree.
RECURSIVE showTreeUnmarked(_)
showTreeUnmarked(tree) ==
  LET l == showTreeUnmarked(tree[1].left)
      r == showTreeUnmarked(tree[1].right)
      both == IF l = <<>> THEN r ELSE IF r = <<>> THEN l ELSE l \o <<Comma>> \o r
  IN  IF tree = <<>> THEN <<>>
      ELSE <<tree[1].data>> \o (IF both = <<>> THEN both ELSE <<Open>> \o both \o <<Close>>)

RECURSIVE showTree(_)
showTree(tree) ==
  LET l == tree[1].left
      r == tree[1].right
      rest == IF r = <<>> THEN <<>> ELSE <<Comma>> \o showTree(r)
  IN  IF tree = <<>> THEN <<>>
      ELSE IF l = <<>> /\ r = <<>> THEN <<tree[1].data>>
      ELSE <<tree[1].data, Open>> \o showTree(l) \o rest \o <<Close>>

\* One character of createTree: nodes are numbered as they are allocated, 0
\* is NULL, s.p the last of them, s.k the link that the next one goes to.
ReadMark(s, ch) ==
  LET new == Len(s.nodes) + 1
      grown == Append(s.nodes, [data |-> ch, left |-> 0, right |-> 0])
  IN  CASE ch = Open -> [s EXCEPT !.stack = Append(@, s.p), !.k = "left"]
        [] ch = Close -> [s EXCEPT !.stack = Front(@)]
        [] ch = Comma -> [s EXCEPT !.k = "right"]
        [] OTHER -> [s EXCEPT !.p = new,
                              !.nodes = IF s.nodes = <<>> THEN grown
                                        ELSE [grown EXCEPT ![Last(s.stack)][s.k] = new]]

createTree(str) ==
  FoldLeft(ReadMark, [nodes |-> <<>>, stack |-> <<>>, p |-> 0, k |-> "left"], str)

RECURSIVE findNode(_, _)
findNode(tree, d) ==
  LET l == findNode(tree[1].left, d)
  IN  IF tree = <<>> \/ tree[1].data = d THEN tree
      ELSE IF l # <<>> THEN l ELSE findNode(tree[1].right, d)

RECURSIVE highTree(_)
highTree(tree) ==
  LET l == 1 + highTree(tree[1].left)
      r == 1 + highTree(tree[1].right)
  IN  IF tree = <<>> THEN 0 ELSE IF l > r THEN l ELSE r
-----------------------------------------------------------------------------
\* The tree below node n of a list of linked nodes.
RECURSIVE Unfold(_, _)
Unfold(nodes, n) ==
  IF n = 0 THEN <<>>
  ELSE <<[nodes[n] EXCEPT !.left = Unfold(nodes, @), !.right = Unfold(nodes, @)]>>

\* Reading what was shown gives the tree back, its parentheses nest as deep
\* as the tree is high, and a datum is found if and only if it is there.
RoundTrip ==
  LET text == showTree(bst)
      opened(i) == Cardinality({ j \in 1..i : text[j] = Open })
      closed(i) == Cardinality({ j \in 1..i : text[j] = Close })
  IN  bst # <<>> =>
        /\ Unfold(createTree(text).nodes, 1) = bst
        /\ highTree(bst) = 1 + Max({ opened(i) - closed(i) : i \in 1..Len(text) })
        /\ \A d \in Keys : (findNode(bst, d) # <<>>) <=> (d \in ToSet(Travalsal(bst)))

\* The traversal is sorted whatever was inserted.
InOrder ==
  LET s == Travalsal(bst) IN \A i \in 1..Len(s) - 1 : s[i] <= s[i + 1]

\* Data inserted once each are all there. An insertion puts its datum into the
\* tree; it loses others only for a datum that was there, and greater ones only.
KeepsData ==
  LET Copies(s, d) == Cardinality({ i \in DOMAIN s : s[i] = d })
      before == Travalsal(bst)
  IN  /\ IsInjective(inserted) => ToSet(before) = ToSet(inserted)
      /\ \A d \in Keys :
           LET after == Travalsal(insertNode(bst, d))
           IN  /\ d \in ToSet(after)
               /\ \A e \in Keys \ {d} :
                    \/ Copies(after, e) = Copies(before, e)
                    \/ d \in ToSet(before) /\ e > d /\ Copies(after, e) < Copies(before, e)
=============================================================================
