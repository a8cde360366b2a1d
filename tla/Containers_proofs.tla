-------------------------- MODULE Containers_proofs --------------------------
(***************************************************************************)
(* The Bloom filter, the containers and the sorts, for any elements, cells *)
(* of memory, items, parameters, hash function and numbers to sort.        *)
(***************************************************************************)
EXTENDS MCPrograms, SequenceLemmas, FiniteSetTheorems

-----------------------------------------------------------------------------
(* The Bloom filter. *)

\* Filter f has the members of the struct.
Fields(f) ==
  f = [memory |-> f.memory, initFlag |-> f.initFlag, count |-> f.count,
       maxItems |-> f.maxItems, seed |-> f.seed, filterBits |-> f.filterBits,
       hashFuncs |-> f.hashFuncs, bits |-> f.bits]

\* The bits of filter f hold those of the items, and no others if they are exact.
BitsHold(f, items, only) ==
  /\ \A item \in items : Blm!bloom_hash(f, item) \subseteq f.bits
  /\ only => f.bits = UNION { Blm!bloom_hash(f, item) : item \in items }

\* Whatever reset, save or load comes next: while nothing has been added since
\* the last reset, no item counts, also in a file that was written in between.
FilterInv ==
  /\ Fields(filter)
  /\ filter.memory = "allocated" => BitsHold(filter, added, exact)
  /\ filter.initFlag # 1 => added = {}
  /\ file.kind # "none" => Fields(file.filter)
  /\ file.kind = "whole" => BitsHold(file.filter, saved, file.exact)

\* The positions of an item depend on the parameters of the filter only.
LEMMA SamePositions ==
  ASSUME NEW f, NEW g, g.seed = f.seed, g.filterBits = f.filterBits,
         g.hashFuncs = f.hashFuncs
  PROVE  \A item : Blm!bloom_hash(g, item) = Blm!bloom_hash(f, item)
BY DEF Blm!bloom_hash

\* So a filter with the same parameters and bits holds the same items.
LEMMA HoldsAlike ==
  ASSUME NEW f, NEW g, NEW items, NEW only, BitsHold(f, items, only),
         g.seed = f.seed, g.filterBits = f.filterBits,
         g.hashFuncs = f.hashFuncs, g.bits = f.bits
  PROVE  BitsHold(g, items, only)
<1>1. \A item : Blm!bloom_hash(g, item) = Blm!bloom_hash(f, item)
  BY SamePositions
<1> QED
  BY <1>1 DEF BitsHold

\* Without bits nothing is remembered; without items exactly that is exact.
LEMMA HoldsNone ==
  ASSUME NEW f, NEW only, only => f.bits = {}
  PROVE  BitsHold(f, {}, only)
BY DEF BitsHold

\* An addition after a lazy reset first clears the bits of the items before it.
LEMMA AddStep == ASSUME FilterInv, NEW item, Blm!Add(item) PROVE FilterInv'
<1> DEFINE bits == IF filter.initFlag = 1 THEN filter.bits ELSE {}
<1>1. /\ filter.memory = "allocated" /\ added' = added \union {item}
      /\ exact' = (exact \/ filter.initFlag # 1) /\ UNCHANGED <<file, saved>>
      /\ filter' = [filter EXCEPT !.bits = bits \union Blm!bloom_hash(filter, item),
                                  !.initFlag = 1, !.count = @ + 1]
  BY DEF Blm!Add, Blm!Ready
<1>2. /\ Fields(filter') /\ filter'.memory = "allocated" /\ filter'.initFlag = 1
      /\ filter'.seed = filter.seed /\ filter'.filterBits = filter.filterBits
      /\ filter'.hashFuncs = filter.hashFuncs
      /\ filter'.bits = bits \union Blm!bloom_hash(filter, item)
  BY <1>1 DEF FilterInv, Fields
<1>3. \A i : Blm!bloom_hash(filter', i) = Blm!bloom_hash(filter, i)
  BY <1>2, SamePositions
<1>4. BitsHold(filter', added', exact')
  <2>1. CASE filter.initFlag = 1
    <3>1. /\ \A i \in added : Blm!bloom_hash(filter, i) \subseteq bits
          /\ exact => bits = UNION { Blm!bloom_hash(filter, i) : i \in added }
      BY <1>1, <2>1 DEF FilterInv, BitsHold
    <3>2. exact' => exact
      BY <1>1, <2>1
    <3> QED
      BY <1>1, <1>2, <1>3, <3>1, <3>2 DEF BitsHold
  <2>2. CASE filter.initFlag # 1
    <3>1. added = {} /\ bits = {}
      BY <2>2 DEF FilterInv
    <3> QED
      BY <1>1, <1>2, <1>3, <3>1 DEF BitsHold
  <2> QED
    BY <2>1, <2>2
<1> QED
  BY <1>1, <1>2, <1>4 DEF FilterInv

\* A filter made anew holds nothing.
LEMMA InitStep ==
  ASSUME FilterInv, NEW p, Blm!InitBloomFilter(p) PROVE FilterInv'
<1>1. Fields(filter') /\ filter'.bits = {} /\ added' = {} /\ UNCHANGED <<file, saved>>
  BY DEF Blm!InitBloomFilter, Fields
<1> QED
  BY <1>1, HoldsNone, Zenon DEF FilterInv

\* Freeing and both resets forget every item; the lazy one keeps the bits.
LEMMA ResetSteps ==
  ASSUME FilterInv,
         \/ Blm!FreeBloomFilter \/ Blm!ResetBloomFilter \/ Blm!RealResetBloomFilter
  PROVE  FilterInv'
<1>1. /\ Fields(filter') /\ added' = {}
      /\ exact' => filter'.bits = {}
      /\ UNCHANGED <<file, saved>>
  BY DEF FilterInv, Fields, Blm!FreeBloomFilter, Blm!ResetBloomFilter,
         Blm!RealResetBloomFilter
<1>2. BitsHold(filter', added', exact')
  BY <1>1, HoldsNone
<1> QED
  BY <1>1, <1>2, Zenon DEF FilterInv

\* A file that was written whole holds what the filter held.
LEMMA SaveStep == ASSUME FilterInv, Blm!Save PROVE FilterInv'
<1> PICK kind \in {"empty", "head only", "whole"} :
      /\ filter.memory = "allocated"
      /\ file' = [kind |-> kind, filter |-> filter, exact |-> exact]
      /\ saved' = added /\ UNCHANGED <<filter, added, exact>>
  BY DEF Blm!Save, Blm!Ready
<1>1. file'.filter = filter /\ file'.exact = exact
  OBVIOUS
<1> QED
  BY <1>1, Zenon DEF FilterInv

\* A filter that was read whole holds what the file held; a short read, nothing.
LEMMA LoadStep == ASSUME FilterInv, Blm!Load PROVE FilterInv'
<1>1. CASE Blm!LoadNothing
  <2>1. /\ Fields(filter') /\ filter'.memory # "allocated"
        /\ filter'.initFlag = filter.initFlag /\ UNCHANGED <<file, added, saved>>
    BY <1>1 DEF Blm!LoadNothing, FilterInv, Fields
  <2> QED
    BY <2>1, Zenon DEF FilterInv
<1>2. ASSUME NEW bits \in {{}, 0..255}, Blm!LoadShort(bits) PROVE FilterInv'
  <2>1. Fields(filter') /\ added' = {} /\ exact' = FALSE /\ UNCHANGED <<file, saved>>
    BY <1>2 DEF Blm!LoadShort, FilterInv, Fields
  <2> QED
    BY <2>1, HoldsNone, Zenon DEF FilterInv
<1>3. CASE Blm!LoadWhole
  <2>1. /\ Fields(file.filter) /\ BitsHold(file.filter, saved, file.exact)
        /\ filter' = [file.filter EXCEPT !.initFlag = 1]
        /\ added' = saved /\ exact' = file.exact /\ UNCHANGED <<file, saved>>
    BY <1>3 DEF Blm!LoadWhole, FilterInv
  <2>2. /\ Fields(filter') /\ filter'.initFlag = 1
        /\ filter'.seed = file.filter.seed /\ filter'.bits = file.filter.bits
        /\ filter'.filterBits = file.filter.filterBits
        /\ filter'.hashFuncs = file.filter.hashFuncs
    BY <2>1 DEF Fields
  <2>3. BitsHold(filter', added', exact')
    BY <2>1, <2>2, HoldsAlike
  <2> QED
    BY <2>1, <2>2, <2>3, Zenon DEF FilterInv
<1> QED
  BY <1>1, <1>2, <1>3 DEF Blm!Load

\* The other programs leave the filter and its file alone.
LEMMA FilterStands ==
  ASSUME FilterInv, UNCHANGED <<filter, file, added, saved, exact>> PROVE FilterInv'
BY Zenon DEF FilterInv

\* What was added since the last reset is found, through resets, saving and
\* loading, for any items, parameters and hash function (bloomfilter.h).
THEOREM Remembered == Spec => []ItemsRemembered
<1>1. Init => FilterInv
  BY HoldsNone DEF Init, Blm!Init, Blm!NoFile, FilterInv, Fields
<1>2. FilterInv /\ [Next]_vars => FilterInv'
  <2> SUFFICES ASSUME FilterInv, [Next]_vars PROVE FilterInv'
    OBVIOUS
  <2>1. CASE Blm!Next
    BY <2>1, AddStep, InitStep, ResetSteps, SaveStep, LoadStep DEF Blm!Next
  <2>2. CASE UNCHANGED bloom
    BY <2>2, FilterStands DEF bloom
  <2> QED
    BY <2>1, <2>2 DEF Next, Service, Sorting, Requesting, Redis, ZeroMQ, vars
<1>3. FilterInv => ItemsRemembered
  <2> SUFFICES ASSUME FilterInv, filter.memory = "allocated"
               PROVE  /\ \A item \in added : Blm!Check(item) = 0
                      /\ exact => filter.bits
                           = UNION { Blm!bloom_hash(filter, item) : item \in added }
    BY DEF ItemsRemembered, Blm!Remembers, Blm!Ready
  <2> QED
    BY DEF FilterInv, BitsHold, Blm!Check
<1> QED
  BY <1>1, <1>2, <1>3, PTL DEF Spec

-----------------------------------------------------------------------------
(* The list queue and the growing stack. *)

\* The containers' module has the operators on sets and sequences by its own name.
LEMMA ConSequences ==
  /\ \A S : Con!Cardinality(S) = Cardinality(S)
  /\ \A S, n : Con!SeqOf(S, n) = UNION { [1..m -> S] : m \in 0..n }
  /\ \A s : Con!ToSet(s) = ToSet(s) /\ Con!Last(s) = Last(s)
BY DEF Con!Cardinality, Cardinality, Con!SeqOf, Con!ToSet, ToSet, Con!Last, Last

\* The nodes of queue Q are linked in the order of the cells in list.
Chain(Q, list) ==
  /\ list \in Seq(Cells) /\ IsInjective(list)
  /\ DOMAIN Q.node = { list[i] : i \in DOMAIN list }
  /\ Con!Linked(Q.front, Q.node, list)
  /\ Q.rear = IF list = <<>> THEN 0 ELSE list[Len(list)]
  /\ Q.queue_size = Len(list)

\* Its cells are all there are: the length of the list is the number of nodes.
LEMMA ChainLength ==
  ASSUME NEW Q, NEW list, Chain(Q, list)
  PROVE  list \in Con!SeqOf(DOMAIN Q.node, Con!Cardinality(DOMAIN Q.node))
<1> DEFINE n == Len(list)
<1>1. n \in Nat /\ DOMAIN list = 1..n /\ list \in [1..n -> DOMAIN Q.node]
  BY DEF Chain
<1>2. IsFiniteSet(1..n) /\ Cardinality(1..n) = n
  BY <1>1, FS_Interval
<1>3. list \in Surjection(1..n, DOMAIN Q.node) /\ list \in Injection(1..n, DOMAIN Q.node)
  <2>1. \A y \in DOMAIN Q.node : \E i \in 1..n : list[i] = y
    BY <1>1 DEF Chain
  <2>2. \A i, j \in 1..n : list[i] = list[j] => i = j
    BY <1>1 DEF Chain, IsInjective
  <2> QED
    BY <1>1, <2>1, <2>2 DEF Surjection, Injection, IsInjective
<1>4. Cardinality(DOMAIN Q.node) = n
  BY <1>2, <1>3, FS_Surjection
<1> QED
  BY <1>1, <1>4, ConSequences

\* The n cells of a list lead from front along next to NULL.
Leads(front, node, n, list) ==
  /\ front = IF n = 0 THEN 0 ELSE list[1]
  /\ \A i \in 1..n : node[list[i]].next = IF i = n THEN 0 ELSE list[i + 1]

\* Two lists that follow the same links to their ends are the same.
LEMMA SameLinks ==
  ASSUME NEW D, 0 \notin D, NEW n \in Nat, NEW m \in Nat,
         NEW list \in [1..n -> D], NEW other \in [1..m -> D], NEW front, NEW node,
         Leads(front, node, n, list), Leads(front, node, m, other)
  PROVE  other = list
<1>1. n = 0 <=> m = 0
  BY DEF Leads
<1> DEFINE Agrees(i) == i \in 1..n /\ other[i] = list[i]
           Bad == { i \in 1..m : ~Agrees(i) }
<1>2. Bad = {}
  <2> SUFFICES ASSUME Bad # {} PROVE FALSE
    OBVIOUS
  <2>1. Bad \subseteq Nat
    OBVIOUS
  <2> HIDE DEF Bad
  <2>2. PICK k \in Bad : \A i \in Bad : k =< i
    BY MinOf, <2>1
  <2>3. k \in 1..m /\ ~Agrees(k)
    BY DEF Bad
  <2>4. k # 1
    BY <1>1, <2>3 DEF Leads
  <2>5. k - 1 \in 1..m /\ k - 1 < k /\ (k - 1) + 1 = k /\ k - 1 # m
    BY <2>3, <2>4
  <2>6. Agrees(k - 1)
    BY <2>2, <2>5 DEF Bad
  <2>7. node[other[k - 1]].next = other[k] /\ other[k] # 0
    BY <2>3, <2>5 DEF Leads
  <2>8. k - 1 # n /\ node[list[k - 1]].next = list[k]
    BY <2>5, <2>6, <2>7 DEF Leads
  <2> QED
    BY <2>3, <2>6, <2>7, <2>8
<1>3. \A i \in 1..m : i \in 1..n /\ other[i] = list[i]
  BY <1>2
<1>4. m = n
  <2> SUFFICES ASSUME m # n PROVE FALSE
    OBVIOUS
  <2>1. m \in 1..m /\ m \in 1..n /\ m + 1 \in 1..n
    BY <1>1, <1>3
  <2>2. node[other[m]].next = 0 /\ node[list[m]].next = list[m + 1]
    BY <2>1 DEF Leads
  <2> QED
    BY <1>3, <2>1, <2>2
<1> QED
  BY <1>3, <1>4

\* The list that is read off the nodes is the one they are linked to.
LEMMA ListIs ==
  ASSUME NEW Q, NEW list, Chain(Q, list)
  PROVE  Con!ListFrom(Q.front, Q.node) = list
<1> DEFINE lists == Con!SeqOf(DOMAIN Q.node, Con!Cardinality(DOMAIN Q.node))
<1>1. list \in lists /\ Con!Linked(Q.front, Q.node, list)
  BY ChainLength DEF Chain
<1>2. ASSUME NEW other \in lists, Con!Linked(Q.front, Q.node, other)
      PROVE  other = list
  <2>1. PICK m \in Nat : other \in [1..m -> DOMAIN Q.node]
    BY <1>2, ConSequences
  <2>2. PICK n \in Nat : n = Len(list) /\ list \in [1..n -> DOMAIN Q.node]
    BY DEF Chain
  <2>3. Len(other) = m /\ (other = <<>> <=> m = 0) /\ (list = <<>> <=> n = 0)
    BY <2>1, <2>2
  <2>4. 0 \notin DOMAIN Q.node
    BY ContainersAssumption DEF Chain
  <2>5. Leads(Q.front, Q.node, n, list)
    BY <2>2, <2>3, <1>1 DEF Con!Linked, Leads
  <2>6. Leads(Q.front, Q.node, m, other)
    BY <2>1, <2>3, <1>2 DEF Con!Linked, Leads
  <2> QED
    BY <2>1, <2>2, <2>4, <2>5, <2>6, SameLinks
<1> HIDE DEF lists
<1>3. Con!ListFrom(Q.front, Q.node)
        = CHOOSE other \in lists : Con!Linked(Q.front, Q.node, other)
  BY DEF Con!ListFrom, lists
<1> QED
  BY <1>1, <1>2, <1>3, Zenon

\* The keys of the nodes, in the order of the cells in list.
Keys(Q, list) == [i \in DOMAIN list |-> Q.node[list[i]].key]

\* The nodes with one more, which the one at the rear leads to.
Grown(Q, new, key) ==
  [c \in DOMAIN Q.node \union {new} |->
     IF c = new THEN [next |-> 0, key |-> key]
     ELSE IF c = Q.rear THEN [Q.node[c] EXCEPT !.next = new]
     ELSE Q.node[c]]

\* Every node has a link and a key.
NodesTyped(Q) ==
  \A c \in DOMAIN Q.node :
    Q.node[c] = [next |-> Q.node[c].next, key |-> Q.node[c].key]

\* The same as facts about each node.
Grows(Q, nodes, new, key) ==
  /\ DOMAIN nodes = DOMAIN Q.node \union {new}
  /\ nodes[new].next = 0 /\ nodes[new].key = key
  /\ \A c \in DOMAIN Q.node :
       /\ nodes[c].next = IF c = Q.rear THEN new ELSE Q.node[c].next
       /\ nodes[c].key = Q.node[c].key
  /\ \A c \in DOMAIN nodes : nodes[c] = [next |-> nodes[c].next, key |-> nodes[c].key]

\* What the nodes are once a new one is linked behind the rear.
LEMMA GrownFacts ==
  ASSUME NEW Q, NodesTyped(Q), NEW new, new \notin DOMAIN Q.node, NEW key,
         NEW nodes, nodes = Grown(Q, new, key)
  PROVE  Grows(Q, nodes, new, key)
<1>1. /\ DOMAIN nodes = DOMAIN Q.node \union {new}
      /\ nodes[new] = [next |-> 0, key |-> key]
      /\ \A c \in DOMAIN Q.node :
           nodes[c] = IF c = Q.rear THEN [Q.node[c] EXCEPT !.next = new]
                      ELSE Q.node[c]
  BY DEF Grown
<1>2. nodes[new].next = 0 /\ nodes[new].key = key
  BY <1>1
<1>3. ASSUME NEW c \in DOMAIN Q.node
      PROVE  /\ nodes[c].next = IF c = Q.rear THEN new ELSE Q.node[c].next
             /\ nodes[c].key = Q.node[c].key
             /\ nodes[c] = [next |-> nodes[c].next, key |-> nodes[c].key]
  <2>1. Q.node[c] = [next |-> Q.node[c].next, key |-> Q.node[c].key]
    BY DEF NodesTyped
  <2> PICK old : old = Q.node[c]
    OBVIOUS
  <2>2. nodes[c] = IF c = Q.rear THEN [old EXCEPT !.next = new] ELSE old
    BY <1>1
  <2> QED
    BY <2>1, <2>2
<1>4. ASSUME NEW c \in DOMAIN nodes
      PROVE  nodes[c] = [next |-> nodes[c].next, key |-> nodes[c].key]
  <2>1. CASE c = new
    BY <2>1, <1>1, <1>2
  <2>2. CASE c \in DOMAIN Q.node
    BY <2>2, <1>3
  <2> QED
    BY <2>1, <2>2, <1>1
<1> QED
  BY <1>1, <1>2, <1>3, <1>4 DEF Grows

\* The queue once the new node is at its rear.
Behind(Q, new, key) ==
  [front |-> IF Q.rear = 0 THEN new ELSE Q.front, rear |-> new,
   queue_size |-> Q.queue_size + 1, node |-> Grown(Q, new, key)]

\* A cell that is not in use becomes the last of the list.
LEMMA Pushed ==
  ASSUME NEW Q, NEW list, Chain(Q, list), NodesTyped(Q), NEW new,
         new \in Cells, new \notin DOMAIN Q.node,
         NEW key, NEW R, R = Behind(Q, new, key)
  PROVE  /\ Chain(R, Append(list, new))
         /\ Keys(R, Append(list, new)) = Append(Keys(Q, list), key)
         /\ NodesTyped(R)
<1>1. PICK n \in Nat : n = Len(list)
  BY DEF Chain
<1>2. list \in Seq(Cells) /\ new \in Cells /\ DOMAIN list = 1..n
      /\ (list = <<>> <=> n = 0)
  BY <1>1 DEF Chain
<1>3. PICK longer : longer = Append(list, new)
  OBVIOUS
<1>4. /\ longer \in Seq(Cells) /\ Len(longer) = n + 1 /\ DOMAIN longer = 1..(n + 1)
      /\ longer[n + 1] = new /\ \A i \in 1..n : longer[i] = list[i]
  <2>1. /\ longer \in Seq(Cells) /\ Len(longer) = Len(list) + 1
        /\ longer[Len(list) + 1] = new /\ \A i \in DOMAIN list : longer[i] = list[i]
    BY <1>2, <1>3, AppendFacts
  <2>2. DOMAIN longer = 1..Len(longer)
    BY <2>1
  <2> QED
    BY <1>1, <1>2, <2>1, <2>2
<1>5. /\ \A i \in 1..n : list[i] \in DOMAIN Q.node /\ list[i] # new /\ list[i] # 0
      /\ \A i, j \in 1..n : list[i] = list[j] => i = j
      /\ DOMAIN Q.node = { list[i] : i \in 1..n }
      /\ Q.front = IF n = 0 THEN 0 ELSE list[1]
      /\ \A i \in 1..n : Q.node[list[i]].next = IF i = n THEN 0 ELSE list[i + 1]
      /\ Q.rear = IF n = 0 THEN 0 ELSE list[n]
      /\ Q.queue_size = n
  <2>1. \A i \in 1..n : list[i] \in DOMAIN Q.node /\ list[i] # new /\ list[i] # 0
    <3>1. \A i \in 1..n : list[i] \in Cells
      BY <1>2
    <3>2. \A i \in 1..n : list[i] # 0
      BY <3>1, ContainersAssumption
    <3> QED
      BY <3>2, <1>2 DEF Chain
  <2>2. \A i, j \in 1..n : list[i] = list[j] => i = j
    BY <1>2 DEF Chain, IsInjective
  <2>3. DOMAIN Q.node = { list[i] : i \in 1..n }
    BY <1>2 DEF Chain
  <2>4. /\ Q.front = IF n = 0 THEN 0 ELSE list[1]
        /\ \A i \in 1..n : Q.node[list[i]].next = IF i = n THEN 0 ELSE list[i + 1]
    BY <1>1, <1>2 DEF Chain, Con!Linked
  <2>5. Q.rear = (IF n = 0 THEN 0 ELSE list[n]) /\ Q.queue_size = n
    BY <1>1, <1>2 DEF Chain
  <2> QED
    BY <2>1, <2>2, <2>3, <2>4, <2>5
<1> PICK nodes : nodes = Grown(Q, new, key)
  OBVIOUS
<1>6. /\ R.front = IF n = 0 THEN new ELSE list[1]
      /\ R.rear = new /\ R.queue_size = n + 1 /\ R.node = nodes
  <2>1. /\ R.front = IF Q.rear = 0 THEN new ELSE Q.front
        /\ R.rear = new /\ R.queue_size = Q.queue_size + 1 /\ R.node = nodes
    BY DEF Behind
  <2>2. Q.rear = 0 <=> n = 0
    BY <1>5
  <2> QED
    BY <2>1, <2>2, <1>5
<1>7. Grows(Q, nodes, new, key)
  BY GrownFacts
<1>8. NodesTyped(R)
  BY <1>6, <1>7 DEF NodesTyped, Grows
<1>9. \A i \in 1..(n + 1) : i \in 1..n \/ i = n + 1
  BY <1>1
<1>10. \A i, j \in 1..(n + 1) : longer[i] = longer[j] => i = j
  BY <1>4, <1>5, <1>9
<1>11. DOMAIN nodes = { longer[i] : i \in 1..(n + 1) }
  <2>1. DOMAIN nodes = DOMAIN Q.node \union {new}
    BY <1>7 DEF Grows
  <2>2. DOMAIN Q.node = { list[i] : i \in 1..n }
    BY <1>5
  <2>3. /\ \A i \in 1..n : longer[i] = list[i] /\ i \in 1..(n + 1)
        /\ longer[n + 1] = new /\ n + 1 \in 1..(n + 1)
    BY <1>1, <1>4
  <2>4. ASSUME NEW i \in 1..(n + 1) PROVE longer[i] \in DOMAIN nodes
    BY <2>1, <2>2, <2>3, <1>9
  <2>5. ASSUME NEW x \in DOMAIN nodes PROVE \E i \in 1..(n + 1) : x = longer[i]
    <3>1. CASE x = new
      BY <3>1, <2>3
    <3>2. CASE x # new
      <4>1. PICK i \in 1..n : x = list[i]
        BY <3>2, <2>1, <2>2
      <4> QED
        BY <4>1, <2>3
    <3> QED
      BY <3>1, <3>2
  <2> QED
    BY <2>4, <2>5
<1>12. \A i \in 1..(n + 1) :
         nodes[longer[i]].next = IF i = n + 1 THEN 0 ELSE longer[i + 1]
  <2> SUFFICES ASSUME NEW i \in 1..(n + 1)
               PROVE  nodes[longer[i]].next = IF i = n + 1 THEN 0 ELSE longer[i + 1]
    OBVIOUS
  <2>1. CASE i = n + 1
    BY <2>1, <1>4, <1>7 DEF Grows
  <2>2. CASE i = n /\ i \in 1..n
    BY <2>2, <1>4, <1>5, <1>7 DEF Grows
  <2>3. CASE i # n /\ i \in 1..n
    <3>1. i + 1 \in 1..n /\ i # n + 1 /\ n # 0 /\ n \in 1..n
      BY <2>3
    <3>2. list[i] # list[n] /\ list[i] # Q.rear
      BY <2>3, <3>1, <1>5
    <3>3. nodes[list[i]].next = Q.node[list[i]].next
      BY <3>2, <2>3, <1>5, <1>7 DEF Grows
    <3> QED
      BY <3>1, <3>3, <2>3, <1>4, <1>5
  <2> QED
    BY <2>1, <2>2, <2>3, <1>9
<1>13. Chain(R, longer)
  <2>1. longer # <<>> /\ (1 \in 1..n => longer[1] = list[1])
    BY <1>4
  <2>2. R.front = longer[1]
    BY <2>1, <1>4, <1>6
  <2> QED
    BY <2>1, <2>2, <1>4, <1>6, <1>10, <1>11, <1>12
       DEF Chain, Con!Linked, IsInjective
<1>14. Keys(R, longer) = Append(Keys(Q, list), key)
  <2>1. \A i \in 1..n : nodes[longer[i]].key = Q.node[list[i]].key
    <3>1. \A i \in 1..n : nodes[list[i]].key = Q.node[list[i]].key
      BY <1>5, <1>7 DEF Grows
    <3> QED
      BY <3>1, <1>4
  <2>2. nodes[longer[n + 1]].key = key
    BY <1>4, <1>7 DEF Grows
  <2>3. PICK keys : keys = Keys(Q, list)
    OBVIOUS
  <2>4. PICK S : S = { Q.node[list[i]].key : i \in 1..n } \union {key}
    OBVIOUS
  <2>5. keys \in [1..n -> S] /\ key \in S /\ \A i \in 1..n : keys[i] = Q.node[list[i]].key
    BY <2>3, <2>4, <1>2 DEF Keys
  <2>6. keys \in Seq(S) /\ Len(keys) = n /\ DOMAIN keys = 1..n
    BY <2>5
  <2>7. /\ Append(keys, key) \in Seq(S) /\ Len(Append(keys, key)) = n + 1
        /\ Append(keys, key)[n + 1] = key
        /\ \A i \in 1..n : Append(keys, key)[i] = keys[i]
    <3>1. key \in S
      BY <2>5
    <3> QED
      BY <2>6, <3>1, AppendFacts
  <2>8. PICK more : more = Append(keys, key)
    OBVIOUS
  <2>9. more = [i \in 1..(n + 1) |-> more[i]]
    <3>1. more \in Seq(S) /\ Len(more) = n + 1
      BY <2>7, <2>8
    <3>2. DOMAIN more = 1..(n + 1) /\ more = [i \in 1..Len(more) |-> more[i]]
      BY <3>1
    <3> QED
      BY <3>1, <3>2
  <2>10. Keys(R, longer) = [i \in 1..(n + 1) |-> nodes[longer[i]].key]
    <3>1. DOMAIN longer = 1..(n + 1) /\ R.node = nodes
      BY <1>4, <1>6
    <3> QED
      BY <3>1, Zenon DEF Keys
  <2>11. \A i \in 1..(n + 1) : nodes[longer[i]].key = more[i]
    BY <2>1, <2>2, <2>5, <2>7, <2>8, <1>9
  <2> QED
    BY <2>3, <2>8, <2>9, <2>10, <2>11
<1> QED
  BY <1>3, <1>8, <1>13, <1>14

\* The queue without its first node, whose cell is free again.
Without(Q) ==
  [front |-> IF Q.front = Q.rear THEN 0 ELSE Q.node[Q.front].next,
   rear |-> IF Q.front = Q.rear THEN 0 ELSE Q.rear,
   queue_size |-> Q.queue_size - 1,
   node |-> [c \in DOMAIN Q.node \ {Q.front} |-> Q.node[c]]]

\* The list loses its first cell, and its last one with it if it is the same.
LEMMA Popped ==
  ASSUME NEW Q, NEW list, Chain(Q, list), NodesTyped(Q), Q.front # 0,
         NEW R, R = Without(Q)
  PROVE  /\ Keys(Q, list) # <<>> /\ Q.node[Q.front].key = Head(Keys(Q, list))
         /\ Chain(R, Tail(list)) /\ Keys(R, Tail(list)) = Tail(Keys(Q, list))
         /\ NodesTyped(R)
<1>1. PICK n \in Nat : n = Len(list)
  BY DEF Chain
<1>2. list \in Seq(Cells) /\ DOMAIN list = 1..n /\ (list = <<>> <=> n = 0)
  BY <1>1 DEF Chain
<1>3. Leads(Q.front, Q.node, n, list)
  BY <1>1, <1>2 DEF Chain, Con!Linked, Leads
<1>4. n # 0 /\ 1 \in 1..n /\ n \in 1..n /\ list # <<>> /\ Q.front = list[1]
  BY <1>2, <1>3 DEF Leads
<1>5. PICK m \in Nat : n = m + 1
  <2>1. n - 1 \in Nat /\ n = (n - 1) + 1
    BY <1>4
  <2> QED
    BY <2>1
<1>6. \A i \in 1..m : i \in 1..n /\ i + 1 \in 1..n /\ i # n /\ i + 1 # 1
  BY <1>5
<1>7. PICK shorter : shorter = Tail(list)
  OBVIOUS
<1>8. /\ shorter \in Seq(Cells) /\ Len(shorter) = m /\ DOMAIN shorter = 1..m
      /\ \A i \in 1..m : shorter[i] = list[i + 1]
  <2>1. shorter \in Seq(Cells) /\ Len(shorter) = Len(list) - 1 /\ DOMAIN shorter = 1..Len(shorter)
        /\ \A i \in DOMAIN shorter : shorter[i] = list[i + 1]
    BY <1>2, <1>4, <1>7, HeadTail
  <2> QED
    BY <2>1, <1>1, <1>5
<1>9. /\ \A i, j \in 1..n : list[i] = list[j] => i = j
      /\ DOMAIN Q.node = { list[i] : i \in 1..n }
      /\ Q.rear = list[n] /\ Q.queue_size = n
  <2>1. \A i, j \in 1..n : list[i] = list[j] => i = j
    BY <1>2 DEF Chain, IsInjective
  <2>2. DOMAIN Q.node = { list[i] : i \in 1..n }
    BY <1>2 DEF Chain
  <2>3. Q.rear = list[n] /\ Q.queue_size = n
    BY <1>1, <1>4 DEF Chain
  <2> QED
    BY <2>1, <2>2, <2>3
<1>10. Q.front = Q.rear <=> m = 0
  BY <1>4, <1>5, <1>9
<1>11. \A i \in 1..n : Q.node[list[i]].next = IF i = n THEN 0 ELSE list[i + 1]
  BY <1>3 DEF Leads
<1>12. Q.node[Q.front].next = IF m = 0 THEN 0 ELSE list[2]
  BY <1>4, <1>5, <1>11
<1> PICK nodes : nodes = [c \in DOMAIN Q.node \ {Q.front} |-> Q.node[c]]
  OBVIOUS
<1>13. /\ R.front = IF m = 0 THEN 0 ELSE list[2]
       /\ R.rear = IF m = 0 THEN 0 ELSE list[n]
       /\ R.queue_size = m /\ R.node = nodes
  <2>1. /\ R.front = IF Q.front = Q.rear THEN 0 ELSE Q.node[Q.front].next
        /\ R.rear = IF Q.front = Q.rear THEN 0 ELSE Q.rear
        /\ R.queue_size = Q.queue_size - 1 /\ R.node = nodes
    BY DEF Without
  <2>2. Q.queue_size - 1 = m
    BY <1>5, <1>9
  <2> QED
    BY <2>1, <2>2, <1>9, <1>10, <1>12
<1>14. /\ DOMAIN nodes = DOMAIN Q.node \ {list[1]}
       /\ \A c \in DOMAIN nodes : nodes[c] = Q.node[c]
  BY <1>4
<1>15. NodesTyped(R)
  BY <1>13, <1>14 DEF NodesTyped
<1>16. DOMAIN nodes = { shorter[i] : i \in 1..m }
  <2>1. ASSUME NEW c \in DOMAIN nodes PROVE \E i \in 1..m : c = shorter[i]
    <3>1. PICK j \in 1..n : c = list[j]
      BY <2>1, <1>9, <1>14
    <3>2. j # 1
      BY <3>1, <1>14
    <3>3. j - 1 \in 1..m /\ (j - 1) + 1 = j
      BY <3>1, <3>2, <1>5
    <3> QED
      BY <3>1, <3>3, <1>8
  <2>2. ASSUME NEW i \in 1..m PROVE shorter[i] \in DOMAIN nodes
    <3>1. i + 1 \in 1..n /\ i + 1 # 1 /\ shorter[i] = list[i + 1]
      BY <1>6, <1>8
    <3>2. list[i + 1] # list[1]
      BY <3>1, <1>4, <1>9
    <3>3. list[i + 1] \in DOMAIN Q.node
      BY <3>1, <1>9
    <3>4. list[i + 1] \in DOMAIN nodes
      BY <3>2, <3>3, <1>14, Zenon
    <3> QED
      BY <3>1, <3>4, Zenon
  <2> QED
    BY <2>1, <2>2
<1>17. \A i \in 1..m : nodes[shorter[i]].next = IF i = m THEN 0 ELSE shorter[i + 1]
  <2> SUFFICES ASSUME NEW i \in 1..m
               PROVE  nodes[shorter[i]].next = IF i = m THEN 0 ELSE shorter[i + 1]
    OBVIOUS
  <2>1. shorter[i] \in DOMAIN nodes /\ shorter[i] = list[i + 1] /\ i + 1 \in 1..n
    BY <1>6, <1>8, <1>16
  <2>2. nodes[shorter[i]].next = IF i + 1 = n THEN 0 ELSE list[(i + 1) + 1]
    BY <2>1, <1>11, <1>14
  <2>3. i + 1 = n <=> i = m
    BY <1>5
  <2>4. i # m => i + 1 \in 1..m
    OBVIOUS
  <2> QED
    BY <2>2, <2>3, <2>4, <1>8
<1>18. \A i, j \in 1..m : shorter[i] = shorter[j] => i = j
  BY <1>6, <1>8, <1>9
<1>19. Chain(R, shorter)
  <2>1. /\ m = 0 <=> shorter = <<>>
        /\ m # 0 => shorter[1] = list[2] /\ shorter[m] = list[n]
    BY <1>5, <1>8
  <2>2. R.front = IF shorter = <<>> THEN 0 ELSE shorter[1]
    BY <2>1, <1>13
  <2>3. R.rear = IF shorter = <<>> THEN 0 ELSE shorter[m]
    BY <2>1, <1>13
  <2>4. IsInjective(shorter)
    BY <1>8, <1>18 DEF IsInjective
  <2>5. DOMAIN R.node = { shorter[i] : i \in DOMAIN shorter }
    BY <1>8, <1>13, <1>16
  <2>6. Con!Linked(R.front, R.node, shorter)
    BY <2>2, <1>8, <1>13, <1>17 DEF Con!Linked
  <2>7. R.rear = IF shorter = <<>> THEN 0 ELSE shorter[Len(shorter)]
    BY <2>3, <1>8, Zenon
  <2>8. shorter \in Seq(Cells) /\ R.queue_size = Len(shorter)
    BY <1>8, <1>13
  <2> QED
    BY <2>4, <2>5, <2>6, <2>7, <2>8, Zenon DEF Chain
<1>20. PICK keys : keys = Keys(Q, list)
  OBVIOUS
<1>21. PICK S : S = { Q.node[list[i]].key : i \in 1..n }
  OBVIOUS
<1>22. keys \in [1..n -> S] /\ \A i \in 1..n : keys[i] = Q.node[list[i]].key
  BY <1>20, <1>21, <1>2 DEF Keys
<1>23. keys \in Seq(S) /\ Len(keys) = n /\ keys # <<>>
  BY <1>22, <1>4
<1>24. Head(keys) = keys[1]
  BY <1>23, HeadTail
<1>25. Q.node[Q.front].key = Head(keys)
  BY <1>4, <1>22, <1>24
<1>26. PICK fewer : fewer = Tail(keys)
  OBVIOUS
<1>27. fewer \in Seq(S) /\ Len(fewer) = m /\ \A i \in 1..m : fewer[i] = keys[i + 1]
  <2>1. /\ fewer \in Seq(S) /\ Len(fewer) = Len(keys) - 1 /\ DOMAIN fewer = 1..Len(fewer)
        /\ \A i \in DOMAIN fewer : fewer[i] = keys[i + 1]
    BY <1>23, <1>26, HeadTail
  <2> QED
    BY <2>1, <1>5, <1>23
<1>28. fewer = [i \in 1..m |-> fewer[i]]
  BY <1>27
<1>29. Keys(R, shorter) = [i \in 1..m |-> nodes[shorter[i]].key]
  BY <1>8, <1>13, Zenon DEF Keys
<1>30. \A i \in 1..m : nodes[shorter[i]].key = fewer[i]
  <2> SUFFICES ASSUME NEW i \in 1..m PROVE nodes[shorter[i]].key = fewer[i]
    OBVIOUS
  <2>1. shorter[i] \in DOMAIN nodes /\ shorter[i] = list[i + 1] /\ i + 1 \in 1..n
    BY <1>6, <1>8, <1>16
  <2> QED
    BY <2>1, <1>14, <1>22, <1>27
<1>31. Keys(R, shorter) = fewer
  BY <1>28, <1>29, <1>30
<1> QED
  BY <1>7, <1>15, <1>19, <1>20, <1>23, <1>25, <1>26, <1>31

\* What the array's places hold: an element, or what an unused one holds.
Numbers == Elements \union {0}

\* The array is as long as it says, and its used part within it.
StackInv ==
  /\ stack_ = [base |-> stack_.base, top |-> stack_.top,
               stack_size |-> stack_.stack_size]
  /\ stack_.base \in Seq(Numbers) /\ Len(stack_.base) = stack_.stack_size
  /\ stack_.top \in Nat /\ stack_.top =< stack_.stack_size

\* An array starts with as many of its elements as are asked for.
LEMMA Prefix ==
  ASSUME NEW S, NEW base \in Seq(S), NEW k \in Nat, k =< Len(base)
  PROVE  /\ SubSeq(base, 1, k) = [i \in 1..k |-> base[i]]
         /\ SubSeq(base, 1, k) \in Seq(S) /\ Len(SubSeq(base, 1, k)) = k
OBVIOUS

\* The array with e in place k.
PutAt(grown, k, e) == [grown EXCEPT ![k] = e]

\* The first k places of the grown array are those of base.
StartsAs(grown, base, k) == \A i \in 1..k : grown[i] = base[i]

\* After is the grown array with e on top of the k elements of base.
OnTop(S, base, k, grown, e, after) ==
  /\ after \in Seq(S) /\ Len(after) = Len(grown)
  /\ SubSeq(after, 1, k + 1) = Append(SubSeq(base, 1, k), e)

\* Behind the top there is room for one more, also when the array has grown.
LEMMA Stacked ==
  ASSUME NEW S, NEW base \in Seq(S), NEW k \in Nat, k =< Len(base),
         NEW grown \in Seq(S), k < Len(grown), StartsAs(grown, base, k),
         NEW e \in S, NEW after, after = PutAt(grown, k + 1, e)
  PROVE  OnTop(S, base, k, grown, e, after)
<1>1. PICK n \in Nat : n = Len(grown) /\ DOMAIN grown = 1..n /\ k + 1 \in 1..n
  OBVIOUS
<1>2. /\ after \in Seq(S) /\ Len(after) = n /\ after[k + 1] = e
      /\ \A i \in 1..k : after[i] = base[i]
  <2>1. after \in [1..n -> S] /\ after = [grown EXCEPT ![k + 1] = e]
    BY <1>1 DEF PutAt
  <2>2. \A i \in 1..k : i \in 1..n /\ i # k + 1
    BY <1>1
  <2> QED
    BY <2>1, <2>2, <1>1 DEF StartsAs
<1>3. PICK m \in Nat : m = k + 1 /\ m =< n
  BY <1>1
<1>4. SubSeq(after, 1, m) = [i \in 1..m |-> after[i]]
  BY <1>2, <1>3, Prefix
<1>5. PICK old : old = SubSeq(base, 1, k)
  OBVIOUS
<1>6. old \in Seq(S) /\ Len(old) = k /\ old = [i \in 1..k |-> base[i]]
  BY <1>5, Prefix
<1>7. PICK more : more = Append(old, e)
  OBVIOUS
<1>8. /\ more \in Seq(S) /\ Len(more) = m /\ more[m] = e
      /\ \A i \in 1..k : more[i] = base[i]
  BY <1>3, <1>6, <1>7, AppendFacts
<1>9. more = [i \in 1..m |-> more[i]]
  BY <1>8
<1>10. \A i \in 1..m : more[i] = after[i]
  <2>1. \A i \in 1..m : i = m \/ i \in 1..k
    BY <1>3
  <2> QED
    BY <2>1, <1>2, <1>3, <1>8
<1> QED
  BY <1>1, <1>2, <1>3, <1>4, <1>5, <1>7, <1>9, <1>10 DEF OnTop

\* The element under the top is the last of the used part.
LEMMA Unstacked ==
  ASSUME NEW S, NEW base \in Seq(S), NEW k \in Nat, k =< Len(base), k # 0
  PROVE  LET items == SubSeq(base, 1, k)
         IN  /\ items # <<>> /\ items[Len(items)] = base[k]
             /\ SubSeq(items, 1, Len(items) - 1) = SubSeq(base, 1, k - 1)
<1>1. PICK m \in Nat : k - 1 = m /\ m =< Len(base) /\ m =< k
  OBVIOUS
<1>2. PICK items : items = SubSeq(base, 1, k)
  OBVIOUS
<1>3. /\ items \in Seq(S) /\ Len(items) = k /\ items = [i \in 1..k |-> base[i]]
  BY <1>2, Prefix
<1>4. items # <<>> /\ items[k] = base[k]
  BY <1>3
<1>5. SubSeq(items, 1, m) = [i \in 1..m |-> items[i]]
  BY <1>1, <1>3, Prefix
<1>6. SubSeq(base, 1, m) = [i \in 1..m |-> base[i]]
  BY <1>1, Prefix
<1>7. \A i \in 1..m : items[i] = base[i]
  BY <1>1, <1>3
<1> QED
  BY <1>1, <1>2, <1>3, <1>4, <1>5, <1>6, <1>7

\* The nodes form one chain from front to rear.
QueueInv == NodesTyped(queue_) /\ \E list \in Seq(Cells) : Chain(queue_, list)

\* The queue as a sequence: the keys in the order of the links.
LEMMA QueuedIs ==
  ASSUME NEW list
  PROVE  /\ Chain(queue_, list) =>
              Con!List = list /\ Con!Queued = Keys(queue_, list)
         /\ Chain(queue_', list) =>
              Con!List' = list /\ Con!Queued' = Keys(queue_', list)
<1>1. ASSUME Chain(queue_, list)
      PROVE  Con!List = list /\ Con!Queued = Keys(queue_, list)
  <2>1. Con!List = list
    BY <1>1, ListIs DEF Con!List
  <2> QED
    BY <2>1 DEF Con!Queued, Keys
<1>2. ASSUME Chain(queue_', list)
      PROVE  Con!List' = list /\ Con!Queued' = Keys(queue_', list)
  <2>1. Con!ListFrom(queue_'.front, queue_'.node) = list
    BY <1>2, ListIs
  <2>2. Con!List' = list
    BY <2>1 DEF Con!List
  <2> QED
    BY <2>2 DEF Con!Queued, Keys
<1> QED
  BY <1>1, <1>2

\* A queue without nodes.
LEMMA EmptyQueue ==
  ASSUME NEW Q, Q = [front |-> 0, rear |-> 0, queue_size |-> 0, node |-> <<>>]
  PROVE  Chain(Q, <<>>) /\ NodesTyped(Q) /\ Keys(Q, <<>>) = <<>>
<1>1. /\ <<>> \in Seq(Cells) /\ Len(<<>>) = 0 /\ DOMAIN Q.node = {}
      /\ DOMAIN <<>> = {} /\ Q.front = 0 /\ Q.rear = 0 /\ Q.queue_size = 0
  OBVIOUS
<1> QED
  BY <1>1 DEF Chain, Con!Linked, IsInjective, NodesTyped, Keys

\* Elements in the order of the links go in behind and come out in front.
LEMMA QueueStep ==
  ASSUME QueueInv, Con!QueueNext
  PROVE  /\ QueueInv' /\ UNCHANGED stack_
         /\ \/ \E e \in Elements : /\ Con!Queued' = Append(Con!Queued, e)
                                   /\ popped' = popped
            \/ /\ Con!Queued # <<>> /\ popped' = Head(Con!Queued)
               /\ Con!Queued' = Tail(Con!Queued)
            \/ Con!Queued' = <<>> /\ popped' = popped
<1> PICK list \in Seq(Cells) : Chain(queue_, list)
  BY DEF QueueInv
<1>1. NodesTyped(queue_) /\ Con!Queued = Keys(queue_, list)
  BY QueuedIs DEF QueueInv
<1>2. ASSUME NEW e \in Elements, Con!push_queue(e)
      PROVE  /\ QueueInv' /\ UNCHANGED <<stack_, popped>>
             /\ Con!Queued' = Append(Con!Queued, e)
  <2>1. PICK new \in Cells \ DOMAIN queue_.node :
          /\ queue_' = Behind(queue_, new, e) /\ UNCHANGED <<stack_, popped>>
    <3>1. PICK node : node = [Con!NoNode EXCEPT !.key = e]
      OBVIOUS
    <3>2. node = [next |-> 0, key |-> e]
      BY <3>1 DEF Con!NoNode
    <3>3. PICK new \in Cells \ DOMAIN queue_.node :
            /\ queue_' =
                 [front |-> IF queue_.rear = 0 THEN new ELSE queue_.front, rear |-> new,
                  queue_size |-> queue_.queue_size + 1,
                  node |-> [c \in DOMAIN queue_.node \union {new} |->
                              IF c = new THEN node
                              ELSE IF c = queue_.rear
                              THEN [queue_.node[c] EXCEPT !.next = new]
                              ELSE queue_.node[c]]]
            /\ UNCHANGED <<stack_, popped>>
      BY <1>2, <3>1 DEF Con!push_queue
    <3>4. queue_' = Behind(queue_, new, e)
      BY <3>2, <3>3, Zenon DEF Behind, Grown
    <3> QED
      BY <3>3, <3>4
  <2>2. /\ Chain(queue_', Append(list, new)) /\ NodesTyped(queue_')
        /\ Keys(queue_', Append(list, new)) = Append(Keys(queue_, list), e)
    BY <2>1, <1>1, Pushed
  <2>3. Append(list, new) \in Seq(Cells)
    BY <2>1
  <2> QED
    BY <2>1, <2>2, <2>3, <1>1, QueuedIs DEF QueueInv
<1>3. CASE Con!pop_queue
  <2>1. /\ queue_.front # 0 /\ popped' = queue_.node[queue_.front].key
        /\ queue_' = Without(queue_) /\ UNCHANGED stack_
    BY <1>3 DEF Con!pop_queue, Con!Freed, Without
  <2>2. /\ Keys(queue_, list) # <<>>
        /\ queue_.node[queue_.front].key = Head(Keys(queue_, list))
        /\ Chain(queue_', Tail(list)) /\ NodesTyped(queue_')
        /\ Keys(queue_', Tail(list)) = Tail(Keys(queue_, list))
    BY <2>1, <1>1, Popped
  <2>3. Tail(list) \in Seq(Cells)
    BY <2>2 DEF Chain
  <2> QED
    BY <2>1, <2>2, <2>3, <1>1, QueuedIs DEF QueueInv
<1>4. CASE Con!destory_queue
  <2>1. /\ queue_' = [front |-> 0, rear |-> 0, queue_size |-> 0, node |-> <<>>]
        /\ UNCHANGED <<stack_, popped>>
    BY <1>4 DEF Con!destory_queue, Con!init_queue
  <2>2. Chain(queue_', <<>>) /\ NodesTyped(queue_') /\ Keys(queue_', <<>>) = <<>>
    BY <2>1, EmptyQueue
  <2>3. <<>> \in Seq(Cells)
    OBVIOUS
  <2> QED
    BY <2>1, <2>2, <2>3, QueuedIs DEF QueueInv
<1> QED
  BY <1>2, <1>3, <1>4 DEF Con!QueueNext

\* Elements go in on top of the array's used part and come out there.
LEMMA StackStep ==
  ASSUME StackInv, Con!StackNext
  PROVE  /\ StackInv' /\ UNCHANGED queue_
         /\ \/ \E e \in Elements : /\ Con!Stacked' = Append(Con!Stacked, e)
                                   /\ popped' = popped
            \/ /\ Con!Stacked # <<>> /\ popped' = Con!Stacked[Len(Con!Stacked)]
               /\ Con!Stacked' = SubSeq(Con!Stacked, 1, Len(Con!Stacked) - 1)
            \/ Con!Stacked' = <<>> /\ popped' = popped
            \/ Con!Stacked' = Con!Stacked /\ popped' = popped
<1> PICK base, k, n : base = stack_.base /\ k = stack_.top /\ n = stack_.stack_size
  OBVIOUS
<1>1. /\ stack_ = [base |-> base, top |-> k, stack_size |-> n]
      /\ base \in Seq(Numbers) /\ Len(base) = n
      /\ k \in Nat /\ k =< n /\ n \in Nat
  <2>1. base \in Seq(Numbers) /\ Len(base) = n /\ k \in Nat /\ k =< n
    BY DEF StackInv
  <2> QED
    BY <2>1 DEF StackInv
<1>2. ASSUME NEW e \in Elements, Con!pushStack(e)
      PROVE  /\ StackInv' /\ UNCHANGED <<queue_, popped>>
             /\ Con!Stacked' = Append(Con!Stacked, e)
  <2> PICK zeros : zeros = [i \in 1..SIZE |-> 0]
    OBVIOUS
  <2> PICK grown : grown = IF k >= n THEN base \o zeros ELSE base
    OBVIOUS
  <2> PICK size : size = IF k >= n THEN n + SIZE ELSE n
    OBVIOUS
  <2> PICK after : after = PutAt(grown, k + 1, e)
    OBVIOUS
  <2>1. stack_' = [base |-> after, top |-> k + 1, stack_size |-> size]
        /\ UNCHANGED <<queue_, popped>>
    BY <1>2 DEF Con!pushStack, PutAt
  <2>2. zeros \in Seq(Numbers) /\ Len(zeros) = SIZE
    BY ContainersAssumption DEF Numbers
  <2>3. /\ grown \in Seq(Numbers) /\ Len(grown) = size /\ k < size
        /\ StartsAs(grown, base, k)
    <3>1. CASE k >= n
      <4>1. grown = base \o zeros /\ size = n + SIZE /\ SIZE \in Nat \ {0}
        BY <3>1, ContainersAssumption
      <4>2. /\ grown \in Seq(Numbers) /\ Len(grown) = size
            /\ \A i \in 1..n : grown[i] = base[i]
        BY <4>1, <2>2, <1>1
      <4> QED
        BY <4>1, <4>2, <1>1 DEF StartsAs
    <3>2. CASE ~(k >= n)
      <4>1. grown = base /\ size = n
        BY <3>2
      <4> QED
        BY <4>1, <3>2, <1>1 DEF StartsAs
    <3> QED
      BY <3>1, <3>2
  <2>4. e \in Numbers
    BY DEF Numbers
  <2>5. /\ after \in Seq(Numbers) /\ Len(after) = size
        /\ SubSeq(after, 1, k + 1) = Append(SubSeq(base, 1, k), e)
    <3>1. k =< Len(base) /\ k < Len(grown)
      BY <2>3, <1>1
    <3>3. /\ base \in Seq(Numbers) /\ grown \in Seq(Numbers) /\ k \in Nat
          /\ StartsAs(grown, base, k)
      BY <2>3, <1>1
    <3>2. OnTop(Numbers, base, k, grown, e, after)
      BY <3>1, <3>3, <2>4, Stacked
    <3> QED
      BY <3>2, <2>3, Zenon DEF OnTop
  <2>6. k + 1 \in Nat /\ k + 1 =< size
    BY <2>2, <1>1, ContainersAssumption
  <2>7. stack_'.base = after /\ stack_'.top = k + 1 /\ stack_'.stack_size = size
    BY <2>1
  <2>8. StackInv'
    BY <2>1, <2>5, <2>6, <2>7 DEF StackInv
  <2> QED
    BY <2>1, <2>5, <2>7, <2>8 DEF Con!Stacked
<1>3. CASE Con!popStack
  <2>1. /\ popped' = IF k = 0 THEN popped ELSE base[k]
        /\ stack_' = [base |-> base, top |-> IF k = 0 THEN 0 ELSE k - 1,
                      stack_size |-> n]
        /\ UNCHANGED queue_
    BY <1>1, <1>3 DEF Con!popStack
  <2>2. CASE k = 0
    BY <2>1, <2>2, <1>1 DEF StackInv, Con!Stacked
  <2>3. CASE k # 0
    <3>1. PICK m \in Nat : m = k - 1 /\ m =< n
      BY <2>3, <1>1
    <3>2. popped' = base[k] /\ stack_' = [base |-> base, top |-> m, stack_size |-> n]
      BY <2>1, <2>3, <3>1
    <3>3. StackInv'
      BY <3>1, <3>2, <1>1 DEF StackInv
    <3>4. Con!Stacked = SubSeq(base, 1, k) /\ Con!Stacked' = SubSeq(base, 1, k - 1)
      BY <3>1, <3>2 DEF Con!Stacked
    <3>5. LET items == SubSeq(base, 1, k)
          IN  /\ items # <<>> /\ items[Len(items)] = base[k]
              /\ SubSeq(items, 1, Len(items) - 1) = SubSeq(base, 1, k - 1)
      BY <1>1, <2>3, Unstacked
    <3> QED
      BY <2>1, <3>2, <3>3, <3>4, <3>5
  <2> QED
    BY <2>2, <2>3
<1>4. CASE Con!destroyStack
  <2>1. /\ stack_' = [base |-> [i \in 1..SIZE |-> 0], top |-> 0, stack_size |-> SIZE]
        /\ UNCHANGED <<queue_, popped>>
    BY <1>4 DEF Con!destroyStack, Con!initStack
  <2>2. StackInv'
    BY <2>1, ContainersAssumption DEF StackInv, Numbers
  <2>3. Con!Stacked' = <<>>
    BY <2>1 DEF Con!Stacked
  <2> QED
    BY <2>1, <2>2, <2>3
<1> QED
  BY <1>2, <1>3, <1>4 DEF Con!StackNext

\* What holds of the queue and the stack between calls.
ContainersInv == QueueInv /\ StackInv

\* Both containers start empty.
LEMMA ContainersInit == Init => ContainersInv
<1> SUFFICES ASSUME Init PROVE ContainersInv
  OBVIOUS
<1>1. /\ queue_ = [front |-> 0, rear |-> 0, queue_size |-> 0, node |-> <<>>]
      /\ stack_ = [base |-> [i \in 1..SIZE |-> 0], top |-> 0, stack_size |-> SIZE]
  BY DEF Init, Con!Init
<1>2. QueueInv
  <2>1. <<>> \in Seq(Cells) /\ Chain(queue_, <<>>) /\ NodesTyped(queue_)
    BY <1>1, EmptyQueue
  <2> QED
    BY <2>1, Zenon DEF QueueInv
<1>3. StackInv
  BY <1>1, ContainersAssumption DEF StackInv, Numbers
<1> QED
  BY <1>2, <1>3 DEF ContainersInv

\* What the containers hold only changes with their variables.
LEMMA ContainersStand ==
  ASSUME ContainersInv, UNCHANGED containers
  PROVE  /\ ContainersInv' /\ Con!Queued' = Con!Queued /\ Con!Stacked' = Con!Stacked
         /\ popped' = popped
<1>1. queue_' = queue_ /\ stack_' = stack_ /\ popped' = popped
  BY DEF containers
<1>2. QueueInv'
  BY <1>1, Zenon DEF ContainersInv, QueueInv
<1>3. StackInv'
  BY <1>1, Zenon DEF ContainersInv, StackInv
<1>4. Con!List' = Con!List
  BY <1>1, Zenon DEF Con!List
<1>5. Con!Queued' = Con!Queued
  BY <1>1, <1>4, Zenon DEF Con!Queued
<1>6. Con!Stacked' = Con!Stacked
  BY <1>1, Zenon DEF Con!Stacked
<1> QED
  BY <1>1, <1>2, <1>3, <1>5, <1>6 DEF ContainersInv

\* Of the programs only these two touch the queue and the stack.
LEMMA ContainersMoves ==
  ASSUME [Next]_vars
  PROVE  /\ which' = which
         /\ \/ which = "queue" /\ Con!QueueNext
            \/ which = "stack" /\ Con!StackNext
            \/ UNCHANGED containers
BY Zenon DEF Next, Service, Sorting, Requesting, Redis, ZeroMQ, vars

\* A step of either container keeps the invariant of both.
LEMMA ContainersStep ==
  ASSUME ContainersInv, [Next]_vars PROVE ContainersInv'
<1>1. CASE Con!QueueNext
  <2>1. QueueInv' /\ UNCHANGED stack_
    BY <1>1, QueueStep DEF ContainersInv
  <2> QED
    BY <2>1, Zenon DEF ContainersInv, StackInv
<1>2. CASE Con!StackNext
  <2>1. StackInv' /\ UNCHANGED queue_
    BY <1>2, StackStep DEF ContainersInv
  <2> QED
    BY <2>1, Zenon DEF ContainersInv, QueueInv
<1>3. CASE UNCHANGED containers
  BY <1>3, ContainersStand
<1> QED
  BY <1>1, <1>2, <1>3, ContainersMoves

\* The ends, the size and the emptiness test of the queue agree with its nodes.
LEMMA ContainersAgree == ASSUME ContainersInv PROVE Con!EndsAgree
<1> PICK list \in Seq(Cells) : Chain(queue_, list)
  BY DEF ContainersInv, QueueInv
<1>1. Con!List = list
  BY QueuedIs
<1>2. PICK n \in Nat : n = Len(list) /\ DOMAIN list = 1..n /\ (list = <<>> <=> n = 0)
  OBVIOUS
<1>3. /\ DOMAIN queue_.node = { list[i] : i \in DOMAIN list }
      /\ queue_.rear = IF list = <<>> THEN 0 ELSE list[Len(list)]
      /\ queue_.queue_size = Len(list)
  BY DEF Chain
<1>4. Con!ToSet(list) = { list[i] : i \in DOMAIN list } /\ Con!Last(list) = list[Len(list)]
  BY DEF Con!ToSet, Con!Last
<1>5. queue_.rear = 0 <=> list = <<>>
  <2>1. \A i \in 1..n : list[i] # 0
    BY <1>2, ContainersAssumption
  <2>2. n # 0 => n \in 1..n
    BY <1>2
  <2> QED
    BY <2>1, <2>2, <1>2, <1>3
<1>6. Con!empty_queue = 0 <=> list = <<>>
  BY <1>5 DEF Con!empty_queue
<1>7. stack_.top =< stack_.stack_size /\ stack_.stack_size = Len(stack_.base)
  BY DEF ContainersInv, StackInv
<1> QED
  BY <1>1, <1>3, <1>4, <1>6, <1>7, Zenon DEF Con!EndsAgree

\* Every step is one of the line, or leaves it as it is.
LEMMA LineStep ==
  ASSUME ContainersInv, [Next]_vars
  PROVE  [Line!Next]_<<During("queue", Con!Queued, <<>>), During("queue", popped, 0)>>
<1>1. CASE which = "queue" /\ Con!QueueNext
  <2>1. /\ During("queue", Con!Queued, <<>>) = Con!Queued
        /\ During("queue", Con!Queued, <<>>)' = Con!Queued'
        /\ During("queue", popped, 0) = popped
        /\ During("queue", popped, 0)' = popped'
    BY <1>1, ContainersMoves DEF During
  <2>2. QueueInv
    BY DEF ContainersInv
  <2>3. CASE \E e \in Elements : /\ Con!Queued' = Append(Con!Queued, e)
                                 /\ popped' = popped
    BY <2>1, <2>3 DEF Line!Next, Line!Put
  <2>4. CASE /\ Con!Queued # <<>> /\ popped' = Head(Con!Queued)
             /\ Con!Queued' = Tail(Con!Queued)
    BY <2>1, <2>4 DEF Line!Next, Line!Take
  <2>5. CASE Con!Queued' = <<>> /\ popped' = popped
    BY <2>1, <2>5 DEF Line!Next, Line!Clear
  <2> QED
    BY <1>1, <2>2, <2>3, <2>4, <2>5, QueueStep
<1>2. CASE which = "stack" /\ Con!StackNext
  BY <1>2, ContainersMoves DEF During
<1>3. CASE UNCHANGED containers
  BY <1>3, ContainersMoves, ContainersStand DEF During
<1> QED
  BY <1>1, <1>2, <1>3, ContainersMoves

\* Every step is one of the pile, or leaves it as it is.
LEMMA PileStep ==
  ASSUME ContainersInv, [Next]_vars
  PROVE  [Pile!Next]_<<During("stack", Con!Stacked, <<>>), During("stack", popped, 0)>>
<1>1. CASE which = "stack" /\ Con!StackNext
  <2>1. /\ During("stack", Con!Stacked, <<>>) = Con!Stacked
        /\ During("stack", Con!Stacked, <<>>)' = Con!Stacked'
        /\ During("stack", popped, 0) = popped
        /\ During("stack", popped, 0)' = popped'
    BY <1>1, ContainersMoves DEF During
  <2>2. StackInv
    BY DEF ContainersInv
  <2>3. CASE \E e \in Elements : /\ Con!Stacked' = Append(Con!Stacked, e)
                                 /\ popped' = popped
    BY <2>1, <2>3 DEF Pile!Next, Pile!Put
  <2>4. CASE /\ Con!Stacked # <<>> /\ popped' = Con!Stacked[Len(Con!Stacked)]
             /\ Con!Stacked' = SubSeq(Con!Stacked, 1, Len(Con!Stacked) - 1)
    BY <2>1, <2>4 DEF Pile!Next, Pile!Take
  <2>5. CASE Con!Stacked' = <<>> /\ popped' = popped
    BY <2>1, <2>5 DEF Pile!Next, Pile!Clear
  <2>6. CASE Con!Stacked' = Con!Stacked /\ popped' = popped
    BY <2>1, <2>6
  <2> QED
    BY <1>1, <2>2, <2>3, <2>4, <2>5, <2>6, StackStep
<1>2. CASE which = "queue" /\ Con!QueueNext
  BY <1>2, ContainersMoves DEF During
<1>3. CASE UNCHANGED containers
  BY <1>3, ContainersMoves, ContainersStand DEF During
<1> QED
  BY <1>1, <1>2, <1>3, ContainersMoves
-----------------------------------------------------------------------------
(* The sorts. *)

\* Place h of the array has been read, and key belongs there.
Filled(s, h, key) == [s EXCEPT ![h] = key]

Swapped(s, i, j) == [s EXCEPT ![i] = s[j], ![j] = s[i]]

\* f pairs off the elements of S and T.
Pairs(f, S, T) == /\ \A x, y \in S : f[x] = f[y] => x = y
                  /\ \A y \in T : \E x \in S : f[x] = y

InOrder(s, l, r) == \A p, q \in l..r : p < q => s[p] <= s[q]

\* The array with what is in hand put back.
Hole == IF loop.at = "shift" THEN loop.j + loop.k
        ELSE IF loop.at = "left" THEN loop.j ELSE loop.i

Whole == IF loop.at \in {"shift", "right", "left", "place"}
         THEN Filled(array, Hole, loop.key) ELSE array

Calls == [left : Int, right : Int, half : 0..2]

SortTypes ==
  /\ given \in Seq(Int)
  /\ array \in [1..Len(given) -> Int] /\ temp \in [1..Len(given) -> Int]
  /\ recursion \in Seq(Calls)
  /\ loop.i \in Int /\ loop.j \in Int /\ loop.k \in Int /\ loop.key \in Int

\* But for place h, the first i elements are in order, and key belongs before
\* those behind h.
RunOpen(s, h, i, key) ==
  /\ \A p, q \in 1..i : p < q /\ p # h /\ q # h => s[p] <= s[q]
  /\ \A q \in (h + 1)..i : key <= s[q]

ShellInv ==
  /\ loop.at = "insert" =>
       /\ loop.k \in 1..Len(given) /\ loop.i \in (loop.k + 1)..(Len(given) + 1)
       /\ loop.k = 1 => InOrder(array, 1, loop.i - 1)
  /\ loop.at = "shift" =>
       /\ loop.k \in 1..Len(given) /\ loop.i \in (loop.k + 1)..Len(given)
       /\ loop.j \in (1 - loop.k)..(loop.i - loop.k)
       /\ loop.k = 1 => RunOpen(array, loop.j + 1, loop.i, loop.key)
  /\ loop.at = "sorted" => InOrder(array, 1, Len(given))

Within(c, x) == c.left <= x /\ x <= c.right

Inside(open, n) == \A a \in DOMAIN open : open[a].left >= 1 /\ open[a].right <= n

Apart(open) ==
  \A a, b \in DOMAIN open : \A x \in Int : Within(open[a], x) /\ Within(open[b], x) => a = b

\* What is out of order is in a part that has still to be sorted.
Parted(s, n, open) ==
  \A x, y \in 1..n : x < y => \/ s[x] <= s[y]
                              \/ \E a \in DOMAIN open : Within(open[a], x) /\ Within(open[a], y)

\* No element before i is above the key, and none behind j below it.
Split(s, c, i, j, key) ==
  /\ c.left <= i /\ i <= j /\ j <= c.right
  /\ \A x \in c.left..(i - 1) : s[x] <= key
  /\ \A x \in (j + 1)..c.right : key <= s[x]

QuickInv ==
  /\ Inside(recursion, Len(given)) /\ Apart(recursion)
  /\ Parted(Whole, Len(given), recursion)
  /\ loop.at # "sort" => /\ recursion # <<>>
                         /\ Split(array, Srt!Top, loop.i, loop.j, loop.key)
  /\ loop.at = "place" => loop.i = loop.j

\* The half that the call of merge_sort is sorting.
PartLeft(c) == IF c.half = 1 THEN c.left ELSE Srt!Middle(c) + 1
PartRight(c) == IF c.half = 1 THEN Srt!Middle(c) ELSE c.right

\* Every call is inside the half that those before it are sorting.
Nested(open, n) ==
  /\ \A a, b \in DOMAIN open : a < b =>
       /\ open[a].half \in {1, 2} /\ open[a].left < open[a].right
       /\ PartLeft(open[a]) <= open[b].left /\ open[b].right <= PartRight(open[a])
       /\ b = a + 1 => /\ open[b].left = PartLeft(open[a])
                       /\ open[b].right = PartRight(open[a])
  /\ open # <<>> => open[1].left = 1 /\ open[1].right = n

\* The halves that a call has sorted.
HalvesSorted(s, n, open) ==
  /\ open = <<>> => InOrder(s, 1, n)
  /\ \A a \in DOMAIN open :
       /\ open[a].half = 2 => InOrder(s, open[a].left, Srt!Middle(open[a]))
       /\ a = Len(open) /\ open[a].half = 1 => InOrder(s, open[a].left, Srt!Middle(open[a]))
       /\ a = Len(open) /\ open[a].half = 2
            => InOrder(s, Srt!Middle(open[a]) + 1, open[a].right)

\* The merged elements are those of the two runs before i and j, in order, and
\* the first of what is left of either run comes after them.
Merged(t, s, l, m, r, i, j, k) ==
  /\ \E f \in [l..(k - 1) -> l..(i - 1) \union (m + 1)..(j - 1)] :
       /\ Pairs(f, l..(k - 1), l..(i - 1) \union (m + 1)..(j - 1))
       /\ \A x \in l..(k - 1) : t[x] = s[f[x]]
  /\ InOrder(t, l, k - 1)
  /\ \A x \in l..(k - 1) : /\ i <= m => t[x] <= s[i]
                           /\ j <= r => t[x] <= s[j]

MergeInv ==
  /\ Inside(recursion, Len(given)) /\ Nested(recursion, Len(given))
  /\ HalvesSorted(array, Len(given), recursion)
  /\ loop.at = "merge" =>
       /\ recursion # <<>> /\ Srt!Top.half = 2 /\ Srt!Top.left < Srt!Top.right
       /\ loop.i \in Srt!Top.left..(Srt!Middle(Srt!Top) + 1)
       /\ loop.j \in (Srt!Middle(Srt!Top) + 1)..(Srt!Top.right + 1)
       /\ loop.k = loop.i + loop.j - Srt!Middle(Srt!Top) - 1
       /\ Merged(temp, array, Srt!Top.left, Srt!Middle(Srt!Top), Srt!Top.right,
                 loop.i, loop.j, loop.k)

SortInv ==
  /\ SortTypes /\ Srt!Reordered(Whole, given)
  /\ loop.at \in {"insert", "shift", "sorted"} => ShellInv
  /\ loop.at \in {"sort", "right", "left", "place"} => QuickInv
  /\ loop.at \in {"merge_sort", "merge"} => MergeInv
  /\ loop.at \in {"insert", "shift", "sorted", "sort", "right", "left", "place",
                  "merge_sort", "merge"}

\* An array of n numbers.
Numbered(s, n) == s \in [1..n -> Int]

\* f says where each element of s is in t.
Reordering(f, n, s, t) ==
  f \in [1..n -> 1..n] /\ Pairs(f, 1..n, 1..n) /\ \A x \in 1..n : s[x] = t[f[x]]

LEMMA Reorders ==
  ASSUME NEW n \in Nat, NEW s, NEW t, DOMAIN s = 1..n, DOMAIN t = 1..n
  PROVE  Srt!Reordered(s, t) <=> \E f : Reordering(f, n, s, t)
<1>1. ASSUME NEW f \in [1..n -> 1..n], Pairs(f, 1..n, 1..n)
      PROVE  f \in Srt!Bijection(1..n, 1..n)
  BY <1>1 DEF Pairs, Srt!Bijection, Srt!Injection, Srt!Surjection, Srt!IsInjective
<1>2. ASSUME NEW f \in Srt!Bijection(1..n, 1..n)
      PROVE  f \in [1..n -> 1..n] /\ Pairs(f, 1..n, 1..n)
  BY <1>2 DEF Pairs, Srt!Bijection, Srt!Injection, Srt!Surjection, Srt!IsInjective
<1> QED
  BY <1>1, <1>2 DEF Srt!Reordered, Reordering

\* Nothing done and two reorderings are reorderings.
LEMMA ReorderedSelf ==
  ASSUME NEW n \in Nat, NEW s, DOMAIN s = 1..n PROVE Srt!Reordered(s, s)
<1> PICK f : f = [x \in 1..n |-> x]
  OBVIOUS
<1>1. f \in [1..n -> 1..n] /\ Pairs(f, 1..n, 1..n) /\ \A x \in 1..n : s[x] = s[f[x]]
  BY DEF Pairs
<1> QED
  BY <1>1, Reorders DEF Reordering

LEMMA ReorderedTwice ==
  ASSUME NEW n \in Nat, NEW s, NEW t, NEW u,
         DOMAIN s = 1..n, DOMAIN t = 1..n, DOMAIN u = 1..n,
         Srt!Reordered(s, t), Srt!Reordered(t, u)
  PROVE  Srt!Reordered(s, u)
<1>1. PICK f, g : Reordering(f, n, s, t) /\ Reordering(g, n, t, u)
  BY Reorders
<1>2. PICK h : h = [x \in 1..n |-> g[f[x]]]
  OBVIOUS
<1>3. /\ \A x \in 1..n : f[x] \in 1..n /\ s[x] = t[f[x]]
      /\ \A x \in 1..n : g[x] \in 1..n /\ t[x] = u[g[x]]
  BY <1>1 DEF Reordering
<1>4. /\ \A x, y \in 1..n : f[x] = f[y] => x = y
      /\ \A x, y \in 1..n : g[x] = g[y] => x = y
      /\ \A y \in 1..n : \E x \in 1..n : f[x] = y
      /\ \A y \in 1..n : \E x \in 1..n : g[x] = y
  BY <1>1 DEF Reordering, Pairs
<1>5. h \in [1..n -> 1..n] /\ \A x \in 1..n : s[x] = u[h[x]] /\ h[x] = g[f[x]]
  BY <1>2, <1>3
<1>6. ASSUME NEW x \in 1..n, NEW y \in 1..n, h[x] = h[y] PROVE x = y
  <2>1. g[f[x]] = g[f[y]] /\ f[x] \in 1..n /\ f[y] \in 1..n
    BY <1>3, <1>5, <1>6
  <2>2. PICK a \in 1..n, b \in 1..n : a = f[x] /\ b = f[y]
    BY <2>1
  <2>3. \A c, d \in 1..n : g[c] = g[d] => c = d
    BY <1>1 DEF Reordering, Pairs
  <2>4. g[a] = g[b]
    BY <2>1, <2>2
  <2>5. a = b
    BY <2>3, <2>4, Zenon
  <2> QED
    BY <2>2, <2>5, <1>4
<1>7. ASSUME NEW z \in 1..n PROVE \E x \in 1..n : h[x] = z
  <2>1. PICK y \in 1..n : g[y] = z
    BY <1>4
  <2>2. PICK x \in 1..n : f[x] = y
    BY <1>4
  <2> QED
    BY <1>5, <2>1, <2>2
<1>8. Reordering(h, n, s, u)
  BY <1>5, <1>6, <1>7 DEF Reordering, Pairs
<1> QED
  BY <1>8, Reorders

\* t is s with two elements exchanged, or with one in another's place.
SwapOf(t, s, i, j, n) == /\ Numbered(t, n) /\ t[i] = s[j] /\ t[j] = s[i]
                         /\ \A x \in 1..n : x # i /\ x # j => t[x] = s[x]

FilledOf(t, s, h, key, n) == /\ Numbered(t, n) /\ t[h] = key
                             /\ \A x \in 1..n : x # h => t[x] = s[x]

LEMMA SwapFacts ==
  ASSUME NEW n \in Nat, NEW s, Numbered(s, n), NEW i \in 1..n, NEW j \in 1..n
  PROVE  SwapOf(Swapped(s, i, j), s, i, j, n)
BY DEF Swapped, Numbered, SwapOf

LEMMA FilledFacts ==
  ASSUME NEW n \in Nat, NEW s, Numbered(s, n), NEW h \in 1..n, NEW key \in Int
  PROVE  FilledOf(Filled(s, h, key), s, h, key, n)
BY DEF Filled, Numbered, FilledOf

LEMMA SwapReorders ==
  ASSUME NEW n \in Nat, NEW s, Numbered(s, n), NEW i \in 1..n, NEW j \in 1..n
  PROVE  Srt!Reordered(Swapped(s, i, j), s)
<1>1. PICK t : t = Swapped(s, i, j)
  OBVIOUS
<1>2. PICK f : f = [x \in 1..n |-> IF x = j THEN i ELSE IF x = i THEN j ELSE x]
  OBVIOUS
<1>3. f \in [1..n -> 1..n] /\ f[i] = j /\ f[j] = i /\ \A x \in 1..n : x # i /\ x # j => f[x] = x
  BY <1>2
<1>4. Numbered(t, n) /\ \A x \in 1..n : t[x] = s[f[x]]
  <2>1. /\ Numbered(t, n) /\ t[i] = s[j] /\ t[j] = s[i]
        /\ \A x \in 1..n : x # i /\ x # j => t[x] = s[x]
    BY <1>1, SwapFacts DEF SwapOf
  <2> QED
    BY <2>1, <1>3
<1>5. Pairs(f, 1..n, 1..n)
  <2>1. \A x \in 1..n : f[x] \in 1..n /\ f[f[x]] = x
    BY <1>3
  <2> QED
    BY <2>1 DEF Pairs
<1>6. Reordering(f, n, t, s)
  BY <1>3, <1>4, <1>5 DEF Reordering
<1> QED
  BY <1>1, <1>4, <1>6, Reorders DEF Numbered

\* To move an element into the free place is to swap it with the one in hand.
LEMMA MoveHole ==
  ASSUME NEW n \in Nat, NEW s, Numbered(s, n), NEW h \in 1..n, NEW x \in 1..n,
         NEW key \in Int
  PROVE  Filled(Filled(s, h, s[x]), x, key) = Swapped(Filled(s, h, key), h, x)
<1>1. PICK w, moved : w = Filled(s, h, key) /\ moved = Filled(s, h, s[x])
  OBVIOUS
<1>2. PICK left, right : left = Filled(moved, x, key) /\ right = Swapped(w, h, x)
  OBVIOUS
<1>3. FilledOf(w, s, h, key, n)
  BY <1>1, FilledFacts
<1>4. s[x] \in Int /\ FilledOf(moved, s, h, s[x], n)
  <2>1. s[x] \in Int
    BY DEF Numbered
  <2> QED
    BY <2>1, <1>1, FilledFacts
<1>5. FilledOf(left, moved, x, key, n)
  <2>1. Numbered(moved, n)
    BY <1>4 DEF FilledOf
  <2> QED
    BY <2>1, <1>2, FilledFacts
<1>6. SwapOf(right, w, h, x, n)
  <2>1. Numbered(w, n)
    BY <1>3 DEF FilledOf
  <2> QED
    BY <2>1, <1>2, SwapFacts
<1>7. \A y \in 1..n : left[y] = right[y]
  BY <1>3, <1>4, <1>5, <1>6 DEF FilledOf, SwapOf
<1>8. left = right
  BY <1>5, <1>6, <1>7 DEF FilledOf, SwapOf, Numbered
<1> QED
  BY <1>1, <1>2, <1>8 DEF Filled

\* So the array with what is in hand stays a reordering.
LEMMA StillReordered ==
  ASSUME NEW n \in Nat, NEW s, Numbered(s, n), NEW u, DOMAIN u = 1..n,
         NEW h \in 1..n, NEW x \in 1..n, NEW key \in Int,
         Srt!Reordered(Filled(s, h, key), u)
  PROVE  Srt!Reordered(Swapped(Filled(s, h, key), h, x), u)
<1>1. PICK w, t : w = Filled(s, h, key) /\ t = Swapped(w, h, x)
  OBVIOUS
<1>2. Numbered(w, n)
  BY <1>1, FilledFacts DEF FilledOf
<1>3. Numbered(t, n)
  BY <1>1, <1>2, SwapFacts DEF SwapOf
<1>4. Srt!Reordered(t, w)
  BY <1>1, <1>2, SwapReorders
<1>5. DOMAIN w = 1..n /\ DOMAIN t = 1..n
  BY <1>2, <1>3 DEF Numbered
<1> QED
  BY <1>1, <1>4, <1>5, ReorderedTwice

\* The record of a loop has the variables it is made of.
LoopIs(l, at, i, j, k, key) ==
  l.at = at /\ l.i = i /\ l.j = j /\ l.k = k /\ l.key = key

LEMMA LoopFacts ==
  ASSUME NEW at, NEW i, NEW j, NEW k, NEW key
  PROVE  LoopIs(Srt!Loop(at, i, j, k, key), at, i, j, k, key)
BY DEF Srt!Loop, LoopIs

\* What every step may rely on.
Arrays(n, s) ==
  /\ n \in Nat /\ given \in Seq(Int) /\ n = Len(given) /\ s = array /\ Numbered(s, n)
  /\ temp \in [1..n -> Int] /\ recursion \in Seq(Calls)

LEMMA ArraysFacts ==
  ASSUME SortInv
  PROVE  \E n, s : Arrays(n, s)
<1>1. Arrays(Len(given), array)
  BY DEF SortInv, SortTypes, Arrays, Numbered
<1> QED
  BY <1>1

\* The loop after a step, and what it has to be like.
LEMMA ShellStands ==
  ASSUME NEW n, NEW s, Arrays(n, s), NEW t, Numbered(t, n),
         given' = given, array' = t, temp' = temp, recursion' = recursion,
         NEW at, NEW i \in Int, NEW j \in Int, NEW k \in Int, NEW key \in Int,
         LoopIs(loop', at, i, j, k, key),
         at \in {"insert", "shift", "sorted"},
         ShellInv', Srt!Reordered(Whole', given)
  PROVE  SortInv'
<1>1. loop'.at = at /\ loop'.i = i /\ loop'.j = j /\ loop'.k = k /\ loop'.key = key
  BY DEF LoopIs
<1>2. SortTypes'
  BY <1>1 DEF Arrays, SortTypes, Numbered
<1> QED
  BY <1>1, <1>2 DEF SortInv

\* One element is taken out, or the next gap begins.
LEMMA InsertStep == ASSUME SortInv, Srt!Insert PROVE SortInv'
<1>1. PICK n, s : Arrays(n, s)
  BY ArraysFacts
<1>2. PICK i, k : /\ i = loop.i /\ k = loop.k
                  /\ k \in 1..n /\ i \in (k + 1)..(n + 1)
                  /\ k = 1 => InOrder(s, 1, i - 1)
  BY <1>1 DEF SortInv, ShellInv, Srt!Insert, Arrays
<1>3. n \in Nat /\ n = Len(given) /\ s = array /\ Numbered(s, n)
  BY <1>1 DEF Arrays
<1>4. Srt!Reordered(s, given)
  BY <1>3 DEF SortInv, Whole, Srt!Insert
<1>5. /\ array' = s /\ given' = given /\ temp' = temp /\ recursion' = recursion
      /\ i <= n => loop' = Srt!Loop("shift", i, i - k, k, s[i])
      /\ ~(i <= n) => loop' = Srt!ShellAt(k \div 2 + 1, k \div 2)
  <2>1. Len(array) = n
    BY <1>3 DEF Numbered
  <2> QED
    BY <2>1, <1>2, <1>3 DEF Srt!Insert
<1>6. CASE i <= n
  <2>1. PICK j, key : j = i - k /\ key = s[i] /\ j \in Int /\ key \in Int
    BY <1>2, <1>3, <1>6 DEF Numbered
  <2>2. LoopIs(loop', "shift", i, j, k, key)
    BY <1>5, <1>6, <2>1, LoopFacts
  <2>3. /\ loop'.at = "shift" /\ loop'.i = i /\ loop'.j = j /\ loop'.k = k
        /\ loop'.key = key
    BY <2>2 DEF LoopIs
  <2>4. Whole' = s
    <3>1. Whole' = Filled(s, j + k, key)
      BY <1>5, <2>3 DEF Whole, Hole
    <3>2. j + k = i
      BY <1>2, <2>1
    <3> QED
      BY <3>1, <3>2, <2>1, <1>2, <1>3 DEF Filled, Numbered
  <2>5. ShellInv'
    <3>1. k = 1 => RunOpen(s, j + 1, i, key)
      <4>1. k = 1 => j + 1 = i
        BY <1>2, <2>1
      <4>2. k = 1 => \A p, q \in 1..i : p < q /\ p # i /\ q # i => s[p] <= s[q]
        BY <1>2 DEF InOrder
      <4> QED
        BY <4>1, <4>2, <1>2 DEF RunOpen
    <3>2. k \in 1..n /\ i \in (k + 1)..n /\ j \in (1 - k)..(i - k)
      BY <1>2, <1>3, <1>6, <2>1
    <3> QED
      BY <3>1, <3>2, <2>3, <1>3, <1>5 DEF ShellInv
  <2> QED
    BY <1>1, <1>2, <1>3, <1>4, <1>5, <2>1, <2>2, <2>4, <2>5, ShellStands
<1>7. CASE ~(i <= n)
  <2>1. PICK gap, at : /\ gap = k \div 2 /\ gap \in Nat /\ gap <= n
                       /\ gap < 1 => k = 1
                       /\ at = IF gap >= 1 THEN "insert" ELSE "sorted"
    BY <1>2, <1>3
  <2>2. LoopIs(loop', at, gap + 1, 0, gap, 0)
    BY <1>5, <1>7, <2>1, LoopFacts DEF Srt!ShellAt
  <2>3. loop'.at = at /\ loop'.i = gap + 1 /\ loop'.k = gap
    BY <2>2 DEF LoopIs
  <2>4. Whole' = s
    BY <2>1, <2>3, <1>5 DEF Whole
  <2>5. ShellInv'
    <3>1. at = "insert" => gap \in 1..n /\ gap + 1 \in (gap + 1)..(n + 1)
                           /\ (gap = 1 => InOrder(s, 1, (gap + 1) - 1))
      BY <2>1, <1>3 DEF InOrder
    <3>2. at = "sorted" => InOrder(s, 1, n)
      <4>1. at = "sorted" => k = 1 /\ i - 1 = n
        BY <2>1, <1>2, <1>3, <1>7
      <4> QED
        BY <4>1, <1>2
    <3> QED
      BY <3>1, <3>2, <2>1, <2>3, <1>3, <1>5 DEF ShellInv
  <2>6. gap + 1 \in Int /\ 0 \in Int /\ gap \in Int /\ at \in {"insert", "shift", "sorted"}
    BY <2>1
  <2> QED
    BY <1>1, <1>3, <1>4, <1>5, <2>2, <2>4, <2>5, <2>6, ShellStands
<1> QED
  BY <1>6, <1>7

\* A larger element moves up, and its place is free.
LEMMA ShiftStep == ASSUME SortInv, Srt!Shift PROVE SortInv'
<1>1. PICK n, s : Arrays(n, s)
  BY ArraysFacts
<1> PICK i, j, k, key : i = loop.i /\ j = loop.j /\ k = loop.k /\ key = loop.key
  OBVIOUS
<1>2. /\ i = loop.i /\ j = loop.j /\ k = loop.k /\ key = loop.key
      /\ key \in Int /\ n \in Nat
      /\ k \in 1..n /\ i \in (k + 1)..n /\ j \in (1 - k)..(i - k)
      /\ k = 1 => RunOpen(s, j + 1, i, key)
  <2>1. loop.at = "shift" /\ ShellInv /\ key \in Int
    BY DEF SortInv, SortTypes, Srt!Shift
  <2>2. n \in Nat /\ n = Len(given) /\ s = array
    BY <1>1 DEF Arrays
  <2> QED
    BY <2>1, <2>2 DEF ShellInv
<1>3. n \in Nat /\ n = Len(given) /\ s = array /\ Numbered(s, n)
  BY <1>1 DEF Arrays
<1>4. /\ j >= 1 /\ key < s[j] /\ array' = Filled(s, j + k, s[j])
      /\ loop' = Srt!Loop("shift", i, j - k, k, key)
      /\ given' = given /\ temp' = temp /\ recursion' = recursion
  BY <1>2, <1>3 DEF Srt!Shift, Filled
<1>5. PICK h, t, rest : h = j + k /\ t = Filled(s, h, s[j]) /\ rest = j - k
  OBVIOUS
<1>6. /\ h \in 1..n /\ j \in 1..n /\ s[j] \in Int /\ rest \in Int /\ rest + k = j
      /\ h <= i /\ k <= h
  <2>1. h \in 1..n /\ j \in 1..n /\ h <= i /\ k <= h
    BY <1>2, <1>4, <1>5
  <2>2. rest \in Int /\ rest + k = j
    BY <1>2, <1>5
  <2> QED
    BY <2>1, <2>2, <1>3 DEF Numbered
<1>7. FilledOf(t, s, h, s[j], n)
  BY <1>3, <1>5, <1>6, FilledFacts
<1>8. LoopIs(loop', "shift", i, rest, k, key)
  BY <1>4, <1>5, LoopFacts
<1>9. /\ loop'.at = "shift" /\ loop'.i = i /\ loop'.j = rest /\ loop'.k = k
      /\ loop'.key = key
  BY <1>8 DEF LoopIs
<1>10. Srt!Reordered(Whole', given)
  <2>1. Whole = Filled(s, h, key)
    BY <1>2, <1>3, <1>5 DEF Whole, Hole, Srt!Shift
  <2>2. Whole' = Filled(t, j, key)
    BY <1>4, <1>5, <1>6, <1>9 DEF Whole, Hole
  <2>3. Filled(t, j, key) = Swapped(Filled(s, h, key), h, j)
    BY <1>2, <1>3, <1>5, <1>6, MoveHole
  <2>4. Srt!Reordered(Filled(s, h, key), given)
    BY <2>1 DEF SortInv
  <2>5. DOMAIN given = 1..n
    BY <1>1 DEF Arrays
  <2> QED
    BY <2>2, <2>3, <2>4, <2>5, <1>2, <1>3, <1>6, StillReordered
<1>11. ShellInv'
  <2>1. k = 1 => RunOpen(t, rest + 1, i, key)
    <3> SUFFICES ASSUME k = 1 PROVE RunOpen(t, j, i, key)
      <4>1. k = 1 => rest + 1 = j
        BY <1>6
      <4> QED
        BY <4>1
    <3>1. h = j + 1
      BY <1>5
    <3>2. /\ \A p, q \in 1..i : p < q /\ p # h /\ q # h => s[p] <= s[q]
          /\ \A q \in (h + 1)..i : key <= s[q]
      BY <1>2, <3>1 DEF RunOpen
    <3>3. \A p \in 1..i : p # h => t[p] = s[p]
      <4>1. \A p \in 1..i : p \in 1..n
        BY <1>2
      <4> QED
        BY <4>1, <1>7 DEF FilledOf
    <3>4. t[h] = s[j]
      BY <1>7 DEF FilledOf
    <3>5. ASSUME NEW p \in 1..i, NEW q \in 1..i, p < q, p # j, q # j
          PROVE  t[p] <= t[q]
      <4>1. CASE p = h
        <5>1. t[p] = s[j] /\ t[q] = s[q] /\ j < q /\ j \in 1..i /\ j # h /\ q # h
          BY <3>1, <3>3, <3>4, <3>5, <4>1, <1>2, <1>6
        <5> QED
          BY <5>1, <3>2
      <4>2. CASE q = h
        <5>1. t[q] = s[j] /\ t[p] = s[p] /\ p < j /\ j \in 1..i /\ j # h /\ p # h
          BY <3>1, <3>3, <3>4, <3>5, <4>2, <1>2, <1>6
        <5> QED
          BY <5>1, <3>2
      <4>3. CASE p # h /\ q # h
        BY <3>2, <3>3, <3>5, <4>3
      <4> QED
        BY <4>1, <4>2, <4>3
    <3>6. ASSUME NEW q \in (j + 1)..i PROVE key <= t[q]
      <4>1. CASE q = h
        BY <4>1, <3>4, <1>2, <1>4, <1>6
      <4>2. CASE q # h
        <5>1. q \in (h + 1)..i /\ q \in 1..i
          BY <3>1, <4>2, <1>2, <1>6
        <5> QED
          BY <5>1, <4>2, <3>2, <3>3
      <4> QED
        BY <4>1, <4>2
    <3> QED
      BY <3>5, <3>6 DEF RunOpen
  <2>2. rest \in (1 - k)..(i - k)
    BY <1>2, <1>4, <1>5
  <2> QED
    BY <2>1, <2>2, <1>2, <1>3, <1>4, <1>5, <1>9 DEF ShellInv
<1>12. Numbered(t, n) /\ i \in Int /\ k \in Int
  BY <1>2, <1>7 DEF FilledOf
<1> QED
  BY <1>1, <1>2, <1>4, <1>5, <1>6, <1>8, <1>10, <1>11, <1>12, ShellStands

\* The element in hand goes in where it belongs.
LEMMA PutStep == ASSUME SortInv, Srt!Put PROVE SortInv'
<1>1. PICK n, s : Arrays(n, s)
  BY ArraysFacts
<1> PICK i, j, k, key : i = loop.i /\ j = loop.j /\ k = loop.k /\ key = loop.key
  OBVIOUS
<1>2. /\ i = loop.i /\ j = loop.j /\ k = loop.k /\ key = loop.key
      /\ key \in Int /\ n \in Nat
      /\ k \in 1..n /\ i \in (k + 1)..n /\ j \in (1 - k)..(i - k)
      /\ k = 1 => RunOpen(s, j + 1, i, key)
  <2>1. loop.at = "shift" /\ ShellInv /\ key \in Int
    BY DEF SortInv, SortTypes, Srt!Put
  <2>2. n \in Nat /\ n = Len(given) /\ s = array
    BY <1>1 DEF Arrays
  <2> QED
    BY <2>1, <2>2 DEF ShellInv
<1>3. n \in Nat /\ n = Len(given) /\ s = array /\ Numbered(s, n)
  BY <1>1 DEF Arrays
<1>4. /\ j >= 1 => s[j] <= key
      /\ array' = Filled(s, j + k, key)
      /\ loop' = Srt!Loop("insert", i + 1, 0, k, 0)
      /\ given' = given /\ temp' = temp /\ recursion' = recursion
  <2>1. j >= 1 => s[j] \in Int
    BY <1>2, <1>3 DEF Numbered
  <2> QED
    BY <2>1, <1>2, <1>3 DEF Srt!Put, Filled
<1>5. PICK h, t : h = j + k /\ t = Filled(s, h, key)
  OBVIOUS
<1>6. h \in 1..n /\ h <= i
  BY <1>2, <1>5
<1>7. FilledOf(t, s, h, key, n)
  BY <1>2, <1>3, <1>5, <1>6, FilledFacts
<1>8. LoopIs(loop', "insert", i + 1, 0, k, 0)
  BY <1>4, LoopFacts
<1>9. loop'.at = "insert" /\ loop'.i = i + 1 /\ loop'.k = k
  BY <1>8 DEF LoopIs
<1>10. Srt!Reordered(Whole', given)
  <2>1. Whole = t
    BY <1>2, <1>3, <1>5 DEF Whole, Hole, Srt!Put
  <2>2. Whole' = t
    BY <1>4, <1>5, <1>9 DEF Whole
  <2> QED
    BY <2>1, <2>2 DEF SortInv
<1>11. ShellInv'
  <2>1. k = 1 => InOrder(t, 1, (i + 1) - 1)
    <3> SUFFICES ASSUME k = 1, NEW p \in 1..i, NEW q \in 1..i, p < q
                 PROVE  t[p] <= t[q]
      BY <1>2 DEF InOrder
    <3>1. h = j + 1
      BY <1>5
    <3>2. /\ \A x, y \in 1..i : x < y /\ x # h /\ y # h => s[x] <= s[y]
          /\ \A y \in (h + 1)..i : key <= s[y]
      BY <1>2, <3>1 DEF RunOpen
    <3>3. /\ \A x \in 1..i : x # h => t[x] = s[x]
          /\ t[h] = key
      <4>1. \A x \in 1..i : x \in 1..n
        BY <1>2
      <4> QED
        BY <4>1, <1>7 DEF FilledOf
    <3>4. CASE p = h
      <4>1. q \in (h + 1)..i /\ q # h
        BY <3>4, <1>6
      <4> QED
        BY <4>1, <3>2, <3>3, <3>4
    <3>5. CASE q = h
      <4>1. j >= 1 /\ p <= j /\ p # h /\ j # h /\ j \in 1..i
        BY <3>1, <3>5, <1>2, <1>6
      <4>2. s[p] <= s[j] /\ s[j] <= key
        <5>1. CASE p = j
          BY <5>1, <4>1, <1>2, <1>3, <1>4 DEF Numbered
        <5>2. CASE p # j
          BY <5>2, <4>1, <3>2, <1>4
        <5> QED
          BY <5>1, <5>2
      <4>3. s[p] \in Int /\ s[j] \in Int
        BY <4>1, <1>2, <1>3 DEF Numbered
      <4> QED
        BY <4>1, <4>2, <4>3, <3>3, <3>5, <1>2
    <3>6. CASE p # h /\ q # h
      BY <3>6, <3>2, <3>3
    <3> QED
      BY <3>4, <3>5, <3>6
  <2>2. i + 1 \in (k + 1)..(n + 1)
    BY <1>2
  <2> QED
    BY <2>1, <2>2, <1>2, <1>3, <1>4, <1>5, <1>9 DEF ShellInv
<1>12. Numbered(t, n) /\ i + 1 \in Int /\ k \in Int /\ 0 \in Int
  BY <1>2, <1>7 DEF FilledOf
<1> QED
  BY <1>1, <1>2, <1>4, <1>5, <1>8, <1>10, <1>11, <1>12, ShellStands

\* The calls without the last one, and with two in its place.
Fewer(r, open) == /\ r \in Seq(Calls) /\ Len(open) = Len(r) + 1
                  /\ \A x \in 1..Len(r) : r[x] = open[x]

Instead(r, open, a, b) ==
  /\ r \in Seq(Calls) /\ Len(r) = Len(open) + 1
  /\ \A x \in 1..(Len(open) - 1) : r[x] = open[x]
  /\ r[Len(open)] = a /\ r[Len(open) + 1] = b

LEMMA FewerFacts ==
  ASSUME NEW open \in Seq(Calls), open # <<>> PROVE Fewer(Srt!Front(open), open)
<1>1. PICK m \in Nat : Len(open) = m + 1
  <2>1. Len(open) - 1 \in Nat /\ Len(open) = (Len(open) - 1) + 1
    OBVIOUS
  <2> QED
    BY <2>1
<1>2. PICK r : r = Srt!Front(open)
  OBVIOUS
<1>3. r = SubSeq(open, 1, m)
  BY <1>1, <1>2 DEF Srt!Front
<1>4. r \in Seq(Calls) /\ Len(r) = m /\ \A x \in 1..m : r[x] = open[x]
  BY <1>1, <1>3
<1> QED
  BY <1>1, <1>2, <1>4 DEF Fewer

\* The elements of two sequences one behind the other.
LEMMA JoinFacts ==
  ASSUME NEW S, NEW f \in Seq(S), NEW g \in Seq(S)
  PROVE  /\ f \o g \in Seq(S) /\ Len(f \o g) = Len(f) + Len(g)
         /\ \A x \in 1..(Len(f) + Len(g)) :
              (f \o g)[x] = IF x <= Len(f) THEN f[x] ELSE g[x - Len(f)]
OBVIOUS

LEMMA InsteadFacts ==
  ASSUME NEW open \in Seq(Calls), open # <<>>, NEW a \in Calls, NEW b \in Calls
  PROVE  Instead(Srt!Front(open) \o <<a, b>>, open, a, b)
<1>1. PICK f : f = Srt!Front(open)
  OBVIOUS
<1>2. Fewer(f, open)
  BY <1>1, FewerFacts
<1>3. PICK m \in Nat : m = Len(f) /\ Len(open) = m + 1
  BY <1>2 DEF Fewer
<1>4. PICK two : two = <<a, b>>
  OBVIOUS
<1>5. two \in Seq(Calls) /\ Len(two) = 2 /\ two[1] = a /\ two[2] = b
  BY <1>4
<1>6. PICK r : r = f \o two
  OBVIOUS
<1>7. f \in Seq(Calls) /\ \A x \in 1..m : f[x] = open[x]
  BY <1>2, <1>3 DEF Fewer
<1>8. /\ r \in Seq(Calls) /\ Len(r) = m + 2 /\ r[m + 1] = a /\ r[m + 2] = b
      /\ \A x \in 1..m : r[x] = f[x]
  <2>1. r \in Seq(Calls) /\ Len(r) = Len(f) + Len(two)
    BY <1>5, <1>6, <1>7, JoinFacts
  <2>2. \A x \in 1..(Len(f) + Len(two)) :
          r[x] = IF x <= Len(f) THEN f[x] ELSE two[x - Len(f)]
    BY <1>5, <1>6, <1>7, JoinFacts
  <2>3. \A x \in 1..(m + 2) : r[x] = IF x <= m THEN f[x] ELSE two[x - m]
    BY <2>2, <1>3, <1>5
  <2>4. r[m + 1] = two[1] /\ r[m + 2] = two[2]
    BY <2>3
  <2> QED
    BY <2>1, <2>3, <2>4, <1>3, <1>5
<1>9. Instead(r, open, a, b)
  BY <1>3, <1>7, <1>8 DEF Instead
<1> QED
  BY <1>1, <1>4, <1>6, <1>9

\* The record of a call has what it is made of.
CallIs(c, left, right, half) ==
  c \in Calls /\ c.left = left /\ c.right = right /\ c.half = half

LEMMA CallFacts ==
  ASSUME NEW left \in Int, NEW right \in Int, NEW half \in 0..2
  PROVE  CallIs(Srt!Call(left, right, half), left, right, half)
BY DEF Srt!Call, CallIs, Calls

LEMMA TopFacts ==
  ASSUME NEW n, NEW s, Arrays(n, s), recursion # <<>>
  PROVE  /\ Len(recursion) \in DOMAIN recursion /\ Len(recursion) \in Nat \ {0}
         /\ Srt!Top = recursion[Len(recursion)] /\ Srt!Top \in Calls
         /\ Srt!Top.left \in Int /\ Srt!Top.right \in Int /\ Srt!Top.half \in 0..2
<1>1. recursion \in Seq(Calls)
  BY DEF Arrays
<1>2. Len(recursion) \in DOMAIN recursion /\ Len(recursion) \in Nat \ {0}
  BY <1>1
<1>3. Srt!Top = recursion[Len(recursion)]
  BY DEF Srt!Top, Srt!Last
<1>4. Srt!Top \in Calls
  BY <1>1, <1>2, <1>3
<1> QED
  BY <1>2, <1>3, <1>4 DEF Calls

\* A swap within one part leaves the parts in their order.
LEMMA PartedSwap ==
  ASSUME NEW n \in Nat, NEW w, Numbered(w, n), NEW open \in Seq(Calls), Apart(open),
         Parted(w, n, open), NEW a \in DOMAIN open, NEW h \in 1..n, NEW x \in 1..n,
         Within(open[a], h), Within(open[a], x), NEW t, SwapOf(t, w, h, x, n)
  PROVE  Parted(t, n, open)
<1> PICK c \in Calls : c = open[a]
  OBVIOUS
<1>1. Within(c, h) /\ Within(c, x) /\ c.left \in Int /\ c.right \in Int
  BY DEF Calls
<1>2. /\ t[h] = w[x] /\ t[x] = w[h]
      /\ \A y \in 1..n : y # h /\ y # x => t[y] = w[y]
  BY DEF SwapOf
<1>3. \A y \in 1..n : ~Within(c, y) => t[y] = w[y]
  BY <1>1, <1>2
<1>4. ASSUME NEW y \in 1..n, Within(c, y)
      PROVE  \E z \in 1..n : Within(c, z) /\ t[y] = w[z]
  BY <1>1, <1>2, <1>4
<1>5. ASSUME NEW p \in 1..n, NEW q \in 1..n, p < q, ~(Within(c, p) /\ Within(c, q))
      PROVE  \/ w[p] <= w[q]
             \/ \E b \in DOMAIN open : b # a /\ Within(open[b], p) /\ Within(open[b], q)
  BY <1>5 DEF Parted
<1>6. \A b \in DOMAIN open, y \in 1..n : b # a /\ Within(c, y) => ~Within(open[b], y)
  BY DEF Apart
<1> SUFFICES ASSUME NEW p \in 1..n, NEW q \in 1..n, p < q, ~(Within(c, p) /\ Within(c, q))
             PROVE  \/ t[p] <= t[q]
                    \/ \E b \in DOMAIN open : Within(open[b], p) /\ Within(open[b], q)
  BY DEF Parted
<1>7. CASE Within(c, p) /\ ~Within(c, q)
  <2>1. PICK z \in 1..n : Within(c, z) /\ t[p] = w[z]
    BY <1>4, <1>7
  <2>2. z < q
    BY <1>1, <1>7, <2>1 DEF Within
  <2>3. w[z] <= w[q]
    BY <1>5, <1>6, <1>7, <2>1, <2>2
  <2> QED
    BY <1>3, <1>7, <2>1, <2>3
<1>8. CASE ~Within(c, p) /\ Within(c, q)
  <2>1. PICK z \in 1..n : Within(c, z) /\ t[q] = w[z]
    BY <1>4, <1>8
  <2>2. p < z
    BY <1>1, <1>8, <2>1 DEF Within
  <2>3. w[p] <= w[z]
    BY <1>5, <1>6, <1>8, <2>1, <2>2
  <2> QED
    BY <1>3, <1>8, <2>1, <2>3
<1>9. CASE ~Within(c, p) /\ ~Within(c, q)
  BY <1>3, <1>5, <1>9
<1> QED
  BY <1>7, <1>8, <1>9

LEMMA QuickStands ==
  ASSUME NEW n, NEW s, Arrays(n, s), NEW t, Numbered(t, n), NEW r \in Seq(Calls),
         given' = given, array' = t, temp' = temp, recursion' = r,
         NEW at, NEW i \in Int, NEW j \in Int, NEW k \in Int, NEW key \in Int,
         LoopIs(loop', at, i, j, k, key),
         at \in {"sort", "right", "left", "place"},
         QuickInv', Srt!Reordered(Whole', given)
  PROVE  SortInv'
<1>1. loop'.at = at /\ loop'.i = i /\ loop'.j = j /\ loop'.k = k /\ loop'.key = key
  BY DEF LoopIs
<1>2. SortTypes'
  BY <1>1 DEF Arrays, SortTypes, Numbered
<1> QED
  BY <1>1, <1>2 DEF SortInv

\* A call of sort that has parted its range, with key in hand for place h.
Parting(n, s, c, i, j, key) ==
  /\ Arrays(n, s) /\ recursion # <<>> /\ c = Srt!Top /\ c \in Calls
  /\ c.left \in 1..n /\ c.right \in 1..n
  /\ i = loop.i /\ j = loop.j /\ key = loop.key
  /\ i \in 1..n /\ j \in 1..n /\ key \in Int
  /\ Split(s, c, i, j, key)

Parts(n, w, open) ==
  /\ open \in Seq(Calls) /\ Inside(open, n) /\ Apart(open) /\ Parted(w, n, open)
  /\ Numbered(w, n) /\ Srt!Reordered(w, given)

LEMMA PartingFacts ==
  ASSUME SortInv, loop.at \in {"right", "left", "place"}
  PROVE  \E n, s, c, i, j, key :
           /\ Parting(n, s, c, i, j, key)
           /\ Parts(n, Filled(s, IF loop.at = "left" THEN j ELSE i, key), recursion)
           /\ loop.at = "place" => i = j
<1>1. PICK n, s : Arrays(n, s)
  BY ArraysFacts
<1>2. PICK c, i, j, key : c = Srt!Top /\ i = loop.i /\ j = loop.j /\ key = loop.key
  OBVIOUS
<1>3. n \in Nat /\ n = Len(given) /\ s = array /\ Numbered(s, n) /\ recursion \in Seq(Calls)
  BY <1>1 DEF Arrays
<1>4. /\ Inside(recursion, n) /\ Apart(recursion) /\ Parted(Whole, n, recursion)
      /\ recursion # <<>> /\ Split(s, c, i, j, key)
      /\ loop.at = "place" => i = j
  BY <1>2, <1>3 DEF SortInv, QuickInv
<1>5. i \in Int /\ j \in Int /\ key \in Int
  BY <1>2 DEF SortInv, SortTypes
<1>6. c \in Calls /\ c.left \in Int /\ c.right \in Int /\ c.left >= 1 /\ c.right <= n
  BY <1>1, <1>2, <1>4, TopFacts DEF Inside
<1>7. c.left <= i /\ i <= j /\ j <= c.right
  BY <1>4 DEF Split
<1>8. c.left \in 1..n /\ c.right \in 1..n /\ i \in 1..n /\ j \in 1..n
  BY <1>3, <1>5, <1>6, <1>7
<1>9. Parting(n, s, c, i, j, key)
  BY <1>1, <1>2, <1>4, <1>5, <1>6, <1>8 DEF Parting
<1>10. PICK h \in 1..n : h = IF loop.at = "left" THEN j ELSE i
  BY <1>8
<1>11. Whole = Filled(s, h, key)
  BY <1>2, <1>3, <1>10 DEF Whole, Hole
<1>12. Numbered(Filled(s, h, key), n)
  BY <1>3, <1>5, FilledFacts DEF FilledOf
<1>13. Parts(n, Filled(s, h, key), recursion)
  BY <1>3, <1>4, <1>11, <1>12 DEF Parts, SortInv
<1> QED
  BY <1>4, <1>9, <1>10, <1>13

\* An element of the part goes into the free place and leaves its own free.
LEMMA Moved ==
  ASSUME NEW n \in Nat, NEW s, Numbered(s, n), NEW open, NEW a \in DOMAIN open,
         DOMAIN given = 1..n, NEW h \in 1..n, NEW x \in 1..n, NEW key \in Int,
         Within(open[a], h), Within(open[a], x), Parts(n, Filled(s, h, key), open)
  PROVE  /\ FilledOf(Filled(s, h, s[x]), s, h, s[x], n)
         /\ Parts(n, Filled(Filled(s, h, s[x]), x, key), open)
<1>1. PICK w, t : w = Filled(s, h, key) /\ t = Swapped(w, h, x)
  OBVIOUS
<1>2. s[x] \in Int
  BY DEF Numbered
<1>3. FilledOf(Filled(s, h, s[x]), s, h, s[x], n)
  BY <1>2, FilledFacts
<1>4. Filled(Filled(s, h, s[x]), x, key) = t
  BY <1>1, MoveHole
<1>5. /\ open \in Seq(Calls) /\ Inside(open, n) /\ Apart(open) /\ Parted(w, n, open)
      /\ Numbered(w, n) /\ Srt!Reordered(w, given)
  BY <1>1 DEF Parts
<1>6. SwapOf(t, w, h, x, n)
  BY <1>1, <1>5, SwapFacts
<1>7. Parted(t, n, open)
  BY <1>5, <1>6, PartedSwap
<1>8. Srt!Reordered(t, given)
  BY <1>1, <1>5, StillReordered
<1>9. Parts(n, t, open)
  BY <1>5, <1>6, <1>7, <1>8 DEF Parts, SwapOf
<1> QED
  BY <1>3, <1>4, <1>9

\* The range is searched from the right for an element below the key.
LEMMA FromRightStep == ASSUME SortInv, Srt!FromRight PROVE SortInv'
<1>1. loop.at = "right"
  BY DEF Srt!FromRight
<1>2. PICK n, s, c, i, j, key :
        /\ Parting(n, s, c, i, j, key)
        /\ Parts(n, Filled(s, i, key), recursion)
  BY <1>1, PartingFacts
<1>3. /\ Arrays(n, s) /\ recursion # <<>> /\ c = Srt!Top /\ c \in Calls
      /\ c.left \in 1..n /\ c.right \in 1..n
      /\ i = loop.i /\ j = loop.j /\ key = loop.key
      /\ i \in 1..n /\ j \in 1..n /\ key \in Int
      /\ Split(s, c, i, j, key)
  BY <1>2 DEF Parting
<1>4. /\ n \in Nat /\ n = Len(given) /\ s = array /\ Numbered(s, n)
      /\ recursion \in Seq(Calls) /\ DOMAIN given = 1..n
  BY <1>3 DEF Arrays
<1>5. /\ c.left <= i /\ i <= j /\ j <= c.right
      /\ \A x \in c.left..(i - 1) : s[x] <= key
      /\ \A x \in (j + 1)..c.right : key <= s[x]
  BY <1>3 DEF Split
<1>6. given' = given /\ temp' = temp /\ recursion' = recursion
  BY DEF Srt!FromRight
<1>7. CASE i < j /\ key <= s[j]
  <2>1. array' = s /\ loop' = Srt!Loop("right", i, j - 1, 0, key)
    BY <1>3, <1>4, <1>7 DEF Srt!FromRight
  <2>2. LoopIs(loop', "right", i, j - 1, 0, key)
    BY <2>1, LoopFacts
  <2>3. loop'.at = "right" /\ loop'.i = i /\ loop'.j = j - 1 /\ loop'.key = key
    BY <2>2 DEF LoopIs
  <2>4. Whole' = Filled(s, i, key)
    BY <2>1, <2>3 DEF Whole, Hole
  <2>5. Split(s, c, i, j - 1, key)
    <3>1. \A x \in ((j - 1) + 1)..c.right : key <= s[x]
      <4>1. \A x \in ((j - 1) + 1)..c.right : x = j \/ x \in (j + 1)..c.right
        BY <1>3
      <4> QED
        BY <4>1, <1>5, <1>7
    <3> QED
      BY <3>1, <1>3, <1>5, <1>7 DEF Split
  <2>6. Srt!Top' = c
    BY <1>3, <1>6 DEF Srt!Top, Srt!Last
  <2>7. QuickInv'
    BY <1>2, <1>3, <1>4, <1>6, <2>1, <2>3, <2>4, <2>5, <2>6 DEF QuickInv, Parts
  <2>8. Srt!Reordered(Whole', given)
    BY <1>2, <2>4 DEF Parts
  <2>9. j - 1 \in Int /\ 0 \in Int
    BY <1>3
  <2> QED
    BY <1>3, <1>4, <1>6, <2>1, <2>2, <2>7, <2>8, <2>9, QuickStands
<1>8. CASE ~(i < j /\ key <= s[j])
  <2>1. PICK t : t = Filled(s, i, s[j])
    OBVIOUS
  <2>2. array' = t /\ loop' = Srt!Loop("left", i, j, 0, key)
    BY <1>3, <1>4, <1>8, <2>1 DEF Srt!FromRight, Filled
  <2>3. LoopIs(loop', "left", i, j, 0, key)
    BY <2>2, LoopFacts
  <2>4. loop'.at = "left" /\ loop'.i = i /\ loop'.j = j /\ loop'.key = key
    BY <2>3 DEF LoopIs
  <2>5. FilledOf(t, s, i, s[j], n) /\ Parts(n, Filled(t, j, key), recursion)
    <3>1. PICK a \in DOMAIN recursion : recursion[a] = c
      BY <1>3, TopFacts
    <3>2. Within(recursion[a], i) /\ Within(recursion[a], j)
      BY <3>1, <1>3, <1>5 DEF Within
    <3> QED
      BY <3>2, <1>2, <1>3, <1>4, <2>1, Moved
  <2>6. Numbered(t, n) /\ \A x \in 1..n : x # i => t[x] = s[x]
    BY <2>5 DEF FilledOf
  <2>7. Split(t, c, i, j, key)
    <3>1. PICK l \in 1..n, m \in 1..n : l = c.left /\ m = c.right
      BY <1>3
    <3>2. n \in Nat /\ i \in 1..n /\ j \in 1..n /\ i <= j
      BY <1>3, <1>4, <1>5
    <3>3. /\ \A x \in l..(i - 1) : x \in 1..n /\ x # i
          /\ \A x \in (j + 1)..m : x \in 1..n /\ x # i
      BY <3>2
    <3> QED
      BY <3>1, <3>3, <1>5, <2>6 DEF Split
  <2>8. Whole' = Filled(t, j, key)
    BY <2>2, <2>4 DEF Whole, Hole
  <2>9. Srt!Top' = c
    BY <1>3, <1>6 DEF Srt!Top, Srt!Last
  <2>10. QuickInv'
    BY <1>3, <1>4, <1>6, <2>2, <2>4, <2>5, <2>7, <2>8, <2>9 DEF QuickInv, Parts
  <2>11. Srt!Reordered(Whole', given) /\ i \in Int /\ j \in Int /\ 0 \in Int
    BY <1>3, <2>5, <2>8 DEF Parts
  <2> QED
    BY <1>3, <1>4, <1>6, <2>2, <2>3, <2>6, <2>10, <2>11, QuickStands
<1> QED
  BY <1>7, <1>8

\* Then from the left for one above the key; where both meet the key belongs.
LEMMA FromLeftStep == ASSUME SortInv, Srt!FromLeft PROVE SortInv'
<1>1. loop.at = "left"
  BY DEF Srt!FromLeft
<1>2. PICK n, s, c, i, j, key :
        /\ Parting(n, s, c, i, j, key)
        /\ Parts(n, Filled(s, j, key), recursion)
  BY <1>1, PartingFacts
<1>3. /\ Arrays(n, s) /\ recursion # <<>> /\ c = Srt!Top /\ c \in Calls
      /\ c.left \in 1..n /\ c.right \in 1..n
      /\ i = loop.i /\ j = loop.j /\ key = loop.key
      /\ i \in 1..n /\ j \in 1..n /\ key \in Int
      /\ Split(s, c, i, j, key)
  BY <1>2 DEF Parting
<1>4. /\ n \in Nat /\ n = Len(given) /\ s = array /\ Numbered(s, n)
      /\ recursion \in Seq(Calls) /\ DOMAIN given = 1..n
  BY <1>3 DEF Arrays
<1>5. /\ c.left <= i /\ i <= j /\ j <= c.right
      /\ \A x \in c.left..(i - 1) : s[x] <= key
      /\ \A x \in (j + 1)..c.right : key <= s[x]
  BY <1>3 DEF Split
<1>6. given' = given /\ temp' = temp /\ recursion' = recursion
  BY DEF Srt!FromLeft
<1>7. CASE i < j /\ key >= s[i]
  <2>1. array' = s /\ loop' = Srt!Loop("left", i + 1, j, 0, key)
    BY <1>3, <1>4, <1>7 DEF Srt!FromLeft
  <2>2. LoopIs(loop', "left", i + 1, j, 0, key)
    BY <2>1, LoopFacts
  <2>3. loop'.at = "left" /\ loop'.i = i + 1 /\ loop'.j = j /\ loop'.key = key
    BY <2>2 DEF LoopIs
  <2>4. Whole' = Filled(s, j, key)
    BY <2>1, <2>3 DEF Whole, Hole
  <2>5. Split(s, c, i + 1, j, key)
    <3>1. \A x \in c.left..((i + 1) - 1) : s[x] <= key
      <4>1. \A x \in c.left..((i + 1) - 1) : x = i \/ x \in c.left..(i - 1)
        BY <1>3
      <4>2. s[i] \in Int /\ s[i] <= key
        BY <1>3, <1>4, <1>7 DEF Numbered
      <4> QED
        BY <4>1, <4>2, <1>5
    <3> QED
      BY <3>1, <1>3, <1>5, <1>7 DEF Split
  <2>6. Srt!Top' = c
    BY <1>3, <1>6 DEF Srt!Top, Srt!Last
  <2>7. QuickInv'
    BY <1>2, <1>3, <1>4, <1>6, <2>1, <2>3, <2>4, <2>5, <2>6 DEF QuickInv, Parts
  <2>8. Srt!Reordered(Whole', given)
    BY <1>2, <2>4 DEF Parts
  <2>9. i + 1 \in Int /\ j \in Int /\ 0 \in Int
    BY <1>3
  <2> QED
    BY <1>3, <1>4, <1>6, <2>1, <2>2, <2>7, <2>8, <2>9, QuickStands
<1>8. CASE ~(i < j /\ key >= s[i])
  <2>1. PICK t, at : t = Filled(s, j, s[i]) /\ at = IF i < j THEN "right" ELSE "place"
    OBVIOUS
  <2>2. array' = t /\ loop' = Srt!Loop(at, i, j, 0, key)
    BY <1>3, <1>4, <1>8, <2>1 DEF Srt!FromLeft, Filled
  <2>3. LoopIs(loop', at, i, j, 0, key)
    BY <2>2, LoopFacts
  <2>4. loop'.at = at /\ loop'.i = i /\ loop'.j = j /\ loop'.key = key
    BY <2>3 DEF LoopIs
  <2>5. FilledOf(t, s, j, s[i], n) /\ Parts(n, Filled(t, i, key), recursion)
    <3>1. PICK a \in DOMAIN recursion : recursion[a] = c
      BY <1>3, TopFacts
    <3>2. Within(recursion[a], i) /\ Within(recursion[a], j)
      BY <3>1, <1>3, <1>5 DEF Within
    <3> QED
      BY <3>2, <1>2, <1>3, <1>4, <2>1, Moved
  <2>6. Numbered(t, n) /\ \A x \in 1..n : x # j => t[x] = s[x]
    BY <2>5 DEF FilledOf
  <2>7. Split(t, c, i, j, key)
    <3>1. PICK l \in 1..n, m \in 1..n : l = c.left /\ m = c.right
      BY <1>3
    <3>2. n \in Nat /\ i \in 1..n /\ j \in 1..n /\ i <= j
      BY <1>3, <1>4, <1>5
    <3>3. /\ \A x \in l..(i - 1) : x \in 1..n /\ x # j
          /\ \A x \in (j + 1)..m : x \in 1..n /\ x # j
      BY <3>2
    <3> QED
      BY <3>1, <3>3, <1>5, <2>6 DEF Split
  <2>8. at \in {"sort", "right", "left", "place"} /\ (at = "place" => i = j)
    BY <2>1, <1>3, <1>5
  <2>9. Whole' = Filled(t, i, key)
    BY <2>1, <2>2, <2>4 DEF Whole, Hole
  <2>10. Srt!Top' = c
    BY <1>3, <1>6 DEF Srt!Top, Srt!Last
  <2>11. QuickInv'
    BY <1>3, <1>4, <1>6, <2>2, <2>4, <2>5, <2>7, <2>8, <2>9, <2>10 DEF QuickInv, Parts
  <2>12. Srt!Reordered(Whole', given) /\ i \in Int /\ j \in Int /\ 0 \in Int
    BY <1>3, <2>5, <2>9 DEF Parts
  <2> QED
    BY <1>3, <1>4, <1>6, <2>2, <2>3, <2>6, <2>8, <2>11, <2>12, QuickStands
<1> QED
  BY <1>7, <1>8

\* Where both meet the key goes in; the parts on either side are called next.
LEMMA PlaceStep == ASSUME SortInv, Srt!Place PROVE SortInv'
<1>1. loop.at = "place"
  BY DEF Srt!Place
<1>2. PICK n, s, c, i, j, key :
        /\ Parting(n, s, c, i, j, key)
        /\ Parts(n, Filled(s, i, key), recursion) /\ i = j
  BY <1>1, PartingFacts
<1>3. /\ Arrays(n, s) /\ recursion # <<>> /\ c = Srt!Top /\ c \in Calls
      /\ c.left \in 1..n /\ c.right \in 1..n
      /\ i = loop.i /\ key = loop.key /\ i \in 1..n /\ key \in Int
  BY <1>2 DEF Parting
<1>4. /\ n \in Nat /\ n = Len(given) /\ s = array /\ Numbered(s, n)
      /\ recursion \in Seq(Calls) /\ DOMAIN given = 1..n
  BY <1>3 DEF Arrays
<1>5. /\ c.left <= i /\ i <= c.right
      /\ \A x \in c.left..(i - 1) : s[x] <= key
      /\ \A x \in (i + 1)..c.right : key <= s[x]
  BY <1>2 DEF Split, Parting
<1>6. PICK w, open, m : w = Filled(s, i, key) /\ open = recursion /\ m = Len(open)
  OBVIOUS
<1>7. /\ Inside(open, n) /\ Apart(open) /\ Parted(w, n, open)
      /\ Numbered(w, n) /\ Srt!Reordered(w, given)
  BY <1>2, <1>6 DEF Parts
<1>8. w[i] = key /\ \A x \in 1..n : x # i => w[x] = s[x]
  <2>1. FilledOf(w, s, i, key, n)
    BY <1>3, <1>4, <1>6, FilledFacts
  <2> QED
    BY <2>1 DEF FilledOf
<1>9. /\ \A x \in 1..n : Within(c, x) /\ x < i => w[x] <= key
      /\ \A x \in 1..n : Within(c, x) /\ x > i => key <= w[x]
  <2>1. /\ \A x \in 1..n : Within(c, x) /\ x < i => x \in c.left..(i - 1)
        /\ \A x \in 1..n : Within(c, x) /\ x > i => x \in (i + 1)..c.right
    BY <1>3, <1>4 DEF Within
  <2> QED
    BY <2>1, <1>5, <1>8
<1>10. PICK a, b : a = Srt!Call(i + 1, c.right, 0) /\ b = Srt!Call(c.left, i - 1, 0)
  OBVIOUS
<1>11. CallIs(a, i + 1, c.right, 0) /\ CallIs(b, c.left, i - 1, 0)
  BY <1>3, <1>10, CallFacts
<1>12. PICK r : r = Srt!Front(open) \o <<a, b>>
  OBVIOUS
<1>13. Instead(r, open, a, b)
  BY <1>3, <1>4, <1>6, <1>11, <1>12, InsteadFacts DEF CallIs
<1>14. /\ open \in Seq(Calls) /\ m \in Nat \ {0} /\ m \in DOMAIN open /\ open[m] = c
       /\ r \in Seq(Calls) /\ Len(r) = m + 1 /\ r[m] = a /\ r[m + 1] = b
       /\ \A x \in 1..(m - 1) : r[x] = open[x]
  BY <1>3, <1>4, <1>6, <1>13, TopFacts DEF Instead
<1>15. /\ a.left = i + 1 /\ a.right = c.right /\ b.left = c.left /\ b.right = i - 1
  BY <1>11 DEF CallIs
<1>16. \A x : /\ Within(a, x) <=> i + 1 <= x /\ x <= c.right
              /\ Within(b, x) <=> c.left <= x /\ x <= i - 1
  BY <1>15 DEF Within
<1>17. DOMAIN r = 1..(m + 1) /\ DOMAIN open = 1..m
  BY <1>6, <1>14
<1>18. \A d \in 1..(m + 1) : d \in 1..(m - 1) \/ d = m \/ d = m + 1
  BY <1>14
<1>19. Inside(r, n)
  <2>1. a.left >= 1 /\ a.right <= n /\ b.left >= 1 /\ b.right <= n
    BY <1>3, <1>4, <1>15
  <2>2. \A d \in 1..(m - 1) : r[d].left >= 1 /\ r[d].right <= n
    <3>1. \A d \in 1..(m - 1) : d \in 1..m
      BY <1>14
    <3> QED
      BY <3>1, <1>7, <1>14, <1>17 DEF Inside
  <2> QED
    BY <2>1, <2>2, <1>14, <1>17, <1>18 DEF Inside
<1>20. Apart(r)
  <2>1. \A x \in Int : Within(a, x) \/ Within(b, x) => Within(c, x)
    BY <1>3, <1>5, <1>4, <1>16 DEF Within
  <2>2. \A x \in Int : ~(Within(a, x) /\ Within(b, x))
    BY <1>3, <1>4, <1>16
  <2>3. \A d \in 1..(m + 1), x \in Int :
          Within(r[d], x) => Within(open[IF d = m + 1 THEN m ELSE d], x)
    BY <2>1, <1>14, <1>18
  <2>4. \A d \in 1..(m + 1) : (IF d = m + 1 THEN m ELSE d) \in DOMAIN open
    BY <1>14, <1>17, <1>18
  <2> SUFFICES ASSUME NEW d \in 1..(m + 1), NEW e \in 1..(m + 1), NEW x \in Int,
                      Within(r[d], x), Within(r[e], x)
               PROVE  d = e
    BY <1>17 DEF Apart
  <2> PICK f, g : /\ f = IF d = m + 1 THEN m ELSE d
                  /\ g = IF e = m + 1 THEN m ELSE e
    OBVIOUS
  <2>5. f \in DOMAIN open /\ g \in DOMAIN open /\ Within(open[f], x) /\ Within(open[g], x)
    BY <2>3, <2>4
  <2>6. f = g
    BY <2>5, <1>7 DEF Apart
  <2> QED
    BY <2>2, <2>6, <1>14
<1>21. Parted(w, n, r)
  <2> SUFFICES ASSUME NEW x \in 1..n, NEW y \in 1..n, x < y, ~(w[x] <= w[y])
               PROVE  \E d \in DOMAIN r : Within(r[d], x) /\ Within(r[d], y)
    BY DEF Parted
  <2>1. PICK d \in 1..m : Within(open[d], x) /\ Within(open[d], y)
    BY <1>7, <1>17 DEF Parted
  <2>2. CASE d # m
    <3>1. d \in 1..(m - 1) /\ d \in DOMAIN r
      BY <2>2, <1>14, <1>17
    <3> QED
      BY <3>1, <2>1, <1>14
  <2>3. CASE d = m
    <3>1. Within(c, x) /\ Within(c, y)
      BY <2>1, <2>3, <1>14
    <3>2. w[x] \in Int /\ w[y] \in Int
      BY <1>7 DEF Numbered
    <3>3. y < i \/ x > i
      BY <3>1, <3>2, <1>3, <1>4, <1>8, <1>9
    <3>4. \/ Within(a, x) /\ Within(a, y)
          \/ Within(b, x) /\ Within(b, y)
      BY <3>1, <3>3, <1>3, <1>4, <1>16 DEF Within
    <3>5. m \in DOMAIN r /\ m + 1 \in DOMAIN r
      BY <1>14, <1>17
    <3> QED
      BY <3>4, <3>5, <1>14
  <2> QED
    BY <2>2, <2>3
<1>22. /\ given' = given /\ temp' = temp /\ recursion' = r /\ array' = w
       /\ loop' = Srt!Loop("sort", 0, 0, 0, 0)
  BY <1>3, <1>4, <1>6, <1>10, <1>12 DEF Srt!Place, Filled
<1>23. LoopIs(loop', "sort", 0, 0, 0, 0)
  BY <1>22, LoopFacts
<1>24. loop'.at = "sort"
  BY <1>23 DEF LoopIs
<1>25. Whole' = w
  BY <1>22, <1>24 DEF Whole
<1>26. QuickInv'
  BY <1>4, <1>19, <1>20, <1>21, <1>22, <1>24, <1>25 DEF QuickInv
<1>27. Srt!Reordered(Whole', given) /\ r \in Seq(Calls)
  BY <1>7, <1>14, <1>25
<1> QED
  BY <1>3, <1>7, <1>22, <1>23, <1>26, <1>27, QuickStands

\* A call for one element or none is done; a longer range is parted, with its
\* first element in hand.
LEMMA PartitionStep == ASSUME SortInv, Srt!Partition PROVE SortInv'
<1>1. loop.at = "sort" /\ recursion # <<>>
  BY DEF Srt!Partition
<1>2. PICK n, s : Arrays(n, s)
  BY ArraysFacts
<1>3. n \in Nat /\ n = Len(given) /\ s = array /\ Numbered(s, n) /\ recursion \in Seq(Calls)
  BY <1>2 DEF Arrays
<1>4. PICK c : c = Srt!Top
  OBVIOUS
<1>5. /\ Inside(recursion, n) /\ Apart(recursion) /\ Parted(s, n, recursion)
      /\ Srt!Reordered(s, given)
  BY <1>1, <1>3 DEF SortInv, QuickInv, Whole
<1>6. c \in Calls /\ c.left \in Int /\ c.right \in Int /\ c.left >= 1 /\ c.right <= n
  BY <1>1, <1>2, <1>4, <1>5, TopFacts DEF Inside
<1>7. c.left < c.right
  BY <1>4 DEF Srt!Partition
<1>8. c.left \in 1..n
  BY <1>3, <1>6, <1>7
<1>9. PICK key \in Int : key = s[c.left]
  BY <1>3, <1>8 DEF Numbered
<1>10. /\ given' = given /\ temp' = temp /\ recursion' = recursion /\ array' = s
       /\ loop' = Srt!Loop("right", c.left, c.right, 0, key)
  BY <1>3, <1>4, <1>9 DEF Srt!Partition
<1>11. LoopIs(loop', "right", c.left, c.right, 0, key)
  BY <1>10, LoopFacts
<1>12. loop'.at = "right" /\ loop'.i = c.left /\ loop'.j = c.right /\ loop'.key = key
  BY <1>11 DEF LoopIs
<1>13. Whole' = s
  <2>1. Whole' = Filled(s, c.left, key)
    BY <1>10, <1>12 DEF Whole, Hole
  <2> QED
    BY <2>1, <1>3, <1>9 DEF Filled, Numbered
<1>14. Split(s, c, c.left, c.right, key)
  <2>1. c.left..(c.left - 1) = {} /\ (c.right + 1)..c.right = {}
    BY <1>6
  <2>2. c.left <= c.left /\ c.left <= c.right /\ c.right <= c.right
    BY <1>6, <1>7
  <2> QED
    BY <2>1, <2>2 DEF Split
<1>15. Srt!Top' = c
  BY <1>4, <1>10 DEF Srt!Top, Srt!Last
<1>16. QuickInv'
  BY <1>1, <1>3, <1>5, <1>10, <1>12, <1>13, <1>14, <1>15 DEF QuickInv
<1>17. Srt!Reordered(Whole', given)
  BY <1>5, <1>13
<1> QED
  BY <1>2, <1>3, <1>6, <1>9, <1>10, <1>11, <1>16, <1>17, QuickStands

\* What is left after a call has returned.
LEMMA FewerParts ==
  ASSUME NEW n \in Nat, NEW w, NEW open \in Seq(Calls), NEW m \in DOMAIN open,
         m = Len(open), open[m].left >= open[m].right,
         NEW r, Fewer(r, open), Parts(n, w, open)
  PROVE  Parts(n, w, r)
<1>1. /\ Inside(open, n) /\ Apart(open) /\ Parted(w, n, open)
      /\ Numbered(w, n) /\ Srt!Reordered(w, given)
  BY DEF Parts
<1>2. PICK k \in Nat : m = k + 1 /\ k = Len(r)
  BY DEF Fewer
<1>3. /\ DOMAIN open = 1..(k + 1) /\ DOMAIN r = 1..k /\ r \in Seq(Calls)
      /\ \A d \in 1..k : r[d] = open[d]
  BY <1>2 DEF Fewer
<1>4. \A d \in 1..k : d \in 1..(k + 1)
  BY <1>2
<1>5. Inside(r, n)
  BY <1>1, <1>3, <1>4 DEF Inside
<1>6. Apart(r)
  BY <1>1, <1>3, <1>4 DEF Apart
<1>7. \A x, y \in 1..n : x < y => ~(Within(open[m], x) /\ Within(open[m], y))
  <2>1. PICK c \in Calls : c = open[m]
    OBVIOUS
  <2>2. c.left \in Int /\ c.right \in Int /\ c.left >= c.right
    BY <2>1 DEF Calls
  <2> QED
    BY <2>1, <2>2 DEF Within
<1>8. Parted(w, n, r)
  <2> SUFFICES ASSUME NEW x \in 1..n, NEW y \in 1..n, x < y, ~(w[x] <= w[y])
               PROVE  \E d \in DOMAIN r : Within(r[d], x) /\ Within(r[d], y)
    BY DEF Parted
  <2>1. PICK d \in 1..(k + 1) : Within(open[d], x) /\ Within(open[d], y)
    BY <1>1, <1>3 DEF Parted
  <2>2. d # m
    BY <2>1, <1>7
  <2>3. d \in 1..k
    BY <2>2, <1>2
  <2> QED
    BY <2>1, <2>3, <1>3
<1> QED
  BY <1>1, <1>3, <1>5, <1>6, <1>8 DEF Parts

LEMMA QuickReturn == ASSUME SortInv, Srt!Return, loop.at = "sort" PROVE SortInv'
<1>1. loop.at = "sort" /\ recursion # <<>>
  BY DEF Srt!Return
<1>2. PICK n, s : Arrays(n, s)
  BY ArraysFacts
<1>3. /\ n \in Nat /\ n = Len(given) /\ s = array /\ Numbered(s, n)
      /\ recursion \in Seq(Calls)
  BY <1>2 DEF Arrays
<1>4. Parts(n, s, recursion)
  BY <1>1, <1>3 DEF SortInv, QuickInv, Whole, Parts
<1>5. PICK m : m = Len(recursion)
  OBVIOUS
<1>6. m \in DOMAIN recursion /\ recursion[m] = Srt!Top
  BY <1>1, <1>2, <1>5, TopFacts
<1>7. recursion[m].left >= recursion[m].right
  BY <1>6 DEF Srt!Return
<1>8. PICK r : r = Srt!Front(recursion)
  OBVIOUS
<1>9. Fewer(r, recursion)
  BY <1>1, <1>3, <1>8, FewerFacts
<1>10. Parts(n, s, r)
  BY <1>3, <1>4, <1>5, <1>6, <1>7, <1>9, FewerParts
<1>11. /\ given' = given /\ temp' = temp /\ array' = s /\ recursion' = r /\ loop' = loop
  BY <1>3, <1>8 DEF Srt!Return
<1>12. PICK i \in Int, j \in Int, k \in Int, key \in Int :
         i = loop.i /\ j = loop.j /\ k = loop.k /\ key = loop.key
  BY DEF SortInv, SortTypes
<1>13. LoopIs(loop', "sort", i, j, k, key)
  BY <1>1, <1>11, <1>12 DEF LoopIs
<1>14. Whole' = s
  BY <1>1, <1>11 DEF Whole
<1>15. QuickInv'
  BY <1>1, <1>3, <1>10, <1>11, <1>14 DEF QuickInv, Parts
<1>16. Srt!Reordered(Whole', given) /\ r \in Seq(Calls)
  BY <1>10, <1>14 DEF Parts
<1> QED
  BY <1>2, <1>3, <1>11, <1>13, <1>15, <1>16, QuickStands

LEMMA MergeStands ==
  ASSUME NEW n, NEW s, Arrays(n, s), NEW t, Numbered(t, n), NEW u, Numbered(u, n),
         NEW r \in Seq(Calls),
         given' = given, array' = t, temp' = u, recursion' = r,
         NEW at, NEW i \in Int, NEW j \in Int, NEW k \in Int, NEW key \in Int,
         LoopIs(loop', at, i, j, k, key),
         at \in {"merge_sort", "merge"},
         MergeInv', Srt!Reordered(t, given)
  PROVE  SortInv'
<1>1. loop'.at = at /\ loop'.i = i /\ loop'.j = j /\ loop'.k = k /\ loop'.key = key
  BY DEF LoopIs
<1>2. SortTypes'
  BY <1>1 DEF Arrays, SortTypes, Numbered
<1>3. Whole' = t
  BY <1>1 DEF Whole
<1> QED
  BY <1>1, <1>2, <1>3 DEF SortInv

LEMMA MiddleFacts ==
  ASSUME NEW c \in Calls, c.left < c.right
  PROVE  Srt!Middle(c) \in Int /\ c.left <= Srt!Middle(c) /\ Srt!Middle(c) < c.right
<1>1. PICK l, r \in Int : l = c.left /\ r = c.right /\ r - l >= 1
  BY DEF Calls
<1>2. (r - l) \div 2 \in Int /\ (r - l) \div 2 >= 0 /\ (r - l) \div 2 < r - l
  BY <1>1
<1> QED
  BY <1>1, <1>2 DEF Srt!Middle

\* f pairs off S with T.
PairsOff(f, S, T) == f \in [S -> T] /\ Pairs(f, S, T)

\* One more pair.
OneMore(g, f, S, a, b) == g[a] = b /\ \A x \in S : g[x] = f[x]

LEMMA PairsMore ==
  ASSUME NEW S, NEW T, NEW f, PairsOff(f, S, T), NEW a, NEW b, a \notin S, b \notin T
  PROVE  \E g : PairsOff(g, S \union {a}, T \union {b}) /\ OneMore(g, f, S, a, b)
<1> PICK g : g = [x \in S \union {a} |-> IF x = a THEN b ELSE f[x]]
  OBVIOUS
<1>1. g[a] = b /\ \A x \in S : g[x] = f[x] /\ g[x] \in T
  BY DEF PairsOff
<1>2. g \in [S \union {a} -> T \union {b}]
  BY <1>1
<1>3. Pairs(g, S \union {a}, T \union {b})
  BY <1>1 DEF Pairs, PairsOff
<1> QED
  BY <1>1, <1>2, <1>3 DEF PairsOff, OneMore

LEMMA RangeMore ==
  ASSUME NEW l \in Int, NEW k \in Int, l <= k
  PROVE  l..(k - 1) \union {k} = l..((k + 1) - 1)
OBVIOUS

\* The two runs of a merge, and how far it has come.
Runs(n, s, t, l, m, r, i, j, k) ==
  /\ n \in Nat /\ Numbered(s, n) /\ Numbered(t, n)
  /\ l \in 1..n /\ m \in 1..n /\ r \in 1..n /\ l <= m /\ m < r
  /\ i \in Int /\ j \in Int /\ k \in Int
  /\ l <= i /\ i <= m + 1 /\ m + 1 <= j /\ j <= r + 1 /\ k = i + j - m - 1
  /\ InOrder(s, l, m) /\ InOrder(s, m + 1, r)
  /\ Merged(t, s, l, m, r, i, j, k)

\* The smaller of the two first elements is next, from the left run ...
LEMMA MoreLeft ==
  ASSUME NEW n, NEW s, NEW t, NEW l, NEW m, NEW r, NEW i, NEW j, NEW k,
         Runs(n, s, t, l, m, r, i, j, k),
         i <= m, j <= r => s[i] <= s[j], NEW u, FilledOf(u, t, k, s[i], n)
  PROVE  Runs(n, s, u, l, m, r, i + 1, j, k + 1)
<1>1. /\ n \in Nat /\ Numbered(s, n) /\ Numbered(t, n)
      /\ l \in 1..n /\ m \in 1..n /\ r \in 1..n /\ l <= m /\ m < r
      /\ i \in Int /\ j \in Int /\ k \in Int
      /\ l <= i /\ i <= m + 1 /\ m + 1 <= j /\ j <= r + 1 /\ k = i + j - m - 1
      /\ InOrder(s, l, m) /\ InOrder(s, m + 1, r)
      /\ Merged(t, s, l, m, r, i, j, k)
  BY DEF Runs
<1>2. /\ Numbered(u, n) /\ u[k] = s[i] /\ \A x \in 1..n : x # k => u[x] = t[x]
  BY DEF FilledOf
<1>3. /\ \A x \in 1..n : s[x] \in Int /\ t[x] \in Int /\ u[x] \in Int
  BY <1>1, <1>2 DEF Numbered
<1>4. /\ k \in 1..n /\ l <= k /\ i \in 1..n /\ i \in l..m
      /\ \A x \in l..(k - 1) : x \in 1..n /\ x # k
  BY <1>1
<1>5. /\ InOrder(t, l, k - 1) /\ \A x \in l..(k - 1) : /\ t[x] <= s[i]
                                                       /\ j <= r => t[x] <= s[j]
  BY <1>1 DEF Merged
<1>6. \A x \in l..(k - 1) : u[x] = t[x]
  BY <1>2, <1>4
<1>7. PICK S, T : S = l..(k - 1) /\ T = l..(i - 1) \union (m + 1)..(j - 1)
  OBVIOUS
<1>8. PICK f : PairsOff(f, S, T) /\ \A x \in S : t[x] = s[f[x]]
  BY <1>1, <1>7 DEF Merged, PairsOff
<1>9. k \notin S /\ i \notin T
  BY <1>1, <1>7
<1>10. PICK g : PairsOff(g, S \union {k}, T \union {i}) /\ OneMore(g, f, S, k, i)
  BY <1>8, <1>9, PairsMore
<1>11. S \union {k} = l..((k + 1) - 1)
  BY <1>1, <1>4, <1>7, RangeMore
<1>12. T \union {i} = l..((i + 1) - 1) \union (m + 1)..(j - 1)
  BY <1>1, <1>7
<1>13. \A x \in S \union {k} : u[x] = s[g[x]]
  BY <1>2, <1>6, <1>7, <1>8, <1>10 DEF OneMore
<1>14. InOrder(u, l, (k + 1) - 1)
  <2> SUFFICES ASSUME NEW p \in l..((k + 1) - 1), NEW q \in l..((k + 1) - 1), p < q
               PROVE  u[p] <= u[q]
    BY DEF InOrder
  <2>1. p \in l..(k - 1) /\ (q = k \/ q \in l..(k - 1))
    BY <1>1
  <2> QED
    BY <2>1, <1>2, <1>5, <1>6 DEF InOrder
<1>15. ASSUME NEW x \in l..((k + 1) - 1)
       PROVE  /\ i + 1 <= m => u[x] <= s[i + 1]
              /\ j <= r => u[x] <= s[j]
  <2>1. x = k \/ x \in l..(k - 1)
    BY <1>1
  <2>2. i + 1 <= m => /\ s[i] <= s[i + 1]
                      /\ s[i + 1] \in Int /\ s[i] \in Int
    <3>1. i + 1 <= m => i \in l..m /\ i + 1 \in l..m /\ i < i + 1 /\ i + 1 \in 1..n
      BY <1>1
    <3> QED
      BY <3>1, <1>1, <1>3, <1>4 DEF InOrder
  <2>3. x \in 1..n /\ u[x] \in Int /\ u[x] <= s[i]
    <3>1. s[i] \in Int /\ s[i] <= s[i]
      BY <1>3, <1>4
    <3> QED
      BY <2>1, <3>1, <1>2, <1>3, <1>4, <1>5, <1>6
  <2>4. j <= r => u[x] <= s[j]
    BY <2>1, <1>2, <1>5, <1>6
  <2> QED
    BY <2>2, <2>3, <2>4
<1>16. Merged(u, s, l, m, r, i + 1, j, k + 1)
  BY <1>10, <1>11, <1>12, <1>13, <1>14, <1>15 DEF Merged, PairsOff
<1>17. /\ i + 1 \in Int /\ k + 1 \in Int /\ l <= i + 1 /\ i + 1 <= m + 1
       /\ k + 1 = (i + 1) + j - m - 1
  BY <1>1
<1> QED
  BY <1>1, <1>2, <1>16, <1>17 DEF Runs

\* ... or from the right one.
LEMMA MoreRight ==
  ASSUME NEW n, NEW s, NEW t, NEW l, NEW m, NEW r, NEW i, NEW j, NEW k,
         Runs(n, s, t, l, m, r, i, j, k),
         j <= r, i <= m => s[i] > s[j], NEW u, FilledOf(u, t, k, s[j], n)
  PROVE  Runs(n, s, u, l, m, r, i, j + 1, k + 1)
<1>1. /\ n \in Nat /\ Numbered(s, n) /\ Numbered(t, n)
      /\ l \in 1..n /\ m \in 1..n /\ r \in 1..n /\ l <= m /\ m < r
      /\ i \in Int /\ j \in Int /\ k \in Int
      /\ l <= i /\ i <= m + 1 /\ m + 1 <= j /\ j <= r + 1 /\ k = i + j - m - 1
      /\ InOrder(s, l, m) /\ InOrder(s, m + 1, r)
      /\ Merged(t, s, l, m, r, i, j, k)
  BY DEF Runs
<1>2. /\ Numbered(u, n) /\ u[k] = s[j] /\ \A x \in 1..n : x # k => u[x] = t[x]
  BY DEF FilledOf
<1>3. /\ \A x \in 1..n : s[x] \in Int /\ t[x] \in Int /\ u[x] \in Int
  BY <1>1, <1>2 DEF Numbered
<1>4. /\ k \in 1..n /\ l <= k /\ j \in 1..n /\ (i <= m => i \in 1..n)
      /\ \A x \in l..(k - 1) : x \in 1..n /\ x # k
  BY <1>1
<1>5. /\ InOrder(t, l, k - 1) /\ \A x \in l..(k - 1) : /\ i <= m => t[x] <= s[i]
                                                       /\ t[x] <= s[j]
  BY <1>1 DEF Merged
<1>6. \A x \in l..(k - 1) : u[x] = t[x]
  BY <1>2, <1>4
<1>7. PICK S, T : S = l..(k - 1) /\ T = l..(i - 1) \union (m + 1)..(j - 1)
  OBVIOUS
<1>8. PICK f : PairsOff(f, S, T) /\ \A x \in S : t[x] = s[f[x]]
  BY <1>1, <1>7 DEF Merged, PairsOff
<1>9. k \notin S /\ j \notin T
  BY <1>1, <1>7
<1>10. PICK g : PairsOff(g, S \union {k}, T \union {j}) /\ OneMore(g, f, S, k, j)
  BY <1>8, <1>9, PairsMore
<1>11. S \union {k} = l..((k + 1) - 1)
  BY <1>1, <1>4, <1>7, RangeMore
<1>12. T \union {j} = l..(i - 1) \union (m + 1)..((j + 1) - 1)
  BY <1>1, <1>7
<1>13. \A x \in S \union {k} : u[x] = s[g[x]]
  BY <1>2, <1>6, <1>7, <1>8, <1>10 DEF OneMore
<1>14. InOrder(u, l, (k + 1) - 1)
  <2> SUFFICES ASSUME NEW p \in l..((k + 1) - 1), NEW q \in l..((k + 1) - 1), p < q
               PROVE  u[p] <= u[q]
    BY DEF InOrder
  <2>1. p \in l..(k - 1) /\ (q = k \/ q \in l..(k - 1))
    BY <1>1
  <2> QED
    BY <2>1, <1>2, <1>5, <1>6 DEF InOrder
<1>15. ASSUME NEW x \in l..((k + 1) - 1)
       PROVE  /\ i <= m => u[x] <= s[i]
              /\ j + 1 <= r => u[x] <= s[j + 1]
  <2>1. x = k \/ x \in l..(k - 1)
    BY <1>1
  <2>2. j + 1 <= r => /\ s[j] <= s[j + 1]
                      /\ s[j + 1] \in Int /\ s[j] \in Int
    <3>1. j + 1 <= r => /\ j \in (m + 1)..r /\ j + 1 \in (m + 1)..r
                        /\ j < j + 1 /\ j + 1 \in 1..n
      BY <1>1
    <3> QED
      BY <3>1, <1>1, <1>3, <1>4 DEF InOrder
  <2>3. x \in 1..n /\ u[x] \in Int /\ u[x] <= s[j]
    <3>1. s[j] \in Int /\ s[j] <= s[j]
      BY <1>3, <1>4
    <3> QED
      BY <2>1, <3>1, <1>2, <1>3, <1>4, <1>5, <1>6
  <2>4. i <= m => u[x] <= s[i]
    <3>1. i <= m => s[i] \in Int /\ s[j] \in Int /\ s[j] <= s[i]
      BY <1>3, <1>4
    <3> QED
      BY <3>1, <2>1, <1>2, <1>5, <1>6
  <2> QED
    BY <2>2, <2>3, <2>4
<1>16. Merged(u, s, l, m, r, i, j + 1, k + 1)
  BY <1>10, <1>11, <1>12, <1>13, <1>14, <1>15 DEF Merged, PairsOff
<1>17. /\ j + 1 \in Int /\ k + 1 \in Int /\ m + 1 <= j + 1 /\ j + 1 <= r + 1
       /\ k + 1 = i + (j + 1) - m - 1
  BY <1>1
<1> QED
  BY <1>1, <1>2, <1>16, <1>17 DEF Runs

\* What the calls before the innermost one have sorted.
Earlier(s, open) ==
  \A a \in DOMAIN open : a < Len(open) /\ open[a].half = 2
                           => InOrder(s, open[a].left, Srt!Middle(open[a]))

\* The innermost call is done: its caller has that half sorted.
LEMMA CallDone ==
  ASSUME NEW n \in Nat, NEW s, NEW open \in Seq(Calls), NEW m \in DOMAIN open,
         m = Len(open), Nested(open, n), Inside(open, n), Earlier(s, open),
         InOrder(s, open[m].left, open[m].right), NEW r, Fewer(r, open)
  PROVE  Inside(r, n) /\ Nested(r, n) /\ HalvesSorted(s, n, r)
<1>1. PICK k \in Nat : m = k + 1 /\ k = Len(r)
  BY DEF Fewer
<1>2. /\ DOMAIN open = 1..(k + 1) /\ DOMAIN r = 1..k /\ r \in Seq(Calls)
      /\ \A d \in 1..k : r[d] = open[d]
  BY <1>1 DEF Fewer
<1>3. \A d \in 1..k : d \in 1..(k + 1) /\ d < m
  BY <1>1
<1>4. Inside(r, n)
  BY <1>2, <1>3 DEF Inside
<1>5. /\ \A a, b \in 1..(k + 1) : a < b =>
            /\ open[a].half \in {1, 2} /\ open[a].left < open[a].right
            /\ PartLeft(open[a]) <= open[b].left /\ open[b].right <= PartRight(open[a])
            /\ b = a + 1 => /\ open[b].left = PartLeft(open[a])
                            /\ open[b].right = PartRight(open[a])
      /\ open[1].left = 1 /\ open[1].right = n
  <2>1. open # <<>>
    BY <1>2
  <2> QED
    BY <2>1, <1>2 DEF Nested
<1>6. Nested(r, n)
  <2>1. r # <<>> => 1 \in 1..k
    BY <1>1, <1>2
  <2> QED
    BY <2>1, <1>2, <1>3, <1>5 DEF Nested
<1>7. r = <<>> => InOrder(s, 1, n)
  <2>1. r = <<>> => m = 1
    BY <1>1
  <2> QED
    BY <2>1, <1>5
<1>8. ASSUME NEW a \in 1..k
      PROVE  /\ r[a].half = 2 => InOrder(s, r[a].left, Srt!Middle(r[a]))
             /\ a = k /\ r[a].half = 1 => InOrder(s, r[a].left, Srt!Middle(r[a]))
             /\ a = k /\ r[a].half = 2 => InOrder(s, Srt!Middle(r[a]) + 1, r[a].right)
  <2>1. r[a].half = 2 => InOrder(s, r[a].left, Srt!Middle(r[a]))
    BY <1>1, <1>2, <1>3 DEF Earlier
  <2>2. a = k => /\ open[m].left = PartLeft(r[a])
                 /\ open[m].right = PartRight(r[a])
    BY <1>1, <1>2, <1>3, <1>5
  <2> QED
    BY <2>1, <2>2 DEF PartLeft, PartRight
<1>9. HalvesSorted(s, n, r)
  BY <1>1, <1>2, <1>7, <1>8 DEF HalvesSorted
<1> QED
  BY <1>4, <1>6, <1>9

\* A call of merge_sort, or of merge within it.
Halving(n, s, open, m, c) ==
  /\ Arrays(n, s) /\ n \in Nat /\ n = Len(given) /\ s = array /\ Numbered(s, n)
  /\ Numbered(temp, n) /\ open = recursion /\ open \in Seq(Calls)
  /\ open # <<>> /\ m = Len(open) /\ m \in DOMAIN open /\ m \in Nat \ {0}
  /\ c = open[m] /\ c = Srt!Top /\ c \in Calls
  /\ c.left \in Int /\ c.right \in Int /\ c.half \in 0..2
  /\ c.left >= 1 /\ c.right <= n
  /\ Inside(open, n) /\ Nested(open, n) /\ HalvesSorted(s, n, open)
  /\ Srt!Reordered(s, given)

LEMMA HalvingFacts ==
  ASSUME SortInv, loop.at \in {"merge_sort", "merge"}, recursion # <<>>
  PROVE  \E n, s, open, m, c : Halving(n, s, open, m, c)
<1>1. PICK n, s : Arrays(n, s)
  BY ArraysFacts
<1>2. /\ n \in Nat /\ n = Len(given) /\ s = array /\ Numbered(s, n)
      /\ recursion \in Seq(Calls) /\ Numbered(temp, n)
  BY <1>1 DEF Arrays, Numbered
<1>3. PICK m, c : m = Len(recursion) /\ c = Srt!Top
  OBVIOUS
<1>4. /\ Inside(recursion, n) /\ Nested(recursion, n) /\ HalvesSorted(s, n, recursion)
  BY <1>2 DEF SortInv, MergeInv
<1>5. Srt!Reordered(s, given)
  BY <1>2 DEF SortInv, Whole
<1>6. /\ m \in DOMAIN recursion /\ m \in Nat \ {0} /\ c = recursion[m] /\ c \in Calls
      /\ c.left \in Int /\ c.right \in Int /\ c.half \in 0..2
  BY <1>1, <1>3, TopFacts
<1>7. c.left >= 1 /\ c.right <= n
  BY <1>4, <1>6 DEF Inside
<1>8. Halving(n, s, recursion, m, c)
  BY <1>1, <1>2, <1>3, <1>4, <1>5, <1>6, <1>7 DEF Halving
<1> QED
  BY <1>8

LEMMA MergeReturn == ASSUME SortInv, Srt!Return, loop.at = "merge_sort" PROVE SortInv'
<1>1. loop.at = "merge_sort" /\ recursion # <<>>
  BY DEF Srt!Return
<1>2. PICK n, s, open, m, c : Halving(n, s, open, m, c)
  BY <1>1, HalvingFacts
<1>3. /\ Arrays(n, s) /\ n \in Nat /\ n = Len(given) /\ s = array /\ Numbered(s, n)
      /\ Numbered(temp, n) /\ open = recursion /\ open \in Seq(Calls)
      /\ open # <<>> /\ m = Len(open) /\ m \in DOMAIN open
      /\ c = open[m] /\ c = Srt!Top /\ c.left \in Int /\ c.right \in Int
      /\ Inside(open, n) /\ Nested(open, n) /\ HalvesSorted(s, n, open)
      /\ Srt!Reordered(s, given)
  BY <1>2 DEF Halving
<1>4. c.left >= c.right
  BY <1>3 DEF Srt!Return
<1>5. InOrder(s, open[m].left, open[m].right)
  BY <1>3, <1>4 DEF InOrder
<1>6. Earlier(s, open)
  BY <1>3 DEF HalvesSorted, Earlier
<1>7. PICK r : r = Srt!Front(open)
  OBVIOUS
<1>8. Fewer(r, open)
  BY <1>3, <1>7, FewerFacts
<1>9. Inside(r, n) /\ Nested(r, n) /\ HalvesSorted(s, n, r) /\ r \in Seq(Calls)
  BY <1>3, <1>5, <1>6, <1>8, CallDone DEF Fewer
<1>10. /\ given' = given /\ temp' = temp /\ array' = s /\ recursion' = r /\ loop' = loop
  BY <1>3, <1>7 DEF Srt!Return
<1>11. PICK i \in Int, j \in Int, k \in Int, key \in Int :
         i = loop.i /\ j = loop.j /\ k = loop.k /\ key = loop.key
  BY DEF SortInv, SortTypes
<1>12. LoopIs(loop', "merge_sort", i, j, k, key)
  BY <1>1, <1>10, <1>11 DEF LoopIs
<1>13. MergeInv'
  BY <1>1, <1>3, <1>9, <1>10 DEF MergeInv
<1> QED
  BY <1>3, <1>9, <1>10, <1>12, <1>13, MergeStands

LEMMA MergingFacts ==
  ASSUME SortInv, loop.at = "merge"
  PROVE  \E n, s, open, m, c, mid, i, j, k :
           /\ Halving(n, s, open, m, c) /\ c.half = 2 /\ c.left < c.right
           /\ mid = Srt!Middle(c) /\ i = loop.i /\ j = loop.j /\ k = loop.k
           /\ Runs(n, s, temp, c.left, mid, c.right, i, j, k)
<1>1. recursion # <<>>
  BY DEF SortInv, MergeInv
<1>2. PICK n, s, open, m, c : Halving(n, s, open, m, c)
  BY <1>1, HalvingFacts
<1>3. /\ n \in Nat /\ n = Len(given) /\ s = array /\ Numbered(s, n)
      /\ Numbered(temp, n) /\ open = recursion /\ m = Len(open) /\ m \in DOMAIN open
      /\ c = open[m] /\ c = Srt!Top /\ c \in Calls
      /\ c.left \in Int /\ c.right \in Int /\ c.left >= 1 /\ c.right <= n
      /\ HalvesSorted(s, n, open)
  BY <1>2 DEF Halving
<1>4. PICK mid, i, j, k : mid = Srt!Middle(c) /\ i = loop.i /\ j = loop.j /\ k = loop.k
  OBVIOUS
<1>5. /\ c.half = 2 /\ c.left < c.right
      /\ i \in c.left..(mid + 1) /\ j \in (mid + 1)..(c.right + 1) /\ k = i + j - mid - 1
      /\ Merged(temp, s, c.left, mid, c.right, i, j, k)
  BY <1>3, <1>4 DEF SortInv, MergeInv
<1>6. mid \in Int /\ c.left <= mid /\ mid < c.right
  BY <1>3, <1>4, <1>5, MiddleFacts
<1>7. InOrder(s, c.left, mid) /\ InOrder(s, mid + 1, c.right)
  BY <1>3, <1>4, <1>5 DEF HalvesSorted
<1>8. /\ c.left \in 1..n /\ mid \in 1..n /\ c.right \in 1..n
      /\ i \in Int /\ j \in Int /\ k \in Int
      /\ c.left <= i /\ i <= mid + 1 /\ mid + 1 <= j /\ j <= c.right + 1
  BY <1>3, <1>5, <1>6
<1>9. Runs(n, s, temp, c.left, mid, c.right, i, j, k)
  BY <1>3, <1>5, <1>6, <1>7, <1>8 DEF Runs
<1> QED
  BY <1>2, <1>4, <1>5, <1>9

\* A merge under way.
LEMMA Merging ==
  ASSUME NEW n, NEW s, NEW open, NEW m, NEW c, Halving(n, s, open, m, c),
         c.half = 2, c.left < c.right, NEW mid, mid = Srt!Middle(c),
         NEW u, NEW i, NEW j, NEW k, Runs(n, s, u, c.left, mid, c.right, i, j, k),
         given' = given, array' = s, temp' = u, recursion' = open,
         LoopIs(loop', "merge", i, j, k, 0)
  PROVE  SortInv'
<1>1. /\ Arrays(n, s) /\ n \in Nat /\ n = Len(given) /\ Numbered(s, n)
      /\ open = recursion /\ open \in Seq(Calls) /\ open # <<>> /\ c = Srt!Top
      /\ c.left \in Int /\ c.right \in Int
      /\ Inside(open, n) /\ Nested(open, n) /\ HalvesSorted(s, n, open)
      /\ Srt!Reordered(s, given)
  BY DEF Halving
<1>2. /\ i \in Int /\ j \in Int /\ k \in Int /\ mid \in Int /\ Numbered(u, n)
      /\ c.left <= i /\ i <= mid + 1 /\ mid + 1 <= j /\ j <= c.right + 1
      /\ k = i + j - mid - 1
      /\ Merged(u, s, c.left, mid, c.right, i, j, k)
  BY DEF Runs
<1>3. i \in c.left..(mid + 1) /\ j \in (mid + 1)..(c.right + 1)
  BY <1>1, <1>2
<1>4. loop'.at = "merge" /\ loop'.i = i /\ loop'.j = j /\ loop'.k = k
  BY DEF LoopIs
<1>5. Srt!Top' = c
  BY <1>1 DEF Srt!Top, Srt!Last
<1>6. MergeInv'
  BY <1>1, <1>2, <1>3, <1>4, <1>5 DEF MergeInv, Srt!Middle
<1>7. 0 \in Int
  OBVIOUS
<1> QED
  BY <1>1, <1>2, <1>6, <1>7, MergeStands

\* Both halves are sorted, and nothing is merged yet.
LEMMA MergeStep == ASSUME SortInv, Srt!Merge PROVE SortInv'
<1>1. loop.at = "merge_sort" /\ recursion # <<>>
  BY DEF Srt!Merge
<1>2. PICK n, s, open, m, c : Halving(n, s, open, m, c)
  BY <1>1, HalvingFacts
<1>3. /\ n \in Nat /\ n = Len(given) /\ s = array /\ Numbered(s, n)
      /\ Numbered(temp, n) /\ open = recursion /\ m = Len(open) /\ m \in DOMAIN open
      /\ c = open[m] /\ c = Srt!Top /\ c \in Calls
      /\ c.left \in Int /\ c.right \in Int /\ c.left >= 1 /\ c.right <= n
      /\ HalvesSorted(s, n, open)
  BY <1>2 DEF Halving
<1>4. c.left < c.right /\ c.half = 2
  BY <1>3 DEF Srt!Merge
<1>5. PICK l, mid, r : l = c.left /\ mid = Srt!Middle(c) /\ r = c.right
  OBVIOUS
<1>6. mid \in Int /\ l <= mid /\ mid < r /\ l \in Int /\ r \in Int /\ l >= 1 /\ r <= n
  BY <1>3, <1>4, <1>5, MiddleFacts
<1>7. l \in 1..n /\ mid \in 1..n /\ r \in 1..n
  BY <1>3, <1>6
<1>8. InOrder(s, l, mid) /\ InOrder(s, mid + 1, r)
  BY <1>3, <1>4, <1>5 DEF HalvesSorted
<1>9. Merged(temp, s, l, mid, r, l, mid + 1, l)
  <2>1. l..(l - 1) = {} /\ (mid + 1)..((mid + 1) - 1) = {}
    BY <1>6
  <2>2. PICK S, T : S = {} /\ T = {} /\ S = l..(l - 1)
                    /\ T = l..(l - 1) \union (mid + 1)..((mid + 1) - 1)
    BY <2>1
  <2>3. PICK f : f = [x \in S |-> x]
    OBVIOUS
  <2>4. f \in [S -> T] /\ Pairs(f, S, T) /\ \A x \in S : temp[x] = s[f[x]]
    BY <2>2, <2>3 DEF Pairs
  <2> QED
    BY <2>1, <2>2, <2>4 DEF Merged, InOrder
<1>10. Runs(n, s, temp, l, mid, r, l, mid + 1, l)
  <2>1. /\ mid + 1 \in Int /\ l <= l /\ l <= mid + 1 /\ mid + 1 <= mid + 1
        /\ mid + 1 <= r + 1 /\ l = l + (mid + 1) - mid - 1
    BY <1>6
  <2> QED
    BY <2>1, <1>3, <1>6, <1>7, <1>8, <1>9 DEF Runs
<1>11. /\ given' = given /\ array' = s /\ temp' = temp /\ recursion' = open
       /\ loop' = Srt!Loop("merge", l, mid + 1, l, 0)
  BY <1>3, <1>5 DEF Srt!Merge
<1>12. LoopIs(loop', "merge", l, mid + 1, l, 0)
  BY <1>11, LoopFacts
<1> QED
  BY <1>2, <1>4, <1>5, <1>10, <1>11, <1>12, Merging

LEMMA TakeLeftStep == ASSUME SortInv, Srt!TakeLeft PROVE SortInv'
<1>1. loop.at = "merge"
  BY DEF Srt!TakeLeft
<1>2. PICK n, s, open, m, c, mid, i, j, k :
        /\ Halving(n, s, open, m, c) /\ c.half = 2 /\ c.left < c.right
        /\ mid = Srt!Middle(c) /\ i = loop.i /\ j = loop.j /\ k = loop.k
        /\ Runs(n, s, temp, c.left, mid, c.right, i, j, k)
  BY <1>1, MergingFacts
<1>3. /\ n \in Nat /\ s = array /\ Numbered(s, n) /\ Numbered(temp, n)
      /\ open = recursion /\ c = Srt!Top
  BY <1>2 DEF Halving
<1>4. i <= mid /\ (j <= c.right => s[i] <= s[j])
  BY <1>2, <1>3 DEF Srt!TakeLeft
<1>5. k \in 1..n /\ i \in 1..n
  BY <1>2, <1>4 DEF Runs
<1>6. PICK u : u = Filled(temp, k, s[i])
  OBVIOUS
<1>7. FilledOf(u, temp, k, s[i], n)
  <2>1. s[i] \in Int
    BY <1>3, <1>5 DEF Numbered
  <2> QED
    BY <2>1, <1>3, <1>5, <1>6, FilledFacts
<1>8. Runs(n, s, u, c.left, mid, c.right, i + 1, j, k + 1)
  BY <1>2, <1>4, <1>7, MoreLeft
<1>9. /\ given' = given /\ array' = s /\ temp' = u /\ recursion' = open
      /\ loop' = Srt!Loop("merge", i + 1, j, k + 1, 0)
  BY <1>2, <1>3, <1>6 DEF Srt!TakeLeft, Filled
<1>10. LoopIs(loop', "merge", i + 1, j, k + 1, 0)
  BY <1>9, LoopFacts
<1> QED
  BY <1>2, <1>8, <1>9, <1>10, Merging

LEMMA TakeRightStep == ASSUME SortInv, Srt!TakeRight PROVE SortInv'
<1>1. loop.at = "merge"
  BY DEF Srt!TakeRight
<1>2. PICK n, s, open, m, c, mid, i, j, k :
        /\ Halving(n, s, open, m, c) /\ c.half = 2 /\ c.left < c.right
        /\ mid = Srt!Middle(c) /\ i = loop.i /\ j = loop.j /\ k = loop.k
        /\ Runs(n, s, temp, c.left, mid, c.right, i, j, k)
  BY <1>1, MergingFacts
<1>3. /\ n \in Nat /\ s = array /\ Numbered(s, n) /\ Numbered(temp, n)
      /\ open = recursion /\ c = Srt!Top
  BY <1>2 DEF Halving
<1>4. j <= c.right /\ (i <= mid => s[i] > s[j])
  BY <1>2, <1>3 DEF Srt!TakeRight
<1>5. k \in 1..n /\ j \in 1..n
  BY <1>2, <1>4 DEF Runs
<1>6. PICK u : u = Filled(temp, k, s[j])
  OBVIOUS
<1>7. FilledOf(u, temp, k, s[j], n)
  <2>1. s[j] \in Int
    BY <1>3, <1>5 DEF Numbered
  <2> QED
    BY <2>1, <1>3, <1>5, <1>6, FilledFacts
<1>8. Runs(n, s, u, c.left, mid, c.right, i, j + 1, k + 1)
  BY <1>2, <1>4, <1>7, MoreRight
<1>9. /\ given' = given /\ array' = s /\ temp' = u /\ recursion' = open
      /\ loop' = Srt!Loop("merge", i, j + 1, k + 1, 0)
  BY <1>2, <1>3, <1>6 DEF Srt!TakeRight, Filled
<1>10. LoopIs(loop', "merge", i, j + 1, k + 1, 0)
  BY <1>9, LoopFacts
<1> QED
  BY <1>2, <1>8, <1>9, <1>10, Merging

\* s with the places from l to r as in t.
Copied(u, s, t, l, r, n) ==
  /\ Numbered(u, n) /\ \A x \in 1..n : x \in l..r => u[x] = t[x]
  /\ \A x \in 1..n : x \notin l..r => u[x] = s[x]

\* What was merged is another order of the same range.
LEMMA CopiedReorders ==
  ASSUME NEW n \in Nat, NEW s, NEW t, Numbered(s, n), NEW l \in 1..n, NEW r \in 1..n,
         NEW f, PairsOff(f, l..r, l..r), \A x \in l..r : t[x] = s[f[x]],
         NEW u, Copied(u, s, t, l, r, n)
  PROVE  Srt!Reordered(u, s)
<1> PICK S : S = l..r
  OBVIOUS
<1>1. \A x \in S : x \in 1..n
  OBVIOUS
<1>2. PICK g : g = [x \in 1..n |-> IF x \in S THEN f[x] ELSE x]
  OBVIOUS
<1>3. /\ \A x \in S : f[x] \in S
      /\ \A x, y \in S : f[x] = f[y] => x = y
      /\ \A y \in S : \E x \in S : f[x] = y
  BY DEF PairsOff, Pairs
<1>4. /\ \A x \in 1..n : x \in S => g[x] = f[x]
      /\ \A x \in 1..n : x \notin S => g[x] = x
  BY <1>2
<1>5. g \in [1..n -> 1..n]
  BY <1>1, <1>2, <1>3
<1>6. Pairs(g, 1..n, 1..n)
  <2>1. ASSUME NEW x \in 1..n, NEW y \in 1..n, g[x] = g[y] PROVE x = y
    <3>1. CASE x \in S /\ y \in S
      <4>1. f[x] = f[y]
        BY <2>1, <3>1, <1>4
      <4> QED
        BY <3>1, <4>1, <1>3
    <3>2. CASE x \notin S /\ y \notin S
      BY <2>1, <3>2, <1>4
    <3>3. CASE x \in S /\ y \notin S
      <4>1. f[x] = y /\ f[x] \in S
        BY <2>1, <3>3, <1>3, <1>4
      <4> QED
        BY <3>3, <4>1
    <3>4. CASE x \notin S /\ y \in S
      <4>1. f[y] = x /\ f[y] \in S
        BY <2>1, <3>4, <1>3, <1>4
      <4> QED
        BY <3>4, <4>1
    <3> QED
      BY <3>1, <3>2, <3>3, <3>4
  <2>2. ASSUME NEW y \in 1..n PROVE \E x \in 1..n : g[x] = y
    <3>1. CASE y \in S
      BY <3>1, <1>1, <1>3, <1>4
    <3>2. CASE y \notin S
      BY <3>2, <1>4
    <3> QED
      BY <3>1, <3>2
  <2> QED
    BY <2>1, <2>2 DEF Pairs
<1>7. \A x \in 1..n : u[x] = s[g[x]]
  BY <1>4 DEF Copied
<1>8. Reordering(g, n, u, s)
  BY <1>5, <1>6, <1>7 DEF Reordering
<1> QED
  BY <1>8, Reorders DEF Numbered, Copied

LEMMA CopyBackStep == ASSUME SortInv, Srt!CopyBack PROVE SortInv'
<1>1. loop.at = "merge"
  BY DEF Srt!CopyBack
<1>2. PICK n, s, open, m, c, mid, i, j, k :
        /\ Halving(n, s, open, m, c) /\ c.half = 2 /\ c.left < c.right
        /\ mid = Srt!Middle(c) /\ i = loop.i /\ j = loop.j /\ k = loop.k
        /\ Runs(n, s, temp, c.left, mid, c.right, i, j, k)
  BY <1>1, MergingFacts
<1>3. /\ Arrays(n, s) /\ n \in Nat /\ n = Len(given) /\ s = array /\ Numbered(s, n)
      /\ Numbered(temp, n) /\ open = recursion /\ open \in Seq(Calls)
      /\ open # <<>> /\ m = Len(open) /\ m \in DOMAIN open /\ m \in Nat \ {0}
      /\ c = open[m] /\ c = Srt!Top /\ c \in Calls
      /\ Inside(open, n) /\ Nested(open, n) /\ HalvesSorted(s, n, open)
      /\ Srt!Reordered(s, given)
  BY <1>2 DEF Halving
<1>4. PICK l, r, t : l = c.left /\ r = c.right /\ t = temp
  OBVIOUS
<1>5. /\ l \in 1..n /\ mid \in 1..n /\ r \in 1..n /\ l <= mid /\ mid < r
      /\ i \in Int /\ j \in Int /\ k \in Int
      /\ i <= mid + 1 /\ j <= r + 1 /\ k = i + j - mid - 1
      /\ Merged(t, s, l, mid, r, i, j, k)
  BY <1>2, <1>4 DEF Runs
<1>6. i = mid + 1 /\ j = r + 1 /\ k = r + 1
  <2>1. i > mid /\ j > r
    BY <1>2, <1>3, <1>4 DEF Srt!CopyBack
  <2> QED
    BY <2>1, <1>5
<1>7. /\ l..(k - 1) = l..r
      /\ l..(i - 1) \union (mid + 1)..(j - 1) = l..r
  BY <1>5, <1>6
<1>8. PICK f : PairsOff(f, l..r, l..r) /\ \A x \in l..r : t[x] = s[f[x]]
  BY <1>5, <1>7 DEF Merged, PairsOff
<1>9. InOrder(t, l, r)
  BY <1>5, <1>7 DEF Merged, InOrder
<1>10. PICK u : u = [x \in DOMAIN s |-> IF x \in l..r THEN t[x] ELSE s[x]]
  OBVIOUS
<1>11. Copied(u, s, t, l, r, n)
  <2>1. DOMAIN s = 1..n /\ (\A x \in 1..n : s[x] \in Int) /\ (\A x \in 1..n : t[x] \in Int)
    BY <1>3, <1>4 DEF Numbered
  <2> QED
    BY <2>1, <1>10 DEF Copied, Numbered
<1>12. /\ Numbered(u, n) /\ \A x \in 1..n : x \in l..r => u[x] = t[x]
       /\ \A x \in 1..n : x \notin l..r => u[x] = s[x]
  BY <1>11 DEF Copied
<1>13. Srt!Reordered(u, given)
  <2>1. Srt!Reordered(u, s)
    BY <1>3, <1>5, <1>8, <1>11, CopiedReorders
  <2>2. DOMAIN u = 1..n /\ DOMAIN s = 1..n /\ DOMAIN given = 1..n
    BY <1>3, <1>12 DEF Numbered, Arrays
  <2> QED
    BY <2>1, <2>2, <1>3, ReorderedTwice
<1>14. InOrder(u, l, r)
  <2>1. \A x \in l..r : x \in 1..n
    BY <1>3, <1>5
  <2> QED
    BY <2>1, <1>9, <1>12 DEF InOrder
<1>15. Earlier(u, open)
  <2> SUFFICES ASSUME NEW a \in DOMAIN open, a < m, open[a].half = 2
               PROVE  InOrder(u, open[a].left, Srt!Middle(open[a]))
    BY <1>3 DEF Earlier
  <2>1. PICK d \in Calls : d = open[a]
    BY <1>3
  <2>2. InOrder(s, d.left, Srt!Middle(d))
    BY <2>1, <1>3 DEF HalvesSorted
  <2>3. d.left < d.right /\ PartLeft(d) <= l
    BY <2>1, <1>3, <1>4 DEF Nested
  <2>4. d.left \in Int /\ d.left >= 1
    BY <2>1, <1>3 DEF Inside, Calls
  <2>5. Srt!Middle(d) \in Int /\ Srt!Middle(d) < l
    <3>1. Srt!Middle(d) \in Int /\ PartLeft(d) = Srt!Middle(d) + 1
      BY <2>1, <2>3, MiddleFacts DEF PartLeft
    <3> QED
      BY <3>1, <2>3, <1>5
  <2>6. \A x \in d.left..Srt!Middle(d) : x \in 1..n /\ x \notin l..r
    BY <2>4, <2>5, <1>3, <1>5
  <2>7. InOrder(u, d.left, Srt!Middle(d))
    BY <2>2, <2>6, <1>12 DEF InOrder
  <2> QED
    BY <2>1, <2>7
<1>16. PICK q : q = Srt!Front(open)
  OBVIOUS
<1>17. Fewer(q, open)
  BY <1>3, <1>16, FewerFacts
<1>18. Inside(q, n) /\ Nested(q, n) /\ HalvesSorted(u, n, q) /\ q \in Seq(Calls)
  BY <1>3, <1>4, <1>14, <1>15, <1>17, CallDone DEF Fewer
<1>19. /\ given' = given /\ array' = u /\ temp' = t /\ recursion' = q
       /\ loop' = Srt!Loop("merge_sort", 0, 0, 0, 0)
  BY <1>3, <1>4, <1>10, <1>16 DEF Srt!CopyBack
<1>20. LoopIs(loop', "merge_sort", 0, 0, 0, 0)
  BY <1>19, LoopFacts
<1>21. loop'.at = "merge_sort"
  BY <1>20 DEF LoopIs
<1>22. MergeInv'
  BY <1>3, <1>18, <1>19, <1>21 DEF MergeInv
<1> QED
  BY <1>3, <1>4, <1>12, <1>13, <1>18, <1>19, <1>20, <1>22, MergeStands

\* The next half of the range is called.
LEMMA HalveStep == ASSUME SortInv, Srt!Halve PROVE SortInv'
<1>1. loop.at = "merge_sort" /\ recursion # <<>>
  BY DEF Srt!Halve
<1>2. PICK n, s, open, m, c : Halving(n, s, open, m, c)
  BY <1>1, HalvingFacts
<1>3. /\ Arrays(n, s) /\ n \in Nat /\ n = Len(given) /\ s = array /\ Numbered(s, n)
      /\ Numbered(temp, n) /\ open = recursion /\ open \in Seq(Calls)
      /\ open # <<>> /\ m = Len(open) /\ m \in DOMAIN open /\ m \in Nat \ {0}
      /\ c = open[m] /\ c = Srt!Top /\ c \in Calls
      /\ c.left \in Int /\ c.right \in Int /\ c.half \in 0..2
      /\ c.left >= 1 /\ c.right <= n
      /\ Inside(open, n) /\ Nested(open, n) /\ HalvesSorted(s, n, open)
      /\ Srt!Reordered(s, given)
  BY <1>2 DEF Halving
<1>4. c.left < c.right /\ (c.half = 0 \/ c.half = 1)
  BY <1>3 DEF Srt!Halve
<1>5. PICK mid : mid = Srt!Middle(c)
  OBVIOUS
<1>6. mid \in Int /\ c.left <= mid /\ mid < c.right
  BY <1>3, <1>4, <1>5, MiddleFacts
<1>7. PICK l, r : /\ l = IF c.half = 0 THEN c.left ELSE mid + 1
                  /\ r = IF c.half = 0 THEN mid ELSE c.right
  OBVIOUS
<1>8. /\ l \in Int /\ r \in Int /\ c.left <= l /\ r <= c.right
      /\ c.half + 1 \in 0..2 /\ 0 \in 0..2 /\ l >= 1 /\ r <= n
  BY <1>3, <1>4, <1>6, <1>7
<1>9. PICK a, b : a = Srt!Call(c.left, c.right, c.half + 1) /\ b = Srt!Call(l, r, 0)
  OBVIOUS
<1>10. CallIs(a, c.left, c.right, c.half + 1) /\ CallIs(b, l, r, 0)
  BY <1>3, <1>8, <1>9, CallFacts
<1>11. /\ a \in Calls /\ a.left = c.left /\ a.right = c.right /\ a.half = c.half + 1
       /\ b \in Calls /\ b.left = l /\ b.right = r /\ b.half = 0
  BY <1>10 DEF CallIs
<1>12. PICK q : q = Srt!Front(open) \o <<a, b>>
  OBVIOUS
<1>13. Instead(q, open, a, b)
  BY <1>3, <1>11, <1>12, InsteadFacts
<1>14. /\ q \in Seq(Calls) /\ Len(q) = m + 1 /\ q[m] = a /\ q[m + 1] = b
       /\ \A x \in 1..(m - 1) : q[x] = open[x]
  BY <1>3, <1>13 DEF Instead
<1>15. DOMAIN q = 1..(m + 1) /\ DOMAIN open = 1..m /\ q # <<>>
  BY <1>3, <1>14
<1>16. /\ \A x \in 1..(m + 1) : x \in 1..(m - 1) \/ x = m \/ x = m + 1
       /\ \A x \in 1..(m - 1) : x \in 1..m /\ x < m
  BY <1>3
<1>17. Srt!Middle(a) = mid
  BY <1>5, <1>11 DEF Srt!Middle
<1>18. Inside(q, n)
  BY <1>3, <1>8, <1>11, <1>14, <1>15, <1>16 DEF Inside
<1>19. PartLeft(a) = l /\ PartRight(a) = r
  <2>1. (a.half = 1 <=> c.half = 0) /\ a.left = c.left /\ a.right = c.right
    BY <1>4, <1>11
  <2> QED
    BY <2>1, <1>7, <1>17 DEF PartLeft, PartRight
<1>20. Nested(q, n)
  <2>1. q[1].left = 1 /\ q[1].right = n
    <3>1. open[1].left = 1 /\ open[1].right = n
      BY <1>3 DEF Nested
    <3>2. m = 1 \/ 1 \in 1..(m - 1)
      BY <1>3
    <3> QED
      BY <3>1, <3>2, <1>3, <1>11, <1>14
  <2>4. \A x, y \in 1..m : x < y =>
          /\ open[x].half \in {1, 2} /\ open[x].left < open[x].right
          /\ PartLeft(open[x]) <= open[y].left /\ open[y].right <= PartRight(open[x])
          /\ y = x + 1 => /\ open[y].left = PartLeft(open[x])
                          /\ open[y].right = PartRight(open[x])
    BY <1>3, <1>15 DEF Nested
  <2> SUFFICES ASSUME NEW x \in 1..(m + 1), NEW y \in 1..(m + 1), x < y
               PROVE  /\ q[x].half \in {1, 2} /\ q[x].left < q[x].right
                      /\ PartLeft(q[x]) <= q[y].left /\ q[y].right <= PartRight(q[x])
                      /\ y = x + 1 => /\ q[y].left = PartLeft(q[x])
                                      /\ q[y].right = PartRight(q[x])
    BY <2>1, <1>15 DEF Nested
  <2>2. CASE x = m
    <3>1. y = m + 1
      BY <2>2, <1>3
    <3>2. a.half \in {1, 2} /\ a.left < a.right
      BY <1>4, <1>11
    <3> QED
      BY <3>1, <3>2, <2>2, <1>8, <1>11, <1>14, <1>19
  <2>3. CASE x # m
    <3>1. x \in 1..(m - 1) /\ x \in 1..m
      BY <2>3, <1>3
    <3>2. PICK d \in Calls : d = open[x] /\ d = q[x]
      BY <3>1, <1>3, <1>14, <1>15
    <3>3. /\ d.half \in {1, 2} /\ d.left < d.right
          /\ PartLeft(d) <= c.left /\ c.right <= PartRight(d)
          /\ m = x + 1 => c.left = PartLeft(d) /\ c.right = PartRight(d)
      <4>1. m \in 1..m /\ x < m /\ open[m] = c
        BY <3>1, <1>3
      <4> QED
        BY <4>1, <2>4, <3>1, <3>2
    <3>4. PartLeft(d) \in Int /\ PartRight(d) \in Int
      <4>1. Srt!Middle(d) \in Int /\ d.left \in Int /\ d.right \in Int
        BY <3>2, <3>3, MiddleFacts DEF Calls
      <4> QED
        BY <4>1 DEF PartLeft, PartRight
    <3>5. CASE y \in 1..(m - 1)
      <4>1. y \in 1..m /\ q[y] = open[y]
        BY <3>5, <1>14, <1>16
      <4> QED
        BY <4>1, <2>4, <3>1, <3>2
    <3>6. CASE y = m
      BY <3>2, <3>3, <3>6, <1>11, <1>14
    <3>7. CASE y = m + 1
      <4>1. PartLeft(d) <= l /\ r <= PartRight(d)
        BY <3>3, <3>4, <1>3, <1>8
      <4>2. y # x + 1
        BY <2>3, <3>7, <1>3
      <4> QED
        BY <4>1, <4>2, <3>2, <3>3, <3>7, <1>11, <1>14
    <3> QED
      BY <3>5, <3>6, <3>7, <1>16
  <2> QED
    BY <2>2, <2>3
<1>21. HalvesSorted(s, n, q)
  <2> SUFFICES ASSUME NEW x \in 1..(m + 1)
               PROVE  /\ q[x].half = 2 => InOrder(s, q[x].left, Srt!Middle(q[x]))
                      /\ x = m + 1 => q[x].half = 0
    BY <1>14, <1>15 DEF HalvesSorted
  <2>1. CASE x \in 1..(m - 1)
    <3>1. q[x] = open[x] /\ x \in DOMAIN open /\ x # m + 1
      BY <2>1, <1>3, <1>14, <1>15, <1>16
    <3> QED
      BY <3>1, <1>3 DEF HalvesSorted
  <2>2. CASE x = m
    <3>1. a.half = 2 => c.half = 1
      BY <1>4, <1>11
    <3>2. a.half = 2 => InOrder(s, c.left, mid)
      BY <3>1, <1>3, <1>5 DEF HalvesSorted
    <3>3. x # m + 1
      BY <2>2, <1>3
    <3> QED
      BY <3>2, <3>3, <2>2, <1>11, <1>14, <1>17
  <2>3. CASE x = m + 1
    BY <2>3, <1>11, <1>14
  <2> QED
    BY <2>1, <2>2, <2>3, <1>16
<1>22. /\ given' = given /\ array' = s /\ temp' = temp /\ loop' = loop
       /\ recursion' = q
  <2>1. recursion' = Srt!Front(open) \o
          <<Srt!Call(c.left, c.right, c.half + 1),
            IF c.half = 0 THEN Srt!Call(c.left, mid, 0) ELSE Srt!Call(mid + 1, c.right, 0)>>
    BY <1>3, <1>5 DEF Srt!Halve
  <2>2. b = IF c.half = 0 THEN Srt!Call(c.left, mid, 0) ELSE Srt!Call(mid + 1, c.right, 0)
    BY <1>7, <1>9
  <2> QED
    BY <2>1, <2>2, <1>3, <1>9, <1>12 DEF Srt!Halve
<1>23. PICK i \in Int, j \in Int, k \in Int, key \in Int :
         i = loop.i /\ j = loop.j /\ k = loop.k /\ key = loop.key
  BY DEF SortInv, SortTypes
<1>24. LoopIs(loop', "merge_sort", i, j, k, key)
  BY <1>1, <1>22, <1>23 DEF LoopIs
<1>25. MergeInv'
  BY <1>1, <1>3, <1>18, <1>20, <1>21, <1>22 DEF MergeInv
<1> QED
  BY <1>3, <1>14, <1>22, <1>23, <1>24, <1>25, MergeStands

LEMMA SortingInit == ASSUME Init, which = "sort" PROVE SortInv
<1>1. Srt!Init
  BY DEF Init
<1>2. PICK n, s : n = Len(given) /\ s = given
  OBVIOUS
<1>3. given \in Seq(Int) /\ n \in Nat /\ DOMAIN given = 1..n /\ given \in [1..n -> Int]
  <2>1. given \in Seq(Values)
    <3>1. given \in UNION { [1..m -> Values] : m \in 0..MaxLength }
      BY <1>1 DEF Srt!Init, Srt!BoundedSeq, Srt!SeqOf
    <3>2. PICK m \in 0..MaxLength : given \in [1..m -> Values]
      BY <3>1, Zenon
    <3>3. m \in Nat
      BY ValuesAssumption
    <3> QED
      BY <3>2, <3>3
  <2>2. \A x \in 1..Len(given) : given[x] \in Int
    <3>1. \A x \in 1..Len(given) : given[x] \in Values
      BY <2>1
    <3>2. \A v \in Values : v \in Int
      BY ValuesAssumption
    <3> QED
      BY <3>1, <3>2
  <2> QED
    BY <2>1, <2>2, <1>2
<1>4. array = given /\ temp = [x \in 1..n |-> 0] /\ temp \in [1..n -> Int]
  BY <1>1, <1>2, <1>3 DEF Srt!Init
<1>5. Srt!Reordered(array, given)
  BY <1>3, <1>4, ReorderedSelf
<1>6. CASE /\ loop = Srt!ShellAt(Len(given) \div 2 + 1, Len(given) \div 2)
           /\ recursion = <<>>
  <2>1. PICK gap, at : /\ gap = n \div 2 /\ gap \in Nat /\ gap <= n
                       /\ gap < 1 => n <= 1
                       /\ at = IF gap >= 1 THEN "insert" ELSE "sorted"
    BY <1>3
  <2>2. LoopIs(loop, at, gap + 1, 0, gap, 0)
    BY <1>2, <1>6, <2>1, LoopFacts DEF Srt!ShellAt
  <2>3. loop.at = at /\ loop.i = gap + 1 /\ loop.j = 0 /\ loop.k = gap /\ loop.key = 0
    BY <2>2 DEF LoopIs
  <2>4. SortTypes
    BY <1>2, <1>3, <1>4, <1>6, <2>1, <2>3 DEF SortTypes
  <2>5. Whole = array
    BY <2>1, <2>3 DEF Whole
  <2>6. ShellInv
    <3>1. at = "insert" => gap \in 1..n /\ gap + 1 \in (gap + 1)..(n + 1)
      BY <2>1, <1>3
    <3>2. gap = 1 => InOrder(array, 1, (gap + 1) - 1)
      BY DEF InOrder
    <3>3. at = "sorted" => InOrder(array, 1, n)
      BY <2>1, <1>3 DEF InOrder
    <3> QED
      BY <3>1, <3>2, <3>3, <1>2, <2>1, <2>3 DEF ShellInv
  <2> QED
    BY <1>5, <2>1, <2>3, <2>4, <2>5, <2>6 DEF SortInv
<1>7. CASE /\ loop \in { Srt!Loop(at, 0, 0, 0, 0) : at \in {"merge_sort", "sort"} }
           /\ recursion = <<Srt!Call(1, Len(given), 0)>>
  <2>1. PICK at \in {"merge_sort", "sort"} : loop = Srt!Loop(at, 0, 0, 0, 0)
    BY <1>7
  <2>2. LoopIs(loop, at, 0, 0, 0, 0)
    BY <2>1, LoopFacts
  <2>3. loop.at = at /\ loop.i = 0 /\ loop.j = 0 /\ loop.k = 0 /\ loop.key = 0
    BY <2>2 DEF LoopIs
  <2>4. PICK c : c = Srt!Call(1, n, 0)
    OBVIOUS
  <2>5. c \in Calls /\ c.left = 1 /\ c.right = n /\ c.half = 0
    <3>1. CallIs(c, 1, n, 0)
      BY <2>4, <1>3, CallFacts
    <3> QED
      BY <3>1 DEF CallIs
  <2>6. PICK open : open = recursion
    OBVIOUS
  <2>7. open = <<c>>
    BY <1>2, <1>7, <2>4, <2>6
  <2>8. /\ open \in Seq(Calls) /\ Len(open) = 1 /\ DOMAIN open = {1} /\ open[1] = c
        /\ open # <<>>
    BY <2>5, <2>7
  <2>9. SortTypes
    BY <1>2, <1>3, <1>4, <2>3, <2>6, <2>8 DEF SortTypes
  <2>10. Whole = array
    BY <2>1, <2>3 DEF Whole
  <2>11. Inside(open, n) /\ Apart(open)
    BY <1>3, <2>5, <2>8 DEF Inside, Apart
  <2>12. Parted(array, n, open)
    <3>1. \A x \in 1..n : Within(c, x)
      BY <1>3, <2>5 DEF Within
    <3> QED
      BY <3>1, <2>8 DEF Parted
  <2>13. Nested(open, n) /\ HalvesSorted(array, n, open)
    BY <2>5, <2>8 DEF Nested, HalvesSorted
  <2>14. at = "sort" => QuickInv
    BY <1>2, <2>3, <2>6, <2>10, <2>11, <2>12 DEF QuickInv
  <2>15. at = "merge_sort" => MergeInv
    BY <1>2, <2>3, <2>6, <2>11, <2>13 DEF MergeInv
  <2> QED
    BY <1>5, <2>1, <2>3, <2>9, <2>10, <2>14, <2>15 DEF SortInv
<1> QED
  BY <1>1, <1>6, <1>7 DEF Srt!Init

LEMMA SortingKept == ASSUME SortInv, UNCHANGED sorting PROVE SortInv'
<1>1. /\ given' = given /\ array' = array /\ temp' = temp /\ recursion' = recursion
      /\ loop' = loop
  BY DEF sorting
<1>2. Whole' = Whole /\ Srt!Top' = Srt!Top
  BY <1>1 DEF Whole, Hole, Srt!Top, Srt!Last
<1>3. SortTypes'
  BY <1>1 DEF SortInv, SortTypes
<1>4. ShellInv' <=> ShellInv
  BY <1>1 DEF ShellInv
<1>5. QuickInv' <=> QuickInv
  BY <1>1, <1>2 DEF QuickInv
<1>6. MergeInv' <=> MergeInv
  BY <1>1, <1>2 DEF MergeInv
<1> QED
  BY <1>1, <1>2, <1>3, <1>4, <1>5, <1>6 DEF SortInv

LEMMA SortingMoves == ASSUME SortInv, Srt!Next PROVE SortInv'
<1>1. ASSUME Srt!Return PROVE SortInv'
  <2>1. loop.at \in {"merge_sort", "sort"}
    BY <1>1 DEF Srt!Return
  <2> QED
    BY <1>1, <2>1, QuickReturn, MergeReturn
<1> QED
  BY <1>1, InsertStep, ShiftStep, PutStep, HalveStep, MergeStep, TakeLeftStep,
     TakeRightStep, CopyBackStep, PartitionStep, FromRightStep, FromLeftStep, PlaceStep
     DEF Srt!Next

\* When the sort has ended the whole array is one run in order.
LEMMA SortedAtEnd == ASSUME SortInv PROVE Srt!Sorts
<1> SUFFICES ASSUME Srt!Ended
             PROVE  /\ \A p \in DOMAIN array : \A q \in p..Len(array) : array[p] <= array[q]
                    /\ Srt!Reordered(array, given)
  BY DEF Srt!Sorts
<1>1. PICK n, s : Arrays(n, s)
  BY ArraysFacts
<1>2. n \in Nat /\ n = Len(given) /\ s = array /\ Numbered(s, n)
  BY <1>1 DEF Arrays
<1>3. \/ loop.at = "sorted"
      \/ loop.at = "merge_sort" /\ recursion = <<>>
      \/ loop.at = "sort" /\ recursion = <<>>
  BY DEF Srt!Ended
<1>4. Whole = s
  BY <1>2, <1>3 DEF Whole
<1>5. Srt!Reordered(s, given)
  BY <1>4 DEF SortInv
<1>6. InOrder(s, 1, n)
  <2>1. CASE loop.at = "sorted"
    BY <2>1, <1>2 DEF SortInv, ShellInv
  <2>2. CASE loop.at = "merge_sort" /\ recursion = <<>>
    BY <2>2, <1>2 DEF SortInv, MergeInv, HalvesSorted
  <2>3. CASE loop.at = "sort" /\ recursion = <<>>
    <3>1. Parted(s, n, recursion) /\ DOMAIN recursion = {}
      BY <2>3, <1>2, <1>4 DEF SortInv, QuickInv
    <3> QED
      BY <3>1 DEF Parted, InOrder
  <2> QED
    BY <1>3, <2>1, <2>2, <2>3
<1>7. Len(s) = n /\ DOMAIN s = 1..n /\ \A x \in 1..n : s[x] \in Int
  BY <1>2 DEF Numbered
<1>8. ASSUME NEW p \in 1..n, NEW q \in p..n PROVE s[p] <= s[q]
  <2>1. q \in 1..n /\ (p = q \/ p < q) /\ s[p] \in Int
    BY <1>2, <1>7
  <2> QED
    BY <2>1, <1>6 DEF InOrder
<1> QED
  BY <1>2, <1>5, <1>7, <1>8

LEMMA SortingIdle == ASSUME Init, which # "sort" PROVE SortInv
<1>1. /\ given = <<>> /\ array = <<>> /\ temp = <<>> /\ recursion = <<>>
      /\ loop = Srt!Loop("sorted", 0, 0, 0, 0)
  BY DEF Init
<1>2. LoopIs(loop, "sorted", 0, 0, 0, 0)
  BY <1>1, LoopFacts
<1>3. loop.at = "sorted" /\ loop.i = 0 /\ loop.j = 0 /\ loop.k = 0 /\ loop.key = 0
  BY <1>2 DEF LoopIs
<1>4. PICK n, s : n = 0 /\ s = array /\ s = given
  BY <1>1
<1>5. /\ n \in Nat /\ n = Len(given) /\ DOMAIN s = 1..n /\ s \in [1..n -> Int]
      /\ given \in Seq(Int) /\ temp \in [1..n -> Int] /\ recursion \in Seq(Calls)
  BY <1>1, <1>4
<1>6. SortTypes
  BY <1>3, <1>4, <1>5 DEF SortTypes
<1>7. Srt!Reordered(s, given)
  BY <1>4, <1>5, ReorderedSelf
<1>8. Whole = s
  BY <1>3, <1>4 DEF Whole
<1>9. ShellInv
  BY <1>3, <1>4, <1>5 DEF ShellInv, InOrder
<1> QED
  BY <1>3, <1>6, <1>7, <1>8, <1>9 DEF SortInv

LEMMA SortingStep == ASSUME SortInv, [Next]_vars PROVE SortInv'
<1>1. Srt!Next \/ UNCHANGED sorting
  BY DEF Next, vars, Sorting, Requesting, Redis, ZeroMQ, Service
<1> QED
  BY <1>1, SortingMoves, SortingKept

\* The linked queue is a line and the growing stack a pile, whatever elements
\* go in, cells malloc hands out, and however the array grows; the queue's
\* ends, size and emptiness test agree with its nodes, and none of them is
\* leaked (listqueue.cpp, stack.cpp). An array of any numbers and any length is
\* in ascending order, with the same elements, when any of the sorts has ended
\* (sort.cpp).
THEOREM OrdersKept == Spec => OrderKept
<1>1. Init => ContainersInv
  BY ContainersInit
<1>2. ContainersInv /\ [Next]_vars => ContainersInv'
  BY ContainersStep
<1>3. ContainersInv => Con!EndsAgree
  BY ContainersAgree
<1>4. Init => Line!Init /\ Pile!Init
  <2> SUFFICES ASSUME Init PROVE Line!Init /\ Pile!Init
    OBVIOUS
  <2>1. /\ queue_ = [front |-> 0, rear |-> 0, queue_size |-> 0, node |-> <<>>]
        /\ stack_.top = 0
    BY DEF Init, Con!Init
  <2>2. Con!Queued = <<>>
    BY <2>1, EmptyQueue, QueuedIs
  <2>3. Con!Stacked = <<>>
    BY <2>1 DEF Con!Stacked
  <2> QED
    BY <2>2, <2>3 DEF Line!Init, Pile!Init, During
<1>5. ContainersInv /\ [Next]_vars
        => [Line!Next]_<<During("queue", Con!Queued, <<>>), During("queue", popped, 0)>>
  BY LineStep
<1>6. ContainersInv /\ [Next]_vars
        => [Pile!Next]_<<During("stack", Con!Stacked, <<>>), During("stack", popped, 0)>>
  BY PileStep
<1>7. Spec => []ContainersInv /\ []Con!EndsAgree
  BY <1>1, <1>2, <1>3, PTL DEF Spec
<1>10. Init => SortInv
  BY SortingInit, SortingIdle
<1>11. SortInv /\ [Next]_vars => SortInv'
  BY SortingStep
<1>12. SortInv => Srt!Sorts
  BY SortedAtEnd
<1>13. Spec => []Srt!Sorts
  BY <1>10, <1>11, <1>12, PTL DEF Spec
<1>8. Spec => Line!Spec
  BY <1>1, <1>2, <1>4, <1>5, PTL DEF Spec, Line!Spec
<1>9. Spec => Pile!Spec
  BY <1>1, <1>2, <1>4, <1>6, PTL DEF Spec, Pile!Spec
<1> QED
  BY <1>7, <1>8, <1>9, <1>13, PTL DEF OrderKept
=============================================================================
