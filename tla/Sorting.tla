------------------------------ MODULE Sorting -------------------------------
(* The sorts of src/算法类/sort/sort.cpp, one call of one of them in each    *)
(* behaviour. A step is a call, a return or one round of a loop; positions   *)
(* count from 1.                                                             *)
EXTENDS Integers, SequencesExt
CONSTANTS Values, MaxLength     \* bound: what is in the arrays, their length
VARIABLES given,                \* the caller's array before the call
          data,                 \* the array
          temp,                 \* the array that merge uses
          recursion,            \* the calls under way, the innermost last
          loop                  \* the loop under way and its variables

sortVars == <<given, data, temp, recursion, loop>>

\* k is the gap of shell_sort, and key its temp.
Loop(at, i, j, k, key) == [at |-> at, i |-> i, j |-> j, k |-> k, key |-> key]

\* half counts the recursive calls a merge_sort has made.
Call(left, right, half) == [left |-> left, right |-> right, half |-> half]

Top == Last(recursion)

Middle(call) == call.left + (call.right - call.left) \div 2

ShellAt(i, gap) == Loop(IF gap >= 1 THEN "insert" ELSE "sorted", i, 0, gap, 0)

Init ==
  /\ given \in BoundedSeq(Values, MaxLength)
  /\ data = given /\ temp = [n \in 1..Len(given) |-> 0]
  /\ \/ /\ loop = ShellAt(Len(given) \div 2 + 1, Len(given) \div 2) /\ recursion = <<>>
     \/ /\ loop \in { Loop(at, 0, 0, 0, 0) : at \in {"merge_sort", "sort"} }
        /\ recursion = <<Call(1, Len(given), 0)>>
-----------------------------------------------------------------------------
\* One element after the other is taken out; at the end comes the next gap.
Insert ==
  /\ loop.at = "insert"
  /\ loop' = IF loop.i <= Len(data)
             THEN Loop("shift", loop.i, loop.i - loop.k, loop.k, data[loop.i])
             ELSE ShellAt(loop.k \div 2 + 1, loop.k \div 2)
  /\ UNCHANGED <<given, data, temp, recursion>>

\* Larger elements of its group move up by one gap before it goes in.
Shift ==
  /\ loop.at = "shift" /\ loop.j >= 1 /\ loop.key < data[loop.j]
  /\ data' = [data EXCEPT ![loop.j + loop.k] = data[loop.j]]
  /\ loop' = Loop("shift", loop.i, loop.j - loop.k, loop.k, loop.key)
  /\ UNCHANGED <<given, temp, recursion>>

Put ==
  /\ loop.at = "shift" /\ ~(loop.j >= 1 /\ loop.key < data[loop.j])
  /\ data' = [data EXCEPT ![loop.j + loop.k] = loop.key]
  /\ loop' = Loop("insert", loop.i + 1, 0, loop.k, 0)
  /\ UNCHANGED <<given, temp, recursion>>
-----------------------------------------------------------------------------
\* merge_sort calls itself for either half and then merge.
Halve ==
  /\ loop.at = "merge_sort" /\ recursion # <<>> /\ Top.left < Top.right /\ Top.half < 2
  /\ recursion' = Front(recursion) \o
       <<Call(Top.left, Top.right, Top.half + 1),
         IF Top.half = 0 THEN Call(Top.left, Middle(Top), 0)
         ELSE Call(Middle(Top) + 1, Top.right, 0)>>
  /\ UNCHANGED <<given, data, temp, loop>>

Merge ==
  /\ loop.at = "merge_sort" /\ recursion # <<>> /\ Top.left < Top.right /\ Top.half = 2
  /\ loop' = Loop("merge", Top.left, Middle(Top) + 1, Top.left, 0)
  /\ UNCHANGED <<given, data, temp, recursion>>

\* Of equal elements the left one comes first.
TakeLeft ==
  /\ loop.at = "merge" /\ loop.i <= Middle(Top)
  /\ loop.j <= Top.right => data[loop.i] <= data[loop.j]
  /\ temp' = [temp EXCEPT ![loop.k] = data[loop.i]]
  /\ loop' = Loop("merge", loop.i + 1, loop.j, loop.k + 1, 0)
  /\ UNCHANGED <<given, data, recursion>>

TakeRight ==
  /\ loop.at = "merge" /\ loop.j <= Top.right
  /\ loop.i <= Middle(Top) => data[loop.i] > data[loop.j]
  /\ temp' = [temp EXCEPT ![loop.k] = data[loop.j]]
  /\ loop' = Loop("merge", loop.i, loop.j + 1, loop.k + 1, 0)
  /\ UNCHANGED <<given, data, recursion>>

CopyBack ==
  /\ loop.at = "merge" /\ loop.i > Middle(Top) /\ loop.j > Top.right
  /\ data' = [n \in DOMAIN data |-> IF n \in Top.left..Top.right THEN temp[n] ELSE data[n]]
  /\ loop' = Loop("merge_sort", 0, 0, 0, 0) /\ recursion' = Front(recursion)
  /\ UNCHANGED <<given, temp>>
-----------------------------------------------------------------------------
\* Both recursive sorts are done with a part of one element or none.
Return ==
  /\ loop.at \in {"merge_sort", "sort"} /\ recursion # <<>> /\ Top.left >= Top.right
  /\ recursion' = Front(recursion)
  /\ UNCHANGED <<given, data, temp, loop>>

Partition ==
  /\ loop.at = "sort" /\ recursion # <<>> /\ Top.left < Top.right
  /\ loop' = Loop("right", Top.left, Top.right, 0, data[Top.left])
  /\ UNCHANGED <<given, data, temp, recursion>>

\* The key's place is free at i; an element below the key moves there.
FromRight ==
  /\ loop.at = "right"
  /\ IF loop.i < loop.j /\ loop.key <= data[loop.j]
     THEN /\ loop' = Loop("right", loop.i, loop.j - 1, 0, loop.key)
          /\ UNCHANGED data
     ELSE /\ data' = [data EXCEPT ![loop.i] = data[loop.j]]
          /\ loop' = Loop("left", loop.i, loop.j, 0, loop.key)
  /\ UNCHANGED <<given, temp, recursion>>

\* Then j is free, for an element above the key.
FromLeft ==
  /\ loop.at = "left"
  /\ IF loop.i < loop.j /\ loop.key >= data[loop.i]
     THEN /\ loop' = Loop("left", loop.i + 1, loop.j, 0, loop.key)
          /\ UNCHANGED data
     ELSE /\ data' = [data EXCEPT ![loop.j] = data[loop.i]]
          /\ loop' = Loop(IF loop.i < loop.j THEN "right" ELSE "place",
                          loop.i, loop.j, 0, loop.key)
  /\ UNCHANGED <<given, temp, recursion>>

\* The key is in its place; the parts before and behind it are sorted next.
Place ==
  /\ loop.at = "place"
  /\ data' = [data EXCEPT ![loop.i] = loop.key]
  /\ loop' = Loop("sort", 0, 0, 0, 0)
  /\ recursion' = Front(recursion) \o <<Call(loop.i + 1, Top.right, 0), Call(Top.left, loop.i - 1, 0)>>
  /\ UNCHANGED <<given, temp>>
-----------------------------------------------------------------------------
Next == \/ Insert \/ Shift \/ Put
        \/ Halve \/ Merge \/ TakeLeft \/ TakeRight \/ CopyBack
        \/ Return \/ Partition \/ FromRight \/ FromLeft \/ Place

Spec == Init /\ [][Next]_sortVars /\ WF_sortVars(Next)

Ended == \/ loop.at = "sorted"
         \/ loop.at \in {"merge_sort", "sort"} /\ recursion = <<>>

\* Another order of the same elements.
Reordered(s, t) == \E f \in Bijection(DOMAIN s, DOMAIN t) :
                     \A n \in DOMAIN s : s[n] = t[f[n]]

\* Each sort leaves the elements that it was given, in ascending order.
Sorts == Ended => /\ \A n \in DOMAIN data : \A m \in n..Len(data) : data[n] <= data[m]
                  /\ Reordered(data, given)

Ends == <>Ended
=============================================================================
