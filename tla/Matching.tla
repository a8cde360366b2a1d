------------------------------ MODULE Matching ------------------------------
(* The two Knuth-Morris-Pratt searches of src/算法类/sort: kmp.cpp with the  *)
(* lengths of borders, kmpversio2.cpp with the positions to go on from.      *)
(* Positions in texts and tables count from 0, as in the code.               *)
EXTENDS Integers, SequencesExt
CONSTANTS Letters, MaxText, MaxPattern
VARIABLES text, pattern,        \* the arguments of one call
          answers               \* what the two searches return

At(s, i) == s[i + 1]

Init == /\ text \in BoundedSeq(Letters, MaxText)
        /\ pattern \in BoundedSeq(Letters, MaxPattern) \ {<<>>}
        /\ answers = <<>>

\* The longest border of p[0..k-1] that letter c continues, k itself included.
RECURSIVE Fall(_, _, _, _)
Fall(p, next, k, c) ==
  IF k > 0 /\ At(p, k) # c THEN Fall(p, next, At(next, k - 1), c) ELSE k

Extend(p, next, k, c) ==
  LET f == Fall(p, next, k, c) IN IF At(p, f) = c THEN f + 1 ELSE f

make_next(p) ==
  LET add(next, q) == Append(next, Extend(p, next, Last(next), At(p, q)))
  IN  FoldLeft(add, <<0>>, [q \in 1..Len(p) - 1 |-> q])

\* Without a match i ends at the length of the text, and the result is
\* beyond every position at which the pattern could be.
RECURSIVE kmpFrom(_, _, _, _, _)
kmpFrom(t, p, next, i, q) ==
  LET q1 == Extend(p, next, q, At(t, i))
  IN  IF i >= Len(t) THEN i - q + 1
      ELSE IF q1 = Len(p) THEN i - q1 + 1
      ELSE kmpFrom(t, p, next, i + 1, q1)

kmp(t, p) == kmpFrom(t, p, make_next(p), 0, 0)

\* next holds the entries 0..j; a letter that would fail again is skipped.
RECURSIVE getNextFrom(_, _, _)
getNextFrom(p, next, k) ==
  LET j == Len(next)
      entry == IF At(p, k + 1) # At(p, j) THEN k + 1 ELSE At(next, k + 1)
  IN  IF j >= Len(p) THEN next
      ELSE IF k = -1 \/ At(p, IF k = -1 THEN 0 ELSE k) = At(p, j - 1)
      THEN getNextFrom(p, Append(next, entry), k + 1)
      ELSE getNextFrom(p, next, At(next, k))

getNext(p) == getNextFrom(p, <<-1>>, -1)

RECURSIVE kmpNextFrom(_, _, _, _, _)
kmpNextFrom(t, p, next, i, j) ==
  IF i < Len(t) /\ j < Len(p)
  THEN IF j = -1 \/ At(t, i) = At(p, IF j = -1 THEN 0 ELSE j)
       THEN kmpNextFrom(t, p, next, i + 1, j + 1)
       ELSE kmpNextFrom(t, p, next, i, At(next, j))
  ELSE IF j = Len(p) THEN i - j ELSE -1

kmpNextStrIndex(t, p) == kmpNextFrom(t, p, getNext(p), 0, 0)

Search == /\ answers = <<>>
          /\ answers' = <<kmp(text, pattern), kmpNextStrIndex(text, pattern)>>
          /\ UNCHANGED <<text, pattern>>

Spec == Init /\ [][Search]_<<text, pattern, answers>>
-----------------------------------------------------------------------------
Occurs(i) == SubSeq(text, i + 1, i + Len(pattern)) = pattern

Occurrences == { i \in 0..Len(text) - Len(pattern) : Occurs(i) }

\* Both searches return the first occurrence; without one, kmp returns a
\* position at which no pattern of this length can be and kmpNextStrIndex -1.
\* Entry q of make_next is the length of the longest proper border.
FindsFirst ==
  /\ \A q \in 1..Len(pattern) :
       make_next(pattern)[q] =
         Max({ k \in 0..q - 1 : SubSeq(pattern, 1, k) = SubSeq(pattern, q - k + 1, q) })
  /\ answers # <<>> =>
       IF Occurrences = {}
       THEN answers[1] > Len(text) - Len(pattern) /\ answers[2] = -1
       ELSE answers = <<Min(Occurrences), Min(Occurrences)>>
=============================================================================
