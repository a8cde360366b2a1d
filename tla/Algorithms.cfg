SPECIFICATION Spec
\* A search ends, and a B-tree that has used a freed node stops.
CHECK_DEADLOCK FALSE
CONSTANTS
  RBKeys = {1, 2, 3, 4, 5, 6, 7}
  BTKeys = {1, 2, 3, 4, 5, 6, 7, 8, 9, 10}
  LowKeys = {1, 2, 3, 4, 5, 6, 7}
  Tall = 7
  BSTKeys = {1, 2, 3, 4}
  Nil = Nil
  T = 2
  MaxInserts = 6
  Letters = {1, 2}
  MaxText = 6
  MaxPattern = 4
  Addresses <- MCAddresses
  Seeds <- MCSeeds
  bitsize = 4
INVARIANTS
  Balanced
  Ordered
  RoundTrip
  AnswersAgree
PROPERTIES
  KeysKept
