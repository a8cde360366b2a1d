-------------------------------- MODULE Uuid --------------------------------
(* The identifiers of src/后台组件/mysql/conf/uuid.lua: bitwise operations   *)
(* by truth tables, hexadecimal digits, and the seed of the generator.       *)
(* Strings are sequences of digits 0..15; 16 is any other character.         *)
EXTENDS Integers, SequencesExt
CONSTANTS Drawn,      \* bound: the arrays of 16 bytes math_random can give
          Addresses,  \* bound: the values of hwaddr, <<>> for none
          Seeds,      \* bound: the times used as seeds
          bitsize     \* the width of a seed, 32 in the code
VARIABLES drawn, hwaddr, uuid

MATRIX_AND == <<<<0, 0>>, <<0, 1>>>>
MATRIX_OR == <<<<0, 1>>, <<1, 1>>>>

Entry(matrix, x, y) == matrix[(x % 2) + 1][(y % 2) + 1]

\* Wrong loop: it ends with the shorter number.
RECURSIVE BITWISEShort(_, _, _)
BITWISEShort(x, y, matrix) ==
  IF x > 0 /\ y > 0
  THEN Entry(matrix, x, y) + 2 * BITWISEShort(x \div 2, y \div 2, matrix)
  ELSE 0

RECURSIVE BITWISE(_, _, _)
BITWISE(x, y, matrix) ==
  IF x > 0 \/ y > 0
  THEN Entry(matrix, x, y) + 2 * BITWISE(x \div 2, y \div 2, matrix)
  ELSE 0

RECURSIVE Digits(_)
Digits(x) == IF x > 0 THEN Append(Digits(x \div 16), x % 16) ELSE <<>>

INT2HEX(x) == [i \in 1..(2 - Len(Digits(x))) |-> 0] \o Digits(x)

\* The last twelve hexadecimal digits of an address.
Cleaned(address) ==
  LET digits == SelectSeq(address, LAMBDA c : c < 16)
  IN  SubSeq(digits, Len(digits) - 11, Len(digits))

\* The variant is made of byte 7, and byte 9 is not used.
new(bytes, address) ==
  LET node == Cleaned(address)
      addressed == [i \in 1..16 |->
        IF i > 10 /\ address # <<>> THEN 16 * node[2 * i - 21] + node[2 * i - 20] ELSE bytes[i]]
      version == BITWISE(BITWISE(bytes[7], 15, MATRIX_AND), 64, MATRIX_OR)
      whole == [addressed EXCEPT ![7] = version, ![9] = BITWISE(version, 128, MATRIX_OR)]
  IN  FoldLeft(LAMBDA text, i : text \o INT2HEX(whole[i]), <<>>, [i \in 1..16 |-> i])

\* The most significant bits of a seed are dropped.
randomseed(seed) ==
  LET positive == IF seed < 0 THEN -seed ELSE seed
  IN  IF positive >= 2^bitsize THEN positive - (positive \div 2^bitsize) * 2^bitsize
      ELSE positive

Init == drawn \in Drawn /\ hwaddr \in Addresses /\ uuid = <<>>

\* An address with fewer than twelve digits fails an assertion.
New == /\ uuid = <<>>
       /\ hwaddr = <<>> \/ Len(SelectSeq(hwaddr, LAMBDA c : c < 16)) >= 12
       /\ uuid' = new(drawn, hwaddr) /\ UNCHANGED <<drawn, hwaddr>>

Spec == Init /\ [][New]_<<drawn, hwaddr, uuid>>
-----------------------------------------------------------------------------
Bit(x, i) == (x \div 2^i) % 2

\* The operations are what their truth tables say bit by bit; an identifier
\* has 32 digits and version 4, all its other bytes but the ninth are those
\* drawn, and the address is its end; a seed fits its width.
Identifies ==
  /\ \A m \in {MATRIX_AND, MATRIX_OR} : \A i \in 0..7 :
       Bit(BITWISE(drawn[7], drawn[9], m), i) = m[Bit(drawn[7], i) + 1][Bit(drawn[9], i) + 1]
  /\ uuid # <<>> =>
       /\ Len(uuid) = 32 /\ ToSet(uuid) \subseteq 0..15
       /\ uuid[13] = 4 /\ uuid[14] = drawn[7] % 16
       /\ \A i \in (1..16) \ {7, 9} :
            hwaddr = <<>> \/ i <= 10 => 16 * uuid[2 * i - 1] + uuid[2 * i] = drawn[i]
       /\ hwaddr # <<>> => SubSeq(uuid, 21, 32) = Cleaned(hwaddr)
  /\ \A seed \in Seeds : randomseed(seed) \in 0..(2^bitsize - 1)
=============================================================================
