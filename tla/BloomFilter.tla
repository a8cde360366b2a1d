---------------------------- MODULE BloomFilter -----------------------------
(* The Bloom filter of src/算法类/bloom/bloomfilter.h: a set of bits that    *)
(* answers for a set of items, its lazy reset, and the file it is saved to.  *)
(* Every allocation succeeds.                                                *)
EXTENDS Integers, FiniteSets
CONSTANTS Items,            \* the keys added and looked for
          Params,           \* <<seed, items, bits>> that a program inits with
          Murmur(_, _),     \* MurmurHash2_x64 of an item and a seed
          MaxAdds           \* bound: additions between two resets
VARIABLES filter,           \* the BaseBloomFilter
          file,             \* what SaveBloomFilterToFile has written
          added,            \* items added since the last reset
          saved,            \* the items added when the file was written
          exact             \* the bits are only those of the items

bloomVars == <<filter, file, added, saved, exact>>

BYTE_BITS == 8

\* bits is what the formula with logarithms gives for the wanted precision;
\* it grows to the next multiple of 64, and k to ln(2) * m / n + 1.
CalcParam(n, bits) ==
  LET m == (bits - (bits % 64)) + 64
  IN  [filterBits |-> m, hashFuncs |-> (6931 * m) \div (10000 * n) + 1]

\* The positions of an item by double hashing.
bloom_hash(f, item) ==
  LET hash1 == Murmur(item, f.seed)
      hash2 == Murmur(item, hash1)
  IN  { (hash1 + i * hash2) % f.filterBits : i \in 0..f.hashFuncs - 1 }

NoFile == [kind |-> "none"]

\* memory is NULL, allocated, or freed with the pointers left behind.
Init == /\ filter = [memory |-> "null", initFlag |-> 0, count |-> 0, maxItems |-> 0,
                     seed |-> 0, filterBits |-> 0, hashFuncs |-> 0, bits |-> {}]
        /\ file = NoFile /\ added = {} /\ saved = {} /\ exact = TRUE

Ready == filter.memory = "allocated"

\* A filter whose pointers dangle frees them once more.
InitBloomFilter(p) ==
  LET calc == CalcParam(p[2], p[3])
  IN  /\ filter.memory # "freed"
      /\ filter' = [memory |-> "allocated", initFlag |-> 1, count |-> 0,
                    maxItems |-> p[2], seed |-> p[1], filterBits |-> calc.filterBits,
                    hashFuncs |-> calc.hashFuncs, bits |-> {}]
      /\ added' = {} /\ exact' = TRUE /\ UNCHANGED <<file, saved>>

FreeBloomFilter ==
  /\ filter.memory # "freed"
  /\ filter' = [filter EXCEPT !.memory = "null", !.initFlag = 0, !.count = 0, !.bits = {}]
  /\ added' = {} /\ exact' = TRUE /\ UNCHANGED <<file, saved>>

\* Only the flag and the count: the bits stay until the next addition.
ResetBloomFilter ==
  /\ filter' = [filter EXCEPT !.initFlag = 0, !.count = 0]
  /\ added' = {} /\ exact' = (filter.bits = {})
  /\ UNCHANGED <<file, saved>>

RealResetBloomFilter ==
  /\ Ready
  /\ filter' = [filter EXCEPT !.initFlag = 1, !.count = 0, !.bits = {}]
  /\ added' = {} /\ exact' = TRUE /\ UNCHANGED <<file, saved>>

\* Wrong addition: a filter reset lazily keeps its old bits.
AddUncleared(item) ==
  /\ Ready /\ filter.count < MaxAdds
  /\ filter' = [filter EXCEPT !.bits = @ \union bloom_hash(filter, item),
                              !.initFlag = 1, !.count = @ + 1]
  /\ added' = added \union {item}
  /\ exact' = (exact \/ filter.initFlag # 1)
  /\ UNCHANGED <<file, saved>>

\* The first addition after a lazy reset clears the bits.
Add(item) ==
  LET bits == IF filter.initFlag = 1 THEN filter.bits ELSE {}
  IN  /\ Ready /\ filter.count < MaxAdds
      /\ filter' = [filter EXCEPT !.bits = bits \union bloom_hash(filter, item),
                                  !.initFlag = 1, !.count = @ + 1]
      /\ added' = added \union {item}
      /\ exact' = (exact \/ filter.initFlag # 1)
      /\ UNCHANGED <<file, saved>>

\* 0 when every bit of the item is set; the flag is not looked at.
Check(item) == IF bloom_hash(filter, item) \subseteq filter.bits THEN 0 ELSE 1

\* The file gets a head, which does not say whether the bits are still to be
\* cleared, and the bits; a write that fails leaves it open, and short.
Save ==
  \E kind \in {"empty", "head only", "whole"} :
    /\ Ready
    /\ file' = [kind |-> kind, filter |-> filter, exact |-> exact]
    /\ saved' = added
    /\ UNCHANGED <<filter, added, exact>>

\* A file that cannot be read, or whose head is missing or does not fit,
\* leaves the pointers to the memory freed before.
LoadNothing ==
  /\ filter.memory # "freed"
  /\ filter' = [filter EXCEPT !.memory = IF @ = "null" THEN "null" ELSE "freed"]
  /\ UNCHANGED <<file, added, saved, exact>>

\* The data that is missing leaves new memory as malloc gave it; the head has
\* been taken over and the flag is what it was.
LoadShort(bits) ==
  /\ filter.memory # "freed" /\ file.kind = "head only"
  /\ filter' = [file.filter EXCEPT !.memory = "allocated", !.bits = bits,
                                   !.initFlag = filter.initFlag]
  /\ added' = {} /\ exact' = FALSE
  /\ UNCHANGED <<file, saved>>

HeadFits(f) == f.filterBits = (f.filterBits \div BYTE_BITS) * BYTE_BITS

LoadWhole ==
  /\ filter.memory # "freed" /\ file.kind = "whole" /\ HeadFits(file.filter)
  /\ filter' = [file.filter EXCEPT !.initFlag = 1]
  /\ added' = saved /\ exact' = file.exact
  /\ UNCHANGED <<file, saved>>

Unreadable == file.kind \in {"head only", "whole"} => ~HeadFits(file.filter)

Load ==
  \/ Unreadable /\ LoadNothing
  \/ \E bits \in {{}, 0..255} : LoadShort(bits)
  \/ LoadWhole

Next ==
  \/ \E p \in Params : InitBloomFilter(p)
  \/ \E item \in Items : Add(item)
  \/ FreeBloomFilter \/ ResetBloomFilter \/ RealResetBloomFilter
  \/ Save \/ Load

Spec == Init /\ [][Next]_bloomVars
-----------------------------------------------------------------------------
\* What was added since the last reset is found, also after it was saved and
\* loaded. While exact holds, the bits are only those of the items: it is
\* lost by a lazy reset until the next addition, by a file saved in between,
\* and by a file without its data.
Remembers ==
  Ready => /\ \A item \in added : Check(item) = 0
           /\ exact => filter.bits = UNION { bloom_hash(filter, item) : item \in added }

=============================================================================
