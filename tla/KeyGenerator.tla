--------------------------- MODULE KeyGenerator ---------------------------
(***************************************************************************)
(* The keys a worker draws (lambda/load-generator/key_generator.py).  A    *)
(* key is its number and the prefix that the generator gives it.           *)
(*                                                                         *)
(* random.random() and the weights of the Zipfian distribution are in      *)
(* parts of 1/Precision, and every sum is rounded down, as floating point  *)
(* may do: the cumulative distribution can end below 1.                    *)
(***************************************************************************)
EXTENDS Integers, FiniteSetsExt

CONSTANTS
  KeySpaceSize, \* key_space_size
  Precision     \* bound: the precision of numbers between 0 and 1

ASSUME KeyAssumption == KeySpaceSize \in Nat \ {0} /\ Precision \in Nat \ {0}

Key(i) == <<"k", i>>
Indices == 0..(KeySpaceSize - 1)
Randoms == 0..(Precision - 1)

(* random.randint(0, key_space_size - 1).                                  *)
UniformIndices == Indices

Weight(i) == Precision \div (i + 1)
TotalWeight == MapThenSumSet(Weight, Indices)
Cumulative(i) == MapThenSumSet(LAMBDA j : (Weight(j) * Precision) \div TotalWeight, 0..i)

(* Mutant: the search may stop one key too early.                          *)
HalfBelow(lo, mid) == <<lo, IF mid > lo THEN mid - 1 ELSE lo>>

(* Where the search goes on when the key in the middle may be the one.     *)
LowerHalf(lo, mid) == <<lo, mid>>

(* The binary search of ZipfianKeyGenerator.next_key.                      *)
ZipfIndex(r) ==
  LET search[range \in Indices \X Indices] ==
        LET lo  == range[1]
            hi  == range[2]
            mid == (lo + hi) \div 2
        IN  IF lo >= hi THEN lo
            ELSE IF Cumulative(mid) < r THEN search[<<mid + 1, hi>>]
            ELSE search[LowerHalf(lo, mid)]
  IN  search[<<0, KeySpaceSize - 1>>]

(* The keys that a distribution can yield; create_key_generator takes      *)
(* every name it does not know for "uniform", "zipfian" among them.        *)
Drawn(distribution) ==
  IF distribution = "zipf" THEN {Key(ZipfIndex(r)) : r \in Randoms}
  ELSE IF distribution = "sequential" THEN {<<"seq", n>> : n \in Nat \ {0}}
  ELSE {Key(i) : i \in UniformIndices}
=============================================================================
