----------------------------- MODULE FeatureHash -----------------------------
(***************************************************************************)
(* The 64-bit feature hash (hash/hash_feature_table.hpp, get_feature_hash  *)
(* in tools_set/tools_set.cpp).  DynVec has no other notion of "the same   *)
(* feature": chunks with one hash share one loop of the kernel, and the    *)
(* code of the loop is generated from the feature of the first of them.    *)
(* A size_t is four limbs of 16 bits, the lowest first.                    *)
(***************************************************************************)
EXTENDS Integers, Sequences
LOCAL INSTANCE SequencesExt
LOCAL INSTANCE Bitwise

Limb == 0 .. 2 ^ 16 - 1

Zero == <<0, 0, 0, 0>>

\* std::hash<int>, for the values that occur (none is negative).
OfInt(n) == <<n % 2 ^ 16, n \div 2 ^ 16, 0, 0>>

\* Addition modulo 2^64, with the carry from limb to limb.
Plus(a, b) ==
  LET s1 == a[1] + b[1]
      s2 == a[2] + b[2] + (s1 \div 2 ^ 16)
      s3 == a[3] + b[3] + (s2 \div 2 ^ 16)
      s4 == a[4] + b[4] + (s3 \div 2 ^ 16)
  IN <<s1 % 2 ^ 16, s2 % 2 ^ 16, s3 % 2 ^ 16, s4 % 2 ^ 16>>

\* key << 6 and key >> 2: what leaves one limb enters the next.
ShiftLeft6(a) ==
  LET Up(n, below) == ((a[n] * 2 ^ 6) % 2 ^ 16) + (below \div 2 ^ 10)
  IN <<Up(1, 0), Up(2, a[1]), Up(3, a[2]), Up(4, a[3])>>

ShiftRight2(a) ==
  LET Down(n, above) == (a[n] \div 4) + (above % 4) * 2 ^ 14
  IN <<Down(1, a[2]), Down(2, a[3]), Down(3, a[4]), Down(4, 0)>>

XorLimbs(a, b) == <<a[1] ^^ b[1], a[2] ^^ b[2], a[3] ^^ b[3], a[4] ^^ b[4]>>

Golden == <<31161, 40503, 0, 0>>  \* 0x9e3779b9

\* A slip: the running key is not mixed in.
CombineUnmixed(key, value) == XorLimbs(key, Plus(OfInt(value), Golden))

HashCombine(key, value) ==
  XorLimbs(key, Plus(Plus(OfInt(value), Golden), Plus(ShiftLeft6(key), ShiftRight2(key))))

\* get_feature_hash, for one chunk: its words in the order of gather_map,
\* scatter_map and reduction_map.
get_feature_hash(words) == FoldLeft(HashCombine, Zero, words)
=============================================================================
