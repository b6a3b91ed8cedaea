------------------------------ MODULE Features ------------------------------
(***************************************************************************)
(* What DynVec remembers about a chunk, that is about Vector consecutive   *)
(* entries of an index array (tools_set/tools_set.cpp, bit2addr.cpp):      *)
(* its order type, its mask, the indices and permutations the kernel will  *)
(* need, and for an output index the plan for adding up the lanes that     *)
(* write one element.  An index chunk is a function from lanes to indices. *)
(***************************************************************************)
EXTENDS Integers, Sequences, FiniteSets, FiniteSetsExt, SequencesExt

CONSTANT Vector  \* lanes of a vector register: vector_bits / max_bits

ASSUME VectorAssumption == Vector \in {4, 8, 16}

Lane == 0 .. Vector - 1

(***************************************************************************)
(* Masks.  The low 16 bits of mask_ hold a set of lanes, a count, or four  *)
(* packed lane numbers; the high bits hold the order type.                 *)
(***************************************************************************)
Bits(lanes) == MapThenSumSet(LAMBDA l : 2 ^ l, lanes)

LanesIn(mask) == {l \in Lane : (mask \div 2 ^ l) % 2 = 1}

Packed(addr) == MapThenSumSet(LAMBDA l : addr[l] * 16 ^ l, 0 .. 3)

Nibble(mask, l) == (mask \div 16 ^ l) % 16

OrderNumber(order) ==
  CASE order = "DisOrder" -> 0 [] order = "IncContinue" -> 3
    [] order = "OrderEquel" -> 5

\* Info::get_mask(), the number that enters the feature hash.
FeatureWord(info) == info.mask + OrderNumber(info.order) * 2 ^ 16

(***************************************************************************)
(* get_order_type and get_mask                                             *)
(***************************************************************************)
AllEqual(ix) == \A l \in 1 .. Vector - 1 : ix[l] = ix[l - 1]

StepsByOne(ix) == \A l \in 1 .. Vector - 1 : ix[l] - ix[l - 1] \in {0, 1}

OrderOf(ix) ==
  IF AllEqual(ix) THEN "OrderEquel"
  ELSE IF Vector <= 8 /\ StepsByOne(ix) THEN "IncContinue"
  ELSE "DisOrder"

\* Lane 0 and every lane whose index differs from the one before it.
Heads(ix) == {0} \cup {l \in 1 .. Vector - 1 : ix[l] # ix[l - 1]}

(***************************************************************************)
(* generate_scatter_info_elem and generate_gather_info_elem.  "index" is   *)
(* data_index_ (entry 0 at position 1), "addr" is disorder_addr_.          *)
(***************************************************************************)
AllIndices(ix) == [p \in 1 .. Vector |-> ix[p - 1]]

Lowest(ix) == Min({ix[l] : l \in Lane})

NoAddr == [l \in Lane |-> 0]

OrderedInfo(ix) ==
  [order |-> OrderOf(ix), mask |-> Bits(Heads(ix)), index |-> <<ix[0]>>,
   addr |-> NoAddr]

ScatterInfo(ix) ==
  IF OrderOf(ix) # "DisOrder" THEN OrderedInfo(ix)
  ELSE [order |-> "DisOrder", mask |-> Vector, index |-> AllIndices(ix),
        addr |-> NoAddr]

\* All lanes lie in the block of Vector elements that starts at the lowest.
InOneBlock(ix) == \A l \in Lane : ix[l] < Lowest(ix) + Vector

\* With four lanes the permutation itself is the mask, so that it becomes a
\* constant of the generated code; otherwise the mask is the number of loads.
GatherInfo(ix) ==
  IF OrderOf(ix) # "DisOrder" THEN OrderedInfo(ix)
  ELSE IF InOneBlock(ix)
    THEN LET addr == [l \in Lane |-> ix[l] - Lowest(ix)] IN
         [order |-> "DisOrder", mask |-> IF Vector > 4 THEN 1 ELSE Packed(addr),
          index |-> <<Lowest(ix)>>, addr |-> addr]
    ELSE [order |-> "DisOrder", mask |-> Vector, index |-> AllIndices(ix),
          addr |-> NoAddr]

(***************************************************************************)
(* generate_reduction_info_elem.  An unordered output chunk is summed in   *)
(* rounds; in each round a lane takes in the next lower lane with the same *)
(* index that no lane has taken in yet.                                    *)
(***************************************************************************)
LongestRepeat(ix) ==
  Max({Cardinality({m \in Lane : ix[m] = ix[l]}) : l \in Lane})

\* A slip: a count that is a power of two gets one round too few.
ShortTable == <<0, 1, 1, 2, 2, 3, 3, 3, 3, 4, 4, 4, 4, 4, 4, 4>>

reduce_num == <<0, 1, 2, 2, 3, 3, 3, 3, 4, 4, 4, 4, 4, 4, 4, 4>>

\* The lane that lane l takes in, Vector for none.  Of the lanes with one index
\* that are left, looked at from the highest down, every second one is taken in
\* by the lane before it.
Partner(ix, l, reduced) ==
  LET left == {m \in Lane \ reduced : ix[m] = ix[l]}
      below == {m \in left : m < l}
  IN IF l \in left /\ below # {} /\ Cardinality({m \in left : m > l}) % 2 = 0
       THEN Max(below) ELSE Vector

\* One round: the partner of every lane, and the lanes taken in so far
\* (has_reduce).
Pair(ix, reduced) ==
  LET addr == [l \in Lane |-> Partner(ix, l, reduced)]
  IN [addr |-> addr, reduced |-> reduced \cup ({addr[l] : l \in Lane} \ {Vector})]

Rounds(ix) ==
  LET round[r \in 0 .. 4] ==
        IF r = 0 THEN [addr |-> NoAddr, reduced |-> {}]
                 ELSE Pair(ix, round[r - 1].reduced)
  IN [r \in 1 .. reduce_num[LongestRepeat(ix)] |-> round[r].addr]

\* What the rounds come to, seen from the highest lane of an index down: the
\* lanes of the index above l, their number, the rank of l, and the lanes taken
\* in when every w-th lane is left.
Above(ix, l) == {m \in Lane : ix[m] = ix[l] /\ m > l}
RankOf(ix) == [l \in Lane |-> Cardinality(Above(ix, l))]
Taken(ix, w) == {l \in Lane : RankOf(ix)[l] % w # 0}

\* The unordered plan exists for more than four lanes; with four, DynVec
\* gives up (LOG(FATAL), "Unsupported").
ReductionUnsupported(ix) == OrderOf(ix) = "DisOrder" /\ Vector = 4

ReductionInfo(ix) ==
  IF OrderOf(ix) # "DisOrder"
    THEN [order |-> OrderOf(ix), mask |-> ScatterInfo(ix).mask, rounds |-> <<>>]
    ELSE [order |-> "DisOrder", mask |-> Len(Rounds(ix)), rounds |-> Rounds(ix)]

(***************************************************************************)
(* Bit2Addr: the plan for an output chunk of type IncContinue is derived   *)
(* from the mask alone.  Every run of equal indices is summed into its     *)
(* first lane by a binary tree, then the first lanes move to the front.    *)
(***************************************************************************)
HeadOf(mask, l) == Max({h \in LanesIn(mask) : h <= l})

\* Lanes of the run that starts at h, not counting h (each_num).
Followers(mask, h) == {l \in Lane : l > h /\ HeadOf(mask, l) = h}

\* Bit2Addr::get_max_len: the number of tree levels for the longest run.
TreeDepth(mask) ==
  LET longest == Max({Cardinality(Followers(mask, h)) : h \in LanesIn(mask)})
  IN Min({d \in 0 .. 4 : longest < 2 ^ d})

\* A slip: the last lane of a run of 2^n + 1 lanes is never reached.
TreeLevelShort(mask, d) ==
  [l \in Lane |->
     LET h == HeadOf(mask, l)
         extra == Cardinality(Followers(mask, h))
     IN IF (l - h) % 2 ^ (d + 1) = 0 /\ (l - h) + 2 ^ d < extra
          THEN l + 2 ^ d ELSE Vector]

\* Level d (from 0): the lane added to lane l, Vector for none.
TreeLevel(mask, d) ==
  [l \in Lane |->
     LET h == HeadOf(mask, l)
         extra == Cardinality(Followers(mask, h))
     IN IF (l - h) % 2 ^ (d + 1) = 0 /\ (l - h) + 2 ^ d <= extra
          THEN l + 2 ^ d ELSE Vector]

\* Bit2Addr::generate_compress: the first lanes of the runs, in front.
CompressAddr(mask) ==
  [l \in Lane |->
     IF l < Cardinality(LanesIn(mask))
       THEN CHOOSE h \in LanesIn(mask) :
              Cardinality({g \in LanesIn(mask) : g < h}) = l
       ELSE Vector]
=============================================================================
