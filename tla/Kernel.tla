------------------------------- MODULE Kernel -------------------------------
(***************************************************************************)
(* The code of one loop of the generated kernel, as a function on values.  *)
(*                                                                         *)
(* transform_data/transform_data.cpp lays out, chunk after chunk, the      *)
(* words a loop will read; pass/state_optimization.cpp fixes from the      *)
(* feature of the first chunk of a group what the loop does with them.     *)
(* The two agree on the layout only by convention, so both are written     *)
(* down here: *Slots is what is laid out for a chunk, *Width what the loop *)
(* consumes per iteration.                                                 *)
(*                                                                         *)
(* A lane holds a bag of terms.  Floating point addition is bag union: the *)
(* order in which terms are added is not part of any property here.        *)
(***************************************************************************)
EXTENDS Features, Bags

(***************************************************************************)
(* Words of the rearranged streams: an index, or four int8 lane numbers.   *)
(***************************************************************************)
IndexSlot(n) == [kind |-> "index", word |-> n]
PermSlot(four) == [kind |-> "perm", word |-> four]

\* What a loop takes a word for that was not laid out as an index, or as part
\* of a permutation; it is no index of any array.
NoIndex == -1000000

Index(slot) == IF slot.kind = "index" THEN slot.word ELSE NoIndex

\* disorder_addr_ and reduction_addr_ as int_data_vec_: four lanes per word.
PermSlots(addr) ==
  [w \in 1 .. Vector \div 4 |-> PermSlot([n \in 0 .. 3 |-> addr[4 * (w - 1) + n]])]

Perm(slots) ==
  [l \in Lane |-> LET slot == slots[1 + l \div 4] IN
                  IF slot.kind = "perm" THEN slot.word[l % 4] ELSE 0]

\* Sequences of words are laid end to end: the words before those of the
\* sequence after the first k.
Before(seqs, k) == Len(FlattenSeq(SubSeq(seqs, 1, k)))

\* A reader that has read so many words and takes width more takes those.
InPlace(stream, read, width, words) ==
  /\ width = Len(words)
  /\ read + width <= Len(stream)
  /\ SubSeq(stream, read + 1, read + width) = words

(***************************************************************************)
(* transform_data: what is laid out                                        *)
(***************************************************************************)
\* rearrange_elem(GatherInfo): the indices, as many as the mask says, then,
\* for more than four lanes and a single block, the permutation.
GatherSlots(info) ==
  LET indices == IF info.order # "DisOrder" THEN 1
                 ELSE IF Vector > 4 THEN info.mask
                 ELSE IF info.mask = 4 THEN 4 ELSE 1
      permuted == info.order = "DisOrder" /\ Vector > 4 /\ info.mask # Vector
  IN [p \in 1 .. indices |-> IndexSlot(info.index[p])]
       \o (IF permuted THEN PermSlots(info.addr) ELSE <<>>)

\* rearrange_elem(ReductionInfo): the permutations of all rounds.
ReductionSlots(info) == FlattenSeq([r \in 1 .. Len(info.rounds) |-> PermSlots(info.rounds[r])])

\* A slip: only the indices are counted.
NeedOfIndices(info) == IF info.order # "DisOrder" THEN 1 ELSE info.mask

\* malloc_new_data: the number of words set aside per chunk.  MASK is an int8
\* and so sizeof(MASK) * Vector / sizeof(int) is Vector / 4.
GatherNeed(info) ==
  IF info.order # "DisOrder" THEN 1
  ELSE info.mask + (IF info.mask # Vector /\ Vector > 4 THEN Vector \div 4 ELSE 0)

ScatterNeed(info) ==
  IF info.order # "DisOrder" THEN 1
  ELSE info.mask + (IF info.mask # Vector THEN Vector \div 4 ELSE 0)

ReductionNeed(info) ==
  IF info.order # "DisOrder" \/ info.mask = Vector THEN 0
  ELSE (Vector * info.mask) \div 4

\* What optimization_state takes over from the feature of a chunk.
ColumnCode(gather) == [order |-> gather.order, mask |-> gather.mask]
RowCode(scatter, reduction) ==
  [order |-> scatter.order, mask |-> scatter.mask, rounds |-> Len(reduction.rounds)]

(***************************************************************************)
(* OptimizationPass::pass_(Gather): what the loop reads, and from where    *)
(***************************************************************************)
\* One load of Vector elements and a permutation, instead of a gather.
LoadsBlock(code) ==
  code.order = "DisOrder" /\ (code.mask = 1 \/ (Vector = 4 /\ code.mask # Vector))

GatherWidth(code) ==
  IF code.order # "DisOrder" THEN 1
  ELSE IF LoadsBlock(code) THEN 1 + (IF Vector = 4 THEN 0 ELSE Vector \div 4)
  ELSE Vector

\* A slip: a lane is filled from the element before its own.
LaneBelow(mask, l) == IF l = 0 THEN 0 ELSE Cardinality({h \in LanesIn(mask) : h < l})

\* shuffle_index_vec: the packed element that lane l takes.
LaneSource(mask, l) == Cardinality({h \in LanesIn(mask) : h <= l}) - 1

\* The array element that ends up in each lane.
GatheredFrom(code, slots) ==
  LET base == Index(slots[1])
      perm == IF Vector = 4 THEN [l \in Lane |-> Nibble(code.mask, l)]
                            ELSE Perm(Tail(slots))
  IN [l \in Lane |->
        CASE code.order = "OrderEquel"  -> base
          [] code.order = "IncContinue" -> base + LaneSource(code.mask, l)
          [] LoadsBlock(code)           -> base + perm[l]
          [] OTHER                      -> Index(slots[l + 1])]

(***************************************************************************)
(* OptimizationPass::pass_(Add) and pass_(Scatter): adding the lanes up    *)
(* and into the output                                                     *)
(***************************************************************************)
Shuffle(lanes, addr) ==
  [l \in Lane |-> IF addr[l] = Vector THEN EmptyBag ELSE lanes[addr[l]]]

AddLanes(a, b) == [l \in Lane |-> a[l] (+) b[l]]

Reduce(lanes) ==
  LET upTo[l \in Lane] == IF l = 0 THEN lanes[0] ELSE upTo[l - 1] (+) lanes[l]
  IN upTo[Vector - 1]

\* OrderType IncContinue: one shuffle and one addition per level of the tree.
TreeSum(mask, lanes) ==
  LET level[d \in 0 .. 4] ==
        IF d = 0 THEN lanes
        ELSE AddLanes(Shuffle(level[d - 1], TreeLevel(mask, d - 1)), level[d - 1])
  IN level[TreeDepth(mask)]

\* OrderType DisOrder: one permutation, read from the stream, per round.
ReductionWidth(code) == IF code.order = "DisOrder" THEN code.rounds * (Vector \div 4) ELSE 0

RoundSum(rounds, slots, lanes) ==
  LET words == Vector \div 4
      sum[r \in 0 .. rounds] ==
        IF r = 0 THEN lanes
        ELSE LET addr == Perm(SubSeq(slots, (r - 1) * words + 1, r * words))
             IN AddLanes(Shuffle(sum[r - 1], addr), sum[r - 1])
  IN sum[rounds]

\* Every lane adds to the value loaded from its own row and all are scattered;
\* of the lanes that write one row the highest is written last.
ScatterAdd(y, rows, lanes) ==
  [r \in DOMAIN y |->
     LET writers == {l \in Lane : rows[l] = r} IN
     IF writers = {} THEN y[r] ELSE y[r] (+) lanes[Max(writers)]]

\* The output after one iteration.  "code" is what the loop knows of the row
\* index (order, mask, rounds); rowSlots and permSlots are the words it reads.
Accumulated(y, code, rowSlots, permSlots, lanes) ==
  LET base == Index(rowSlots[1])
      runs == Cardinality(LanesIn(code.mask))
  IN CASE code.order = "OrderEquel" ->
            [r \in DOMAIN y |-> IF r = base THEN y[r] (+) Reduce(lanes) ELSE y[r]]
       [] code.order = "IncContinue" ->
            LET front == Shuffle(TreeSum(code.mask, lanes), CompressAddr(code.mask)) IN
            [r \in DOMAIN y |->
               IF r \in base .. base + runs - 1 THEN y[r] (+) front[r - base] ELSE y[r]]
       [] code.order = "DisOrder" ->
            ScatterAdd(y, [l \in Lane |-> Index(rowSlots[l + 1])],
                       RoundSum(code.rounds, permSlots, lanes))
=============================================================================
