----------------------------- MODULE ScanProofs -----------------------------
(***************************************************************************)
(* The loops over a chunk compute what module Features defines, and what   *)
(* is laid out for it serves to gather it and to add it up, for every      *)
(* chunk and every number of lanes.                                        *)
(*                                                                         *)
(* ScanInv is inductive: one lemma per action shows that the action        *)
(* preserves it.  Two of them need more than the loop itself.  The lanes   *)
(* that a round takes in one after the other, from the highest down, are   *)
(* those that Partner names at once (OneByOne); and the block that starts  *)
(* at the lowest lane left is, the first time, that of the lowest index.   *)
(***************************************************************************)
EXTENDS FeatureScan, LaneProofs

\* The lowest of some indices is one of them.
LEMMA LeastOf ==
  ASSUME NEW ix \in [Lane -> Nat], NEW S \in SUBSET Lane, S # {}
  PROVE  /\ Min({ix[l] : l \in S}) \in Nat
         /\ \E l \in S : ix[l] = Min({ix[k] : k \in S})
         /\ \A l \in S : Min({ix[k] : k \in S}) <= ix[l]
  <1> DEFINE D == {ix[l] : l \in S}
  <1>1. D \in SUBSET Nat /\ D # {}
    OBVIOUS
  <1>2. \E d \in D : \A e \in D : d <= e
    <2> HIDE DEF D
    <2> QED
      BY <1>1, LeastElement
  <1>3. Min(D) \in D /\ \A e \in D : Min(D) <= e
    BY <1>2 DEF Min
  <1> QED
    BY <1>1, <1>3

\* The mask of lane 0 alone.
LEMMA FirstBit == Bits({0}) = 1
  <1> DEFINE S == {0}
  <1>1. S \in SUBSET Lane
    BY VectorAssumption DEF Lane
  <1>2. PICK f \in [S -> Nat] :
          \E g : (\A l \in S : f[l] = Pow(l)) /\ AnyOrder(g, f, S) /\ Bits(S) = g[S]
    <2> HIDE DEF S
    <2> QED
      BY <1>1, BitsSum
  <1>3. PICK g : (\A l \in S : f[l] = Pow(l)) /\ AnyOrder(g, f, S) /\ Bits(S) = g[S]
    BY <1>2
  <1>4. 0 \in S /\ S \ {0} = {} /\ S \in SUBSET S
    OBVIOUS
  <1>5. f[0] = Pow(0) /\ g[{}] = 0 /\ g[S] = f[0] + g[S \ {0}]
    <2> HIDE DEF S
    <2> QED
      BY <1>3, <1>4 DEF AnyOrder
  <1>6. Pow(0) = 1
    BY LevelWidth
  <1> QED
    BY <1>3, <1>5, <1>6

\* A mask is stored in 16 bits.
LEMMA MaskWidth == Pow(16) = 65536 /\ 2 ^ 16 - 1 = 65535
  BY DEF Pow

\* Two multiples of the width of the next level are that width apart.
LEMMA MultiplesApart ==
  ASSUME NEW w \in {1, 2, 4, 8}, NEW p \in 0 .. 15, NEW q \in 0 .. 15,
         p % (2 * w) = 0, q % (2 * w) = 0, p < q
  PROVE  ~(q <= p + w)
  <1>1. CASE w = 1
    BY <1>1
  <1>2. CASE w = 2
    BY <1>2
  <1>3. CASE w = 4
    BY <1>3
  <1>4. CASE w = 8
    BY <1>4
  <1> QED
    BY <1>1, <1>2, <1>3, <1>4

\* The lanes taken in when the lanes above k have sought their partners, and
\* those among which k seeks its own.
TakenAbove(ix, w, k) ==
  Taken(ix, w) \cup ({Partner(ix, l, Taken(ix, w)) : l \in k + 1 .. Vector - 1} \ {Vector})
Free(ix, k, H) == {m \in 0 .. k - 1 : ix[m] = ix[k] /\ m \notin H}

\* Looked at from the highest lane down, a lane takes in the next lower lane
\* with its index that is left, if it is left itself: that lane is the one that
\* Partner names, whatever the lanes above have taken in this round.
LEMMA OneByOne ==
  ASSUME NEW ix, NEW w \in {1, 2, 4, 8}, NEW k \in Lane, NEW H, H = TakenAbove(ix, w, k)
  PROVE  IF k \notin H /\ Free(ix, k, H) # {}
           THEN Partner(ix, k, Taken(ix, w)) = Max(Free(ix, k, H)) /\ Max(Free(ix, k, H)) \in Lane
           ELSE Partner(ix, k, Taken(ix, w)) = Vector
  <1>0. H = Taken(ix, w) \cup ({Partner(ix, l, Taken(ix, w)) : l \in k + 1 .. Vector - 1}
                                 \ {Vector})
    BY DEF TakenAbove
  <1> DEFINE free == {m \in 0 .. k - 1 : ix[m] = ix[k] /\ m \notin H}
             rank == RankOf(ix)
             p(l) == Partner(ix, l, Taken(ix, w))
             left == {m \in Lane \ Taken(ix, w) : ix[m] = ix[k]}
             below == {m \in left : m < k}
  <1>1. /\ \A m \in Lane : rank[m] \in 0 .. 15
        /\ \A l, m \in Lane : ix[l] = ix[m] /\ rank[l] = rank[m] => l = m
    <2> HIDE DEF rank
    <2>1. Ranked(ix, rank)
      BY RowsRanked DEF rank
    <2> QED
      BY <2>1 DEF Ranked
  <1>2. \A l \in Lane : l \in Taken(ix, w) <=> rank[l] % w # 0
    BY DEF Taken
  <1>3. ASSUME NEW l \in Lane
        PROVE  IF rank[l] % (2 * w) = 0
                 THEN \/ p(l) \in Lane /\ ix[p(l)] = ix[l] /\ rank[p(l)] = rank[l] + w
                      \/ p(l) = Vector
                 ELSE p(l) = Vector
    BY PartnerFacts
  <1>4. ASSUME NEW l \in Lane, NEW m \in Lane, ix[l] = ix[m]
        PROVE  (m > l <=> rank[m] < rank[l]) /\ (m < l <=> rank[m] > rank[l])
    BY <1>4, RankTells
  <1>5. Vector \notin Lane /\ k + 1 .. Vector - 1 \subseteq Lane /\ 0 .. k - 1 \subseteq Lane
    BY VectorAssumption DEF Lane
  <1>6. p(k) = IF k \in left /\ below # {} /\ Cardinality({m \in left : m > k}) % 2 = 0
                 THEN Max(below) ELSE Vector
    BY DEF Partner
  <1>7. CASE rank[k] % (2 * w) = 0
    <2>1. k \notin Taken(ix, w)
      <3>1. rank[k] % w = 0
        BY <1>1, <1>7, OddMultiples, Zenon
      <3> QED
        BY <1>2, <3>1
    <2>2. ASSUME NEW m \in Lane, m <= k, ix[m] = ix[k], NEW l \in k + 1 .. Vector - 1, p(l) = m
          PROVE  FALSE
      <3>1. l \in Lane /\ m # Vector /\ l > k /\ m < l
        BY <1>5, <2>2 DEF Lane
      <3>2. rank[l] % (2 * w) = 0 /\ ix[l] = ix[m] /\ rank[m] = rank[l] + w
        <4> HIDE DEF p, rank
        <4> QED
          BY <1>3, <2>2, <3>1
      <3>3. rank[l] < rank[k]
        <4> HIDE DEF rank
        <4> QED
          BY <1>4, <2>2, <3>1, <3>2
      <3>4. rank[m] >= rank[k]
        <4> HIDE DEF rank
        <4>1. m = k \/ m < k
          BY <2>2, <3>1 DEF Lane
        <4>2. m = k \/ rank[m] > rank[k]
          BY <1>4, <2>2, <4>1
        <4> QED
          BY <1>1, <4>2
      <3>5. rank[l] \in 0 .. 15 /\ rank[k] \in 0 .. 15
        BY <1>1, <3>1
      <3> HIDE DEF rank, p
      <3>6. rank[k] <= rank[l] + w
        BY <3>2, <3>4
      <3> QED
        BY <1>7, <3>2, <3>3, <3>5, <3>6, MultiplesApart
    <2>3. k \notin H
      <3>1. k <= k
        BY DEF Lane
      <3>2. \A l \in k + 1 .. Vector - 1 : p(l) # k
        <4> HIDE DEF p
        <4> QED
          BY <2>2, <3>1
      <3>3. H = Taken(ix, w) \cup ({p(l) : l \in k + 1 .. Vector - 1} \ {Vector})
        BY <1>0
      <3> HIDE DEF p
      <3> QED
        BY <2>1, <3>2, <3>3
    <2>4. free = below
      <3>1. ASSUME NEW m \in free PROVE m \in below
        <4>1. m \in 0 .. k - 1 /\ ix[m] = ix[k] /\ m \notin Taken(ix, w)
          BY <1>0, <3>1
        <4>2. m \in Lane /\ m < k
          BY <4>1, VectorAssumption DEF Lane
        <4> QED
          BY <4>1, <4>2
      <3>2. ASSUME NEW m \in below PROVE m \in free
        <4>1. m \in Lane /\ m \notin Taken(ix, w) /\ ix[m] = ix[k] /\ m < k
          BY <3>2
        <4>2. m \in 0 .. k - 1 /\ m <= k
          BY <4>1 DEF Lane
        <4>3. m \notin H
          <5>1. \A l \in k + 1 .. Vector - 1 : p(l) # m
            <6> HIDE DEF p
            <6> QED
              BY <2>2, <4>1, <4>2
          <5>2. H = Taken(ix, w) \cup ({p(l) : l \in k + 1 .. Vector - 1} \ {Vector})
            BY <1>0
          <5> HIDE DEF p
          <5> QED
            BY <4>1, <5>1, <5>2
        <4> QED
          BY <4>1, <4>2, <4>3
      <3> HIDE DEF free, below
      <3> QED
        BY <3>1, <3>2
    <2>5. k \in left /\ Cardinality({m \in left : m > k}) % 2 = 0
      <3>1. k \in left
        BY <2>1
      <3>2. LeftAbove(ix, w, k) = {m \in left : m > k}
        BY DEF LeftAbove, Left
      <3>3. rank[k] % w = 0
        BY <1>2, <2>1
      <3>4. Cardinality(LeftAbove(ix, w, k)) % 2 = 0
        BY <1>7, <3>3, EvenAbove
      <3> QED
        BY <3>1, <3>2, <3>4
    <2>6. ASSUME free # {}
          PROVE  Max(free) \in Lane
      <3>1. free \in SUBSET Nat /\ \A x \in free : x <= k
        BY DEF Lane
      <3>2. k \in Nat /\ free \subseteq Lane
        BY <1>5 DEF Lane
      <3> HIDE DEF free
      <3>3. Max(free) \in free
        BY <2>6, <3>1, <3>2, GreatestElement
      <3> QED
        BY <3>2, <3>3
    <2>7. p(k) = IF free # {} THEN Max(free) ELSE Vector
      <3> HIDE DEF p, left, below, free
      <3> QED
        BY <1>6, <2>4, <2>5
    <2> HIDE DEF p, free
    <2>8. IF k \notin H /\ free # {} THEN p(k) = Max(free) /\ Max(free) \in Lane
                                     ELSE p(k) = Vector
      BY <2>3, <2>6, <2>7
    <2> QED
      BY <2>8 DEF p, free, Free
  <1>8. CASE rank[k] % (2 * w) # 0
    <2>1. p(k) = Vector
      <3> HIDE DEF p, rank
      <3> QED
        BY <1>3, <1>8
    <2>2. k \in H
      <3>1. CASE k \in Taken(ix, w)
        BY <1>0, <3>1
      <3>2. CASE k \notin Taken(ix, w)
        <4>1. k \in Taken(ix, 2 * w)
          BY <1>8 DEF Taken
        <4>2. Pair(ix, Taken(ix, w)).reduced = Taken(ix, 2 * w)
          BY RoundPairs
        <4>3. Pair(ix, Taken(ix, w)).reduced
                = Taken(ix, w) \cup ({p(l) : l \in Lane} \ {Vector})
          BY DEF Pair
        <4>4. PICK l \in Lane : p(l) = k
          <5> HIDE DEF p
          <5> QED
            BY <3>2, <4>1, <4>2, <4>3
        <4>5. ix[l] = ix[k] /\ rank[k] = rank[l] + w
          <5> HIDE DEF p, rank
          <5> QED
            BY <1>3, <1>5, <4>4
        <4>6. rank[l] < rank[k]
          <5>1. rank[l] \in 0 .. 15
            BY <1>1
          <5> HIDE DEF rank
          <5> QED
            BY <4>5, <5>1
        <4>7. l > k
          <5> HIDE DEF rank
          <5> QED
            BY <1>4, <4>5, <4>6
        <4>8. l \in k + 1 .. Vector - 1
          BY <4>7 DEF Lane
        <4> QED
          BY <1>0, <1>5, <4>4, <4>8
      <3> QED
        BY <3>1, <3>2
    <2> QED
      BY <2>1, <2>2 DEF p
  <1> QED
    BY <1>7, <1>8

-----------------------------------------------------------------------------
(***************************************************************************)
(* The initial states and the actions                                      *)
(***************************************************************************)
\* What the proofs of the actions use of the numbers of lanes.
LEMMA LaneNumbers ==
  /\ Vector \in {4, 8, 16} /\ Vector \in Nat
  /\ 0 \in Lane /\ Lane = 0 .. Vector - 1 /\ Vector \notin Lane /\ Lane # {}
  BY VectorAssumption DEF Lane

\* Before the first lane is looked at.
LEMMA InitScan == Init => ScanInv
  <1> SUFFICES ASSUME Init PROVE ScanInv
    OBVIOUS
  <1> USE DEF Init
  <1>1. TypeOK
    <2>1. index_ptr \in [Lane -> Nat]
      BY ChunksAssumption
    <2>2. NoAddr \in [Lane -> 0 .. Vector - 1] /\ NoAddr \in [Lane -> 0 .. Vector]
      BY LaneNumbers DEF NoAddr
    <2>3. 1 \in 1 .. 2 ^ 16 - 1 /\ 1 \in -1 .. Vector
      BY MaskWidth, LaneNumbers
    <2>4. <<>> \in Seq(Nat) /\ <<>> \in Seq([Lane -> 0 .. Vector])
      OBVIOUS
    <2>5. 0 + 0 <= Vector - 1
      BY LaneNumbers
    <2>6. \A l \in Lane \ column_block : FALSE
      OBVIOUS
    <2> QED
      BY <2>1, <2>2, <2>3, <2>4, <2>5, <2>6 DEF TypeOK
  <1>2. Counting
    BY LaneNumbers DEF Counting
  <1>3. Decided /\ Masking
    BY DEF Decided, Masking
  <1>4. Blocks
    BY DEF Blocks
  <1>5. Pairing
    BY DEF Pairing
  <1> QED
    BY <1>1, <1>2, <1>3, <1>4, <1>5 DEF ScanInv

\* A step that changes nothing.
LEMMA IdleScan == ScanInv /\ UNCHANGED vars => ScanInv'
  BY DEF ScanInv, vars, order, blocks, rounds, TypeOK, Counting, Decided, Masking, Blocks, Pairing,
         PartnerIn, info

\* A lane that is equal to the one before adds to equal_num, one that is one
\* above to inc_continue_num, and none adds to both.
LEMMA CompareLanesScan ==
  ASSUME ScanInv, CompareLanes
  PROVE  ScanInv'
  <1> USE DEF CompareLanes, order, blocks, rounds
  <1>1. TypeOK /\ Counting /\ Decided /\ Masking /\ Blocks /\ Pairing
    BY DEF ScanInv
  <1>2. i \in 1 .. Vector - 1 /\ Vector \in Nat
    BY <1>1, LaneNumbers DEF Counting
  <1>3. i \in Lane /\ i - 1 \in Lane
    BY <1>2, LaneNumbers
  <1>4. index_ptr[i] \in Nat /\ index_ptr[i - 1] \in Nat
    BY <1>1, <1>3 DEF TypeOK
  <1>5. equal_num \in Nat /\ inc_continue_num \in Nat /\ equal_num + inc_continue_num <= i - 1
    BY <1>1 DEF TypeOK, Counting
  <1> DEFINE same == index_ptr[i - 1] = index_ptr[i]
             next == index_ptr[i - 1] + 1 = index_ptr[i]
  <1>6. ~(same /\ next)
    BY <1>4
  <1>7. /\ equal_num' = equal_num + (IF same THEN 1 ELSE 0)
        /\ inc_continue_num' = inc_continue_num + (IF next THEN 1 ELSE 0)
        /\ i' = i + 1
    OBVIOUS
  <1>8. /\ same <=> index_ptr[i] = index_ptr[i - 1]
        /\ same \/ next <=> index_ptr[i] - index_ptr[i - 1] \in {0, 1}
    BY <1>4
  <1> HIDE DEF same, next
  <1>9. /\ equal_num' \in Nat /\ inc_continue_num' \in Nat
        /\ equal_num' + inc_continue_num' <= i
        /\ equal_num' = i <=> equal_num = i - 1 /\ same
        /\ equal_num' + inc_continue_num' = i
             <=> equal_num + inc_continue_num = i - 1 /\ (same \/ next)
    <2>1. CASE same /\ ~next
      BY <1>2, <1>5, <1>7, <2>1
    <2>2. CASE next /\ ~same
      BY <1>2, <1>5, <1>7, <2>2
    <2>3. CASE ~same /\ ~next
      BY <1>2, <1>5, <1>7, <2>3
    <2> QED
      BY <1>6, <2>1, <2>2, <2>3
  <1>10. TypeOK'
    <2>1. i' \in -1 .. Vector /\ equal_num' + inc_continue_num' <= Vector - 1
      BY <1>2, <1>7, <1>9
    <2> QED
      BY <1>1, <1>9, <2>1 DEF TypeOK
  <1>11. Counting'
    <2>1. i' \in 1 .. Vector /\ i' - 1 = i
      BY <1>2, <1>7
    <2>2. 1 .. i = 1 .. i - 1 \cup {i}
      BY <1>2
    <2>3. /\ equal_num = i - 1 <=> \A l \in 1 .. i - 1 : index_ptr[l] = index_ptr[l - 1]
          /\ equal_num + inc_continue_num = i - 1
               <=> \A l \in 1 .. i - 1 : index_ptr[l] - index_ptr[l - 1] \in {0, 1}
      BY <1>1 DEF Counting
    <2>4. equal_num' = i <=> \A l \in 1 .. i : index_ptr[l] = index_ptr[l - 1]
      BY <1>8, <1>9, <2>2, <2>3
    <2>5. equal_num' + inc_continue_num' = i
            <=> \A l \in 1 .. i : index_ptr[l] - index_ptr[l - 1] \in {0, 1}
      BY <1>8, <1>9, <2>2, <2>3
    <2>6. index_ptr' = index_ptr
      OBVIOUS
    <2> QED
      BY <1>9, <2>1, <2>4, <2>5, <2>6 DEF Counting
  <1>12. Decided' /\ Masking' /\ Blocks' /\ Pairing'
    <2>1. pc = "order" /\ pc' = "order" /\ UNCHANGED <<index_ptr, mask, order_type>>
      OBVIOUS
    <2>2. UNCHANGED <<column_block, column_begin_vec, disorder_addr, has_reduce, reduction_addr>>
      OBVIOUS
    <2>3. Decided' /\ Masking'
      BY <1>1, <2>1 DEF Decided, Masking
    <2>4. Blocks'
      BY <1>1, <2>1, <2>2 DEF Blocks
    <2>5. Pairing'
      BY <1>1, <2>1, <2>2 DEF Pairing
    <2> QED
      BY <2>3, <2>4, <2>5
  <1> QED
    BY <1>10, <1>11, <1>12 DEF ScanInv

\* The counters tell the order type.
LEMMA DecideOrderScan ==
  ASSUME ScanInv, DecideOrder
  PROVE  ScanInv'
  <1> USE DEF DecideOrder, order, blocks, rounds
  <1>1. TypeOK /\ Counting /\ Decided /\ Masking /\ Blocks /\ Pairing
    BY DEF ScanInv
  <1>2. UNCHANGED <<index_ptr, equal_num, inc_continue_num, mask, column_block, column_begin_vec,
                    disorder_addr, has_reduce, shuffle_index, reduction_addr>>
        /\ pc = "order" /\ i' = 1
    OBVIOUS
  <1>3. order_type' = OrderOf(index_ptr)
    <2>1. /\ equal_num = Vector - 1 <=> AllEqual(index_ptr)
          /\ equal_num + inc_continue_num = Vector - 1 <=> StepsByOne(index_ptr)
      BY <1>1, <1>2 DEF Counting, AllEqual, StepsByOne
    <2>2. inc_continue_num + equal_num = equal_num + inc_continue_num
      BY <1>1 DEF TypeOK
    <2>3. Vector > 8 <=> ~(Vector <= 8)
      BY LaneNumbers
    <2> QED
      BY <2>1, <2>2, <2>3 DEF OrderOf
  <1>4. /\ pc' \in {"mask", "blocks", "done"}
        /\ order_type' \in {"OrderEquel", "IncContinue", "DisOrder"}
        /\ pc' = "mask" <=> order_type' = "IncContinue"
        /\ pc' = "blocks" <=> order_type' = "DisOrder"
        /\ pc' = "done" <=> order_type' = "OrderEquel"
    <2>1. order_type' \in {"OrderEquel", "IncContinue", "DisOrder"}
      OBVIOUS
    <2>2. CASE order_type' = "OrderEquel"
      BY <2>2
    <2>3. CASE order_type' = "IncContinue"
      BY <2>3
    <2>4. CASE order_type' = "DisOrder"
      BY <2>4
    <2> QED
      BY <2>1, <2>2, <2>3, <2>4
  <1>5. mask = 1
    BY <1>1, <1>2 DEF Masking
  <1>6. TypeOK'
    <2>1. 1 \in -1 .. Vector
      BY LaneNumbers
    <2> QED
      BY <1>1, <1>2, <1>4, <2>1 DEF TypeOK
  <1>7. Counting' /\ Decided'
    BY <1>2, <1>3, <1>4 DEF Counting, Decided
  <1>8. Masking'
    <2>1. {h \in Heads(index_ptr) : h < 1} = {0}
      BY DEF Heads
    <2>2. 1 \in 1 .. Vector - 1
      BY LaneNumbers
    <2>3. ASSUME pc' = "done"
          PROVE  mask = info.mask
      <3>1. AllEqual(index_ptr) /\ OrderOf(index_ptr) # "DisOrder"
        BY <1>3, <1>4, <2>3 DEF OrderOf
      <3>2. Heads(index_ptr) = {0}
        BY <3>1 DEF Heads, AllEqual
      <3> QED
        BY <1>5, <3>1, <3>2, FirstBit DEF info, GatherInfo, OrderedInfo
    <2>4. ASSUME pc' = "mask"
          PROVE  mask = Bits({h \in Heads(index_ptr) : h < 1})
      BY <1>5, <2>1, FirstBit
    <2>5. info' = info
      BY <1>2 DEF info
    <2> QED
      BY <1>2, <1>4, <1>5, <2>2, <2>3, <2>4, <2>5 DEF Masking
  <1>9. Blocks'
    BY <1>1, <1>2, <1>4 DEF Blocks
  <1>10. Pairing'
    BY <1>1, <1>2, <1>3, <1>4 DEF Pairing
  <1> QED
    BY <1>6, <1>7, <1>8, <1>9, <1>10 DEF ScanInv

\* The bit of a head is added to those of the heads before.
LEMMA MarkChangeScan ==
  ASSUME ScanInv, MarkChange
  PROVE  ScanInv'
  <1> USE DEF MarkChange, order, blocks, rounds
  <1>1. TypeOK /\ Counting /\ Decided /\ Masking /\ Blocks /\ Pairing
    BY DEF ScanInv
  <1>2. UNCHANGED <<index_ptr, equal_num, inc_continue_num, order_type, column_block,
                    column_begin_vec, disorder_addr, has_reduce, shuffle_index, reduction_addr>>
        /\ pc = "mask" /\ i' = i + 1 /\ pc' = (IF i + 1 = Vector THEN "done" ELSE "mask")
    OBVIOUS
  <1>3. OrderOf(index_ptr) = "IncContinue" /\ order_type = "IncContinue" /\ Vector <= 8
    BY <1>1, <1>2 DEF Decided, OrderOf
  <1> DEFINE heads == Heads(index_ptr)
             seen == {h \in heads : h < i}
             next == {h \in heads : h < i + 1}
  <1>4. i \in 1 .. Vector - 1 /\ mask = Bits(seen) /\ Vector \in Nat
    BY <1>1, <1>2, LaneNumbers DEF Masking
  <1>5. heads \in SUBSET Lane /\ i \in Lane
    BY <1>4, LaneNumbers DEF Heads
  <1>6. i \in heads <=> index_ptr[i] # index_ptr[i - 1]
    BY <1>4 DEF Heads
  <1>7. mask' = Bits(next)
    <2>1. CASE i \in heads
      <3>1. next = seen \cup {i}
        BY <1>4, <1>5, <2>1, LaneNumbers
      <3>2. seen \in SUBSET Lane /\ i \notin seen
        BY <1>4, <1>5
      <3> HIDE DEF seen, next, heads
      <3>3. Bits(seen \cup {i}) = Bits(seen) + Pow(i)
        BY <1>3, <1>5, <3>2, OneLaneMore
      <3>4. mask' = mask + Pow(i)
        BY <1>6, <2>1 DEF Pow
      <3> QED
        BY <1>4, <3>1, <3>3, <3>4
    <2>2. CASE i \notin heads
      <3>1. next = seen
        BY <1>4, <1>5, <2>2, LaneNumbers
      <3> QED
        BY <1>4, <1>6, <2>2, <3>1
    <2> QED
      BY <2>1, <2>2
  <1>8. next \in SUBSET Lane
    BY <1>5
  <1>9. mask' \in 1 .. 2 ^ 16 - 1
    <2>1. mask' \in Nat /\ mask' < Pow(16)
      <3> HIDE DEF next
      <3> QED
        BY <1>7, <1>8, BitsRange
    <2>2. mask \in Nat /\ mask >= 1
      BY <1>1, MaskWidth DEF TypeOK
    <2>3. Pow(i) \in Nat
      <3>1. i \in 0 .. 16
        BY <1>4, LaneNumbers
      <3> QED
        BY <3>1, PowerIsNat
    <2>4. mask' = mask \/ mask' = mask + Pow(i)
      BY DEF Pow
    <2>5. mask' >= 1
      BY <2>2, <2>3, <2>4
    <2> QED
      BY <2>1, <2>5, MaskWidth
  <1>10. TypeOK'
    <2>1. i + 1 \in -1 .. Vector
      BY <1>4
    <2> QED
      BY <1>1, <1>2, <1>9, <2>1 DEF TypeOK
  <1>11. Counting' /\ Decided'
    BY <1>1, <1>2, <1>3 DEF Counting, Decided
  <1>12. Masking'
    <2>1. CASE i + 1 = Vector
      <3>1. next = heads
        BY <1>5, <2>1, LaneNumbers
      <3>2. info.mask = Bits(heads)
        BY <1>3 DEF info, GatherInfo, OrderedInfo
      <3>3. mask' = info.mask /\ pc' = "done" /\ info' = info
        BY <1>2, <1>7, <2>1, <3>1, <3>2 DEF info
      <3> QED
        BY <3>3 DEF Masking
    <2>2. CASE i + 1 # Vector
      <3>1. pc' = "mask" /\ i' \in 1 .. Vector - 1
        BY <1>2, <1>4, <2>2
      <3>2. mask' = Bits({h \in Heads(index_ptr') : h < i'})
        BY <1>2, <1>7
      <3> QED
        BY <3>1, <3>2 DEF Masking
    <2> QED
      BY <2>1, <2>2
  <1>13. Blocks' /\ Pairing'
    <2>1. pc' \in {"mask", "done"} /\ index_ptr' = index_ptr
      BY <1>2
    <2>2. Blocks'
      BY <1>1, <1>2, <1>3, <2>1 DEF Blocks
    <2>3. Pairing'
      BY <1>1, <1>2, <1>3, <2>1 DEF Pairing
    <2> QED
      BY <2>2, <2>3
  <1> QED
    BY <1>10, <1>11, <1>12, <1>13 DEF ScanInv

\* The lowest lane left opens a block: the first time it is the lowest lane of
\* the chunk, and when it opens a second block a lane lies behind the first.
LEMMA OpenBlockScan ==
  ASSUME ScanInv, OpenBlock
  PROVE  ScanInv'
  <1> USE DEF OpenBlock, order, blocks, rounds
  <1>1. TypeOK /\ Counting /\ Decided /\ Masking /\ Blocks /\ Pairing
    BY DEF ScanInv
  <1>2. /\ UNCHANGED <<index_ptr, pc, i, equal_num, inc_continue_num, order_type, mask,
                      has_reduce, shuffle_index, reduction_addr>>
        /\ pc = "blocks" /\ column_block # {}
    OBVIOUS
  <1>3. /\ index_ptr \in [Lane -> Nat] /\ column_block \in SUBSET Lane
        /\ column_begin_vec \in Seq(Nat) /\ disorder_addr \in [Lane -> 0 .. Vector - 1]
    BY <1>1 DEF TypeOK
  <1> DEFINE low == LowestLeft
             n == Len(column_begin_vec)
             inside == {l \in column_block : index_ptr[l] < low + Vector}
             first == {l \in Lane : index_ptr[l] < Lowest(index_ptr) + Vector}
  <1>4. low \in Nat /\ \A l \in column_block : low <= index_ptr[l]
    BY <1>2, <1>3, LeastOf DEF LowestLeft
  <1>5. /\ column_begin_vec' = Append(column_begin_vec, low)
        /\ disorder_addr' = [l \in Lane |-> IF l \in inside THEN index_ptr[l] - low
                                                            ELSE disorder_addr[l]]
        /\ column_block' = column_block \ inside
    OBVIOUS
  <1>6. n = 0 => low = Lowest(index_ptr)
    BY <1>1 DEF Blocks, LowestLeft, Lowest
  <1> HIDE DEF low
  <1>7. n \in Nat /\ column_begin_vec' \in Seq(Nat) /\ Len(column_begin_vec') = n + 1
    BY <1>3, <1>4, <1>5
  <1>8. ASSUME NEW l \in inside
        PROVE  index_ptr[l] - low \in 0 .. Vector - 1 /\ index_ptr[l] = low + (index_ptr[l] - low)
    <2>1. index_ptr[l] \in Nat /\ low <= index_ptr[l] /\ index_ptr[l] < low + Vector
      BY <1>3, <1>4
    <2> QED
      BY <1>4, <2>1, LaneNumbers
  <1>9. disorder_addr' \in [Lane -> 0 .. Vector - 1]
    <2>1. \A l \in Lane : (IF l \in inside THEN index_ptr[l] - low ELSE disorder_addr[l])
                             \in 0 .. Vector - 1
      <3> HIDE DEF inside
      <3> QED
        BY <1>3, <1>8
    <2> HIDE DEF inside
    <2> QED
      BY <1>5, <2>1
  <1>10. ASSUME NEW l \in Lane \ column_block'
         PROVE  \E b \in 1 .. Len(column_begin_vec') :
                  index_ptr[l] = column_begin_vec'[b] + disorder_addr'[l]
    <2>1. CASE l \in inside
      <3>1. disorder_addr'[l] = index_ptr[l] - low
        BY <1>5, <2>1
      <3>2. column_begin_vec'[n + 1] = low
        BY <1>3, <1>5
      <3>3. n + 1 \in 1 .. Len(column_begin_vec')
        BY <1>7
      <3> HIDE DEF n, inside
      <3> QED
        BY <1>8, <2>1, <3>1, <3>2, <3>3
    <2>2. CASE l \notin inside
      <3>1. l \in Lane \ column_block
        BY <1>5, <2>2
      <3>2. PICK b \in 1 .. n : index_ptr[l] = column_begin_vec[b] + disorder_addr[l]
        BY <1>1, <3>1 DEF TypeOK
      <3>3. disorder_addr'[l] = disorder_addr[l]
        BY <1>5, <2>2
      <3>4. column_begin_vec'[b] = column_begin_vec[b] /\ b \in 1 .. Len(column_begin_vec')
        BY <1>3, <1>4, <1>5, <1>7
      <3> QED
        BY <3>2, <3>3, <3>4
    <2> QED
      BY <2>1, <2>2
  <1>11. TypeOK'
    <2>1. column_block' \in SUBSET Lane
      BY <1>3, <1>5
    <2> HIDE DEF n, inside, OpenBlock
    <2> QED
      BY <1>1, <1>2, <1>7, <1>9, <1>10, <2>1 DEF TypeOK
  <1>12. Counting' /\ Decided' /\ Masking' /\ Pairing'
    <2>1. Counting' /\ Decided'
      BY <1>1, <1>2 DEF Counting, Decided
    <2>2. Masking' /\ Pairing'
      BY <1>1, <1>2 DEF Masking, Pairing
    <2> QED
      BY <2>1, <2>2
  <1>13. Blocks'
    <2>1. /\ n = 0 => column_block = Lane /\ disorder_addr = NoAddr
          /\ n = 1 => column_block = Lane \ first
          /\ n > 1 => first # Lane
      BY <1>1 DEF Blocks
    <2>2. ASSUME n + 1 = 1
          PROVE  /\ column_block' = Lane \ first
                 /\ disorder_addr' = [l \in Lane |-> IF l \in first
                                        THEN index_ptr[l] - Lowest(index_ptr) ELSE 0]
      <3>1. n = 0
        BY <1>7, <2>2
      <3>2. inside = first /\ low = Lowest(index_ptr)
        BY <1>6, <2>1, <3>1
      <3>3. \A l \in Lane : disorder_addr[l] = 0
        BY <2>1, <3>1 DEF NoAddr
      <3>4. column_block' = Lane \ first
        BY <1>5, <2>1, <3>1, <3>2
      <3> HIDE DEF inside, first
      <3> QED
        BY <1>5, <3>2, <3>3, <3>4
    <2>3. ASSUME n + 1 > 1
          PROVE  first # Lane
      <3>1. n = 1 \/ n > 1
        <4> HIDE DEF n
        <4> QED
          BY <1>7, <2>3
      <3>2. CASE n = 1
        BY <1>2, <2>1, <3>2
      <3> QED
        BY <2>1, <3>1, <3>2
    <2>4. n + 1 # 0
      BY <1>7
    <2> HIDE DEF n
    <2> QED
      BY <1>2, <1>7, <2>2, <2>3, <2>4 DEF Blocks
  <1> QED
    BY <1>11, <1>12, <1>13 DEF ScanInv

\* When no lane is left, one block means that all lanes lie in the block of the
\* lowest index.
LEMMA BlocksDone ==
  ASSUME TypeOK, Blocks, column_block = {}
  PROVE  /\ Len(column_begin_vec) = 1 \/ Len(column_begin_vec) > 1
         /\ Len(column_begin_vec) = 1 <=> InOneBlock(index_ptr)
         /\ Len(column_begin_vec) = 1 =>
              disorder_addr = [l \in Lane |-> index_ptr[l] - Lowest(index_ptr)]
  <1> DEFINE n == Len(column_begin_vec)
             first == {l \in Lane : index_ptr[l] < Lowest(index_ptr) + Vector}
  <1>1. /\ n = 0 => column_block = Lane
        /\ n = 1 => /\ column_block = Lane \ first
                    /\ disorder_addr = [l \in Lane |-> IF l \in first
                                          THEN index_ptr[l] - Lowest(index_ptr) ELSE 0]
        /\ n > 1 => first # Lane
    BY DEF Blocks
  <1>2. n = 1 \/ n > 1
    <2>1. n \in Nat
      BY DEF TypeOK
    <2>2. n # 0
      BY <1>1, LaneNumbers
    <2> HIDE DEF n
    <2> QED
      BY <2>1, <2>2
  <1>3. first = Lane <=> InOneBlock(index_ptr)
    BY DEF InOneBlock
  <1>4. n = 1 => first = Lane
    BY <1>1
  <1> HIDE DEF n, first
  <1>5. n = 1 => disorder_addr = [l \in Lane |-> index_ptr[l] - Lowest(index_ptr)]
    BY <1>1, <1>4
  <1>6. n = 1 <=> InOneBlock(index_ptr)
    BY <1>1, <1>2, <1>3, <1>4
  <1> QED
    BY <1>2, <1>5, <1>6 DEF n

\* The mask is the one of generate_gather_info_elem.
LEMMA CloseBlocksScan ==
  ASSUME ScanInv, CloseBlocks
  PROVE  ScanInv'
  <1> USE DEF CloseBlocks, order, blocks, rounds
  <1>1. TypeOK /\ Counting /\ Decided /\ Masking /\ Blocks /\ Pairing
    BY DEF ScanInv
  <1>2. /\ UNCHANGED <<index_ptr, equal_num, inc_continue_num, order_type, column_block,
                      column_begin_vec, disorder_addr, has_reduce, shuffle_index, reduction_addr>>
        /\ pc = "blocks" /\ column_block = {} /\ i' = Vector - 1
        /\ pc' = (IF Vector > 4 THEN "reduce" ELSE "done")
        /\ mask' = IF Len(column_begin_vec) > 1 THEN Vector
                   ELSE IF Vector > 4 THEN 1 ELSE Packed(disorder_addr)
    OBVIOUS
  <1>3. OrderOf(index_ptr) = "DisOrder" /\ order_type = "DisOrder" /\ index_ptr \in [Lane -> Nat]
    BY <1>1, <1>2 DEF Decided, TypeOK
  <1>4. mask' = info.mask
    <2> DEFINE n == Len(column_begin_vec)
    <2>1. /\ n = 1 \/ n > 1
          /\ n = 1 <=> InOneBlock(index_ptr)
          /\ n = 1 => disorder_addr = [l \in Lane |-> index_ptr[l] - Lowest(index_ptr)]
      BY <1>1, <1>2, BlocksDone
    <2>2. mask' = IF n > 1 THEN Vector ELSE IF Vector > 4 THEN 1 ELSE Packed(disorder_addr)
      BY <1>2
    <2> HIDE DEF n, CloseBlocks
    <2>3. CASE n = 1
      BY <1>3, <2>1, <2>2, <2>3 DEF info, GatherInfo
    <2>4. CASE n > 1
      <3>1. n # 1
        BY <2>4
      <3> QED
        BY <1>3, <2>1, <2>2, <2>4, <3>1 DEF info, GatherInfo
    <2> QED
      BY <2>1, <2>3, <2>4
  <1>5. info.mask \in 1 .. 2 ^ 16 - 1
    <2>1. info.mask \in Nat /\ info.mask < Pow(16)
      BY <1>3, ColumnIsFeature DEF IsFeature, info
    <2>2. info.mask >= 1
      BY <1>3, BlockMask DEF info
    <2> QED
      BY <2>1, <2>2, MaskWidth
  <1>6. TypeOK'
    <2>1. Vector - 1 \in -1 .. Vector
      BY LaneNumbers
    <2> QED
      BY <1>1, <1>2, <1>4, <1>5, <2>1 DEF TypeOK
  <1>7. Counting' /\ Decided'
    BY <1>2, <1>3 DEF Counting, Decided
  <1>8. Masking'
    BY <1>2, <1>4 DEF Masking, info
  <1>9. Blocks'
    BY <1>1, <1>2 DEF Blocks
  <1>10. Pairing'
    <2>1. has_reduce = {} /\ reduction_addr = <<>>
      BY <1>1, <1>2 DEF Pairing
    <2>2. Taken(index_ptr, 2 ^ 0) = {}
      <3>1. Pow(0) = 1
        BY LevelWidth
      <3>2. \A l \in Lane : RankOf(index_ptr)[l] \in 0 .. 15
        BY RowsRanked DEF Ranked
      <3>3. \A l \in Lane : RankOf(index_ptr)[l] % 1 = 0
        BY <3>2
      <3> QED
        BY <3>1, <3>3 DEF Taken, Pow
    <2>3. Len(<<>>) = 0 /\ 0 <= reduce_num[LongestRepeat(index_ptr)]
      BY RoundsReach
    <2>4. Vector - 1 \in -1 .. Vector - 1 /\ (Vector - 1) + 1 .. Vector - 1 = {}
      BY LaneNumbers
    <2>5. <<>> = [r \in 1 .. 0 |-> [l \in Lane |-> PartnerIn(r - 1, l)]]
      OBVIOUS
    <2>6. CASE Vector > 4
      <3>1. pc' = "reduce" /\ Vector # 4
        BY <1>2, <2>6
      <3>2. {PartnerIn(0, l) : l \in (Vector - 1) + 1 .. Vector - 1} = {}
        BY <2>4
      <3>3. UNCHANGED <<index_ptr, has_reduce, reduction_addr, shuffle_index>> /\ i' = Vector - 1
        BY <1>2
      <3> QED
        BY <1>3, <2>1, <2>2, <2>3, <2>4, <2>5, <2>6, <3>1, <3>2, <3>3 DEF Pairing, PartnerIn
    <2>7. CASE ~(Vector > 4)
      <3>1. pc' = "done"
        BY <1>2, <2>7
      <3> QED
        BY <1>2, <2>1, <2>7, <3>1 DEF Pairing
    <2> QED
      BY <2>6, <2>7
  <1> QED
    BY <1>6, <1>7, <1>8, <1>9, <1>10 DEF ScanInv

\* Lane i seeks its partner as Partner names it.
LEMMA SeekPartnerScan ==
  ASSUME ScanInv, SeekPartner
  PROVE  ScanInv'
  <1> USE DEF SeekPartner, order, blocks, rounds
  <1>1. TypeOK /\ Counting /\ Decided /\ Masking /\ Blocks /\ Pairing
    BY DEF ScanInv
  <1> DEFINE n == Len(reduction_addr)
             w == Pow(n)
             free == {m \in 0 .. i - 1 : index_ptr[m] = index_ptr[i] /\ m \notin has_reduce}
             found == i \notin has_reduce /\ free # {}
             p(l) == Partner(index_ptr, l, Taken(index_ptr, w))
  <1>2. /\ UNCHANGED <<index_ptr, pc, equal_num, inc_continue_num, order_type, mask, column_block,
                      column_begin_vec, disorder_addr, reduction_addr>>
        /\ pc = "reduce" /\ i' = i - 1 /\ i >= 0
        /\ n < reduce_num[LongestRepeat(index_ptr)]
        /\ shuffle_index' = [shuffle_index EXCEPT ![i] = IF found THEN Max(free) ELSE Vector]
        /\ has_reduce' = has_reduce \cup (IF found THEN {Max(free)} ELSE {})
    OBVIOUS
  <1>3. /\ Vector > 4 /\ i \in -1 .. Vector - 1
        /\ reduction_addr = [r \in 1 .. n |-> [l \in Lane |-> PartnerIn(r - 1, l)]]
        /\ \A l \in i + 1 .. Vector - 1 : shuffle_index[l] = p(l)
        /\ has_reduce = Taken(index_ptr, w) \cup ({p(l) : l \in i + 1 .. Vector - 1} \ {Vector})
    BY <1>1, <1>2 DEF Pairing, PartnerIn, Pow
  <1>4. i \in Lane /\ i \in 0 .. Vector - 1 /\ Vector \in Nat
    BY <1>2, <1>3, LaneNumbers
  <1>5. shuffle_index \in [Lane -> 0 .. Vector] /\ has_reduce \in SUBSET Lane /\ n \in Nat
    BY <1>1 DEF TypeOK
  <1>6. w \in {1, 2, 4, 8}
    <2>1. n \in 0 .. 3
      <3>1. reduce_num[LongestRepeat(index_ptr)] \in 0 .. 4
        BY RoundsReach
      <3> HIDE DEF n
      <3> QED
        BY <1>2, <1>5, <3>1
    <2> HIDE DEF n
    <2> QED
      BY <2>1, LevelWidth
  <1>7. IF found THEN p(i) = Max(free) /\ Max(free) \in Lane ELSE p(i) = Vector
    <2> HIDE DEF w, SeekPartner
    <2>1. has_reduce = TakenAbove(index_ptr, w, i)
      BY <1>3 DEF TakenAbove
    <2>2. free = Free(index_ptr, i, has_reduce)
      BY DEF Free
    <2> DEFINE H == has_reduce
               k == i
               ix == index_ptr
    <2>3. H = TakenAbove(ix, w, k) /\ k \in Lane /\ w \in {1, 2, 4, 8}
      BY <1>4, <1>6, <2>1
    <2> HIDE DEF H, k, ix
    <2>4. IF k \notin H /\ Free(ix, k, H) # {}
            THEN Partner(ix, k, Taken(ix, w)) = Max(Free(ix, k, H)) /\ Max(Free(ix, k, H)) \in Lane
            ELSE Partner(ix, k, Taken(ix, w)) = Vector
      BY <2>3, OneByOne
    <2> HIDE DEF free
    <2> QED
      BY <2>2, <2>4 DEF H, k, ix
  <1> HIDE DEF SeekPartner, n, w, free, p
  <1>8. /\ shuffle_index' = [shuffle_index EXCEPT ![i] = p(i)]
        /\ has_reduce' = has_reduce \cup ({p(i)} \ {Vector})
        /\ p(i) \in Lane \/ p(i) = Vector
    <2>1. CASE found
      BY <1>2, <1>7, <2>1, LaneNumbers
    <2>2. CASE ~found
      BY <1>2, <1>7, <2>2
    <2> QED
      BY <2>1, <2>2
  <1> HIDE DEF found
  <1>9. shuffle_index' \in [Lane -> 0 .. Vector] /\ has_reduce' \in SUBSET Lane
    <2>1. p(i) \in 0 .. Vector
      BY <1>4, <1>8, LaneNumbers
    <2> QED
      BY <1>4, <1>5, <1>8, <2>1
  <1>10. TypeOK'
    <2>1. i - 1 \in -1 .. Vector
      BY <1>4
    <2> QED
      BY <1>1, <1>2, <1>9, <2>1 DEF TypeOK
  <1>11. Counting' /\ Decided' /\ Masking' /\ Blocks'
    <2>1. Counting' /\ Decided'
      BY <1>1, <1>2 DEF Counting, Decided
    <2>2. Masking' /\ Blocks'
      BY <1>1, <1>2 DEF Masking, Blocks, info
    <2> QED
      BY <2>1, <2>2
  <1>12. Pairing'
    <2>1. i' + 1 = i /\ i .. Vector - 1 = {i} \cup (i + 1 .. Vector - 1)
          /\ i' \in -1 .. Vector - 1 /\ i \notin i + 1 .. Vector - 1
          /\ i .. Vector - 1 \subseteq Lane
      BY <1>2, <1>4, LaneNumbers
    <2>2. \A l \in i .. Vector - 1 : shuffle_index'[l] = p(l)
      BY <1>3, <1>4, <1>5, <1>8, <2>1
    <2>3. has_reduce'
            = Taken(index_ptr, w) \cup ({p(l) : l \in i .. Vector - 1} \ {Vector})
      <3>1. {p(l) : l \in i .. Vector - 1} = {p(l) : l \in i + 1 .. Vector - 1} \cup {p(i)}
        BY <2>1
      <3> QED
        BY <1>3, <1>8, <3>1
    <2>4. /\ pc' = "reduce" /\ index_ptr' = index_ptr /\ reduction_addr' = reduction_addr
          /\ OrderOf(index_ptr) = "DisOrder" /\ Vector # 4
      BY <1>1, <1>2, <1>3 DEF Decided
    <2>5. n < reduce_num[LongestRepeat(index_ptr)] /\ n \in Nat
          /\ reduce_num[LongestRepeat(index_ptr)] \in Nat
      BY <1>2, <1>5, RoundsReach
    <2>6. n <= reduce_num[LongestRepeat(index_ptr)] /\ n # reduce_num[LongestRepeat(index_ptr)]
      BY <2>5
    <2>7. reduction_addr' = [r \in 1 .. Len(reduction_addr') |-> [l \in Lane |->
                               Partner(index_ptr', l, Taken(index_ptr', 2 ^ (r - 1)))]]
      BY <1>3, <2>4 DEF PartnerIn, n
    <2>8. \A l \in i' + 1 .. Vector - 1 :
            shuffle_index'[l]
              = Partner(index_ptr', l, Taken(index_ptr', 2 ^ Len(reduction_addr')))
      BY <2>1, <2>2, <2>4 DEF p, w, Pow, n
    <2>9. has_reduce'
            = Taken(index_ptr', 2 ^ Len(reduction_addr'))
                \cup ({Partner(index_ptr', l, Taken(index_ptr', 2 ^ Len(reduction_addr'))) :
                         l \in i' + 1 .. Vector - 1} \ {Vector})
      BY <2>1, <2>3, <2>4 DEF p, w, Pow, n
    <2>10. /\ Len(reduction_addr') <= reduce_num[LongestRepeat(index_ptr')]
           /\ Len(reduction_addr') # reduce_num[LongestRepeat(index_ptr')]
      BY <2>4, <2>6 DEF n
    <2> QED
      BY <1>3, <2>1, <2>4, <2>7, <2>8, <2>9, <2>10 DEF Pairing, PartnerIn
  <1> QED
    BY <1>10, <1>11, <1>12 DEF ScanInv

\* After a round every second lane of those left has been taken in.
LEMMA EndRoundScan ==
  ASSUME ScanInv, EndRound
  PROVE  ScanInv'
  <1> USE DEF EndRound, order, blocks, rounds
  <1>1. TypeOK /\ Counting /\ Decided /\ Masking /\ Blocks /\ Pairing
    BY DEF ScanInv
  <1> DEFINE n == Len(reduction_addr)
             m == reduce_num[LongestRepeat(index_ptr)]
             p(k, l) == Partner(index_ptr, l, Taken(index_ptr, Pow(k)))
             addr(k) == [l \in Lane |-> p(k, l)]
  <1>2. /\ UNCHANGED <<index_ptr, pc, equal_num, inc_continue_num, order_type, mask, column_block,
                      column_begin_vec, disorder_addr, has_reduce, shuffle_index>>
        /\ pc = "reduce" /\ i = -1 /\ i' = Vector - 1
        /\ reduction_addr' = Append(reduction_addr, shuffle_index)
    OBVIOUS
  <1>3. /\ Vector > 4 /\ n <= m /\ (n = m => i = Vector - 1)
        /\ reduction_addr = [r \in 1 .. n |-> addr(r - 1)]
        /\ \A l \in i + 1 .. Vector - 1 : shuffle_index[l] = p(n, l)
        /\ has_reduce = Taken(index_ptr, Pow(n))
                          \cup ({p(n, l) : l \in i + 1 .. Vector - 1} \ {Vector})
    BY <1>1, <1>2 DEF Pairing, PartnerIn, Pow
  <1>4. /\ shuffle_index \in [Lane -> 0 .. Vector] /\ n \in Nat
        /\ reduction_addr \in Seq([Lane -> 0 .. Vector])
    BY <1>1 DEF TypeOK
  <1>5. m \in 0 .. 4
    BY RoundsReach
  <1>6. i + 1 .. Vector - 1 = Lane
    BY <1>2, LaneNumbers
  <1> HIDE DEF EndRound, p
  <1>7. shuffle_index = addr(n)
    BY <1>3, <1>4, <1>6
  <1>8. has_reduce = Taken(index_ptr, Pow(n + 1))
    <2>1. n \in 0 .. 3
      <3>1. n # m
        BY <1>2, <1>3, LaneNumbers
      <3> HIDE DEF n, m
      <3> QED
        BY <1>3, <1>4, <1>5, <3>1
    <2>2. Pow(n) \in {1, 2, 4, 8} /\ Pow(n + 1) = 2 * Pow(n)
      <3> HIDE DEF n
      <3> QED
        BY <2>1, LevelWidth
    <2> DEFINE q(l) == Partner(index_ptr, l, Taken(index_ptr, Pow(n)))
    <2>3. Pair(index_ptr, Taken(index_ptr, Pow(n))).reduced
            = Taken(index_ptr, Pow(n)) \cup ({q(l) : l \in Lane} \ {Vector})
      BY DEF Pair
    <2>4. has_reduce = Taken(index_ptr, Pow(n)) \cup ({q(l) : l \in Lane} \ {Vector})
      BY <1>3, <1>6 DEF p
    <2> HIDE DEF n, q
    <2>5. Pair(index_ptr, Taken(index_ptr, Pow(n))).reduced = Taken(index_ptr, 2 * Pow(n))
      BY <2>2, RoundPairs
    <2> QED
      BY <2>2, <2>3, <2>4, <2>5
  <1>9. /\ reduction_addr' \in Seq([Lane -> 0 .. Vector])
        /\ Len(reduction_addr') = n + 1
        /\ reduction_addr' = [r \in 1 .. n + 1 |-> addr(r - 1)]
    <2> DEFINE s == reduction_addr
               t == shuffle_index
    <2>1. s \in Seq([Lane -> 0 .. Vector]) /\ t \in [Lane -> 0 .. Vector] /\ Len(s) = n
      BY <1>4
    <2>2. \A r \in 1 .. n : s[r] = addr(r - 1)
      BY <1>3
    <2>3. t = addr((n + 1) - 1)
      BY <1>4, <1>7
    <2>4. reduction_addr' = Append(s, t)
      BY <1>2
    <2> HIDE DEF s, t, n, addr
    <2>5. /\ Append(s, t) \in Seq([Lane -> 0 .. Vector]) /\ Len(Append(s, t)) = n + 1
          /\ Append(s, t) = [r \in 1 .. n + 1 |-> IF r <= n THEN s[r] ELSE t]
      <3>1. /\ Append(s, t) \in Seq([Lane -> 0 .. Vector]) /\ Len(Append(s, t)) = Len(s) + 1
            /\ \A r \in 1 .. Len(s) : Append(s, t)[r] = s[r]
            /\ Append(s, t)[Len(s) + 1] = t
        BY <2>1, AppendProperties
      <3> DEFINE a == Append(s, t)
      <3>2. a = [r \in 1 .. Len(s) + 1 |-> a[r]]
        <4>1. a \in Seq([Lane -> 0 .. Vector]) /\ Len(a) = Len(s) + 1
          BY <3>1
        <4> HIDE DEF a
        <4> QED
          BY <4>1
      <3> HIDE DEF a
      <3>3. \A r \in 1 .. n + 1 : Append(s, t)[r] = IF r <= n THEN s[r] ELSE t
        BY <1>4, <2>1, <3>1
      <3> QED
        BY <2>1, <3>1, <3>2, <3>3 DEF a
    <2>6. \A r \in 1 .. n + 1 : (IF r <= n THEN s[r] ELSE t) = addr(r - 1)
      BY <1>4, <2>2, <2>3
    <2> QED
      BY <2>4, <2>5, <2>6
  <1>10. TypeOK'
    <2>1. Vector - 1 \in -1 .. Vector
      BY LaneNumbers
    <2> QED
      BY <1>1, <1>2, <1>9, <2>1 DEF TypeOK
  <1>11. Counting' /\ Decided' /\ Masking' /\ Blocks'
    <2>1. Counting' /\ Decided'
      BY <1>1, <1>2 DEF Counting, Decided
    <2>2. Masking' /\ Blocks'
      BY <1>1, <1>2 DEF Masking, Blocks, info
    <2> QED
      BY <2>1, <2>2
  <1>12. Pairing'
    <2>1. i' \in -1 .. Vector - 1 /\ i' = Vector - 1 /\ i' + 1 .. Vector - 1 = {}
      BY <1>2, LaneNumbers
    <2>2. /\ pc' = "reduce" /\ index_ptr' = index_ptr
          /\ OrderOf(index_ptr) = "DisOrder" /\ Vector # 4 /\ has_reduce' = has_reduce
      BY <1>1, <1>2, <1>3 DEF Decided
    <2>3. n + 1 <= m
      <3>1. n # m
        BY <1>2, <1>3, LaneNumbers
      <3> HIDE DEF n, m
      <3> QED
        BY <1>3, <1>4, <1>5, <3>1
    <2>4. reduction_addr' = [r \in 1 .. n + 1 |-> [l \in Lane |-> p(r - 1, l)]]
      BY <1>9
    <2>5. {p(n + 1, l) : l \in i' + 1 .. Vector - 1} = {}
      BY <2>1
    <2>6. has_reduce' = Taken(index_ptr, Pow(n + 1))
                         \cup ({p(n + 1, l) : l \in i' + 1 .. Vector - 1} \ {Vector})
      BY <1>8, <2>2, <2>5
    <2>7. \A l \in i' + 1 .. Vector - 1 : shuffle_index'[l] = p(n + 1, l)
      BY <2>1
    <2>8. Len(reduction_addr') = n + 1
      BY <1>9
    <2> HIDE DEF n
    <2> QED
      BY <1>3, <2>1, <2>2, <2>3, <2>4, <2>6, <2>7, <2>8 DEF Pairing, PartnerIn, Pow, p, m
  <1> QED
    BY <1>10, <1>11, <1>12 DEF ScanInv

\* The rounds are those of the plan.
LEMMA EndReduceScan ==
  ASSUME ScanInv, EndReduce
  PROVE  ScanInv'
  <1> USE DEF EndReduce, order, blocks, rounds
  <1>1. TypeOK /\ Counting /\ Decided /\ Masking /\ Blocks /\ Pairing
    BY DEF ScanInv
  <1> DEFINE m == reduce_num[LongestRepeat(index_ptr)]
  <1>2. /\ UNCHANGED <<index_ptr, i, equal_num, inc_continue_num, order_type, mask, column_block,
                      column_begin_vec, disorder_addr, has_reduce, shuffle_index, reduction_addr>>
        /\ pc = "reduce" /\ pc' = "done" /\ Len(reduction_addr) = m
    OBVIOUS
  <1>3. reduction_addr = [r \in 1 .. m |-> [l \in Lane |-> PartnerIn(r - 1, l)]]
    BY <1>1, <1>2 DEF Pairing
  <1>4. m \in 0 .. 4
    BY RoundsReach
  <1>5. Rounds(index_ptr) = [r \in 1 .. m |-> Rounds(index_ptr)[r]]
    BY DEF Rounds
  <1>6. Len(Rounds(index_ptr)) = m
    <2>1. m \in Nat
      BY <1>4
    <2> HIDE DEF m
    <2> QED
      BY <1>5, <2>1, FunctionIsSeq
  <1>7. ASSUME NEW r \in 1 .. m
        PROVE  Rounds(index_ptr)[r] = [l \in Lane |-> PartnerIn(r - 1, l)]
    <2> HIDE DEF m, EndReduce
    <2>1. r - 1 \in 0 .. Len(Rounds(index_ptr)) - 1 /\ (r - 1) + 1 = r
      BY <1>4, <1>6
    <2>2. Rounds(index_ptr)[r] = Pair(index_ptr, Taken(index_ptr, Pow(r - 1))).addr
      BY <2>1, RoundsPair
    <2> QED
      BY <2>2 DEF Pair, PartnerIn, Pow
  <1>8. reduction_addr = Rounds(index_ptr)
    <2> HIDE DEF m, EndReduce
    <2> QED
      BY <1>3, <1>5, <1>7
  <1>9. TypeOK' /\ Counting' /\ Decided' /\ Masking'
    BY <1>1, <1>2 DEF TypeOK, Counting, Decided, Masking, info
  <1>10. Blocks'
    BY <1>1, <1>2 DEF Blocks
  <1>11. Pairing'
    <2>1. OrderOf(index_ptr) = "DisOrder" /\ Vector # 4
      BY <1>1, <1>2 DEF Decided, Pairing
    <2> QED
      BY <1>2, <1>8, <2>1 DEF Pairing
  <1> QED
    BY <1>9, <1>10, <1>11 DEF ScanInv

-----------------------------------------------------------------------------
(***************************************************************************)
(* The theorems                                                            *)
(***************************************************************************)
\* ScanInv is inductive.
LEMMA NextScan == ScanInv /\ [Next]_vars => ScanInv'
  <1> SUFFICES ASSUME ScanInv, [Next]_vars PROVE ScanInv'
    OBVIOUS
  <1>1. CASE CompareLanes
    BY <1>1, CompareLanesScan
  <1>2. CASE DecideOrder
    BY <1>2, DecideOrderScan
  <1>3. CASE MarkChange
    BY <1>3, MarkChangeScan
  <1>4. CASE OpenBlock
    BY <1>4, OpenBlockScan
  <1>5. CASE CloseBlocks
    BY <1>5, CloseBlocksScan
  <1>6. CASE SeekPartner
    BY <1>6, SeekPartnerScan
  <1>7. CASE EndRound
    BY <1>7, EndRoundScan
  <1>8. CASE EndReduce
    BY <1>8, EndReduceScan
  <1>9. CASE UNCHANGED vars
    BY <1>9, IdleScan
  <1> QED
    BY <1>1, <1>2, <1>3, <1>4, <1>5, <1>6, <1>7, <1>8, <1>9 DEF Next

\* At every iteration the loops know of the lanes they have seen what module
\* Features says of them: the counters of get_order_type, the mask of get_mask,
\* the first block, and the partners of the rounds.
THEOREM LoopsKnowTheirLanes == Spec => []ScanInv
  BY InitScan, NextScan, PTL DEF Spec

\* Every lane that was taken lies inside one of the blocks opened, at a place
\* that fits into the four bits or the int8 it is stored in.
THEOREM LanesShared == Spec => []TypeOK
  <1>1. ScanInv => TypeOK
    BY DEF ScanInv
  <1> QED
    BY LoopsKnowTheirLanes, <1>1, PTL

\* What GatherInfo says of an unordered chunk.
LEMMA GatherInfoParts ==
  ASSUME NEW ix
  PROVE  /\ GatherInfo(ix).order = OrderOf(ix)
         /\ ScatterInfo(ix).order = OrderOf(ix)
         /\ OrderOf(ix) = "DisOrder" =>
              /\ Len(GatherInfo(ix).index) = 1 <=> InOneBlock(ix)
              /\ InOneBlock(ix) =>
                   GatherInfo(ix).addr = [l \in Lane |-> ix[l] - Lowest(ix)]
  <1>1. CASE OrderOf(ix) # "DisOrder"
    BY <1>1 DEF GatherInfo, ScatterInfo, OrderedInfo
  <1>2. CASE OrderOf(ix) = "DisOrder" /\ InOneBlock(ix)
    <2>1. GatherInfo(ix).index = <<Lowest(ix)>> /\ GatherInfo(ix).order = "DisOrder"
          /\ GatherInfo(ix).addr = [l \in Lane |-> ix[l] - Lowest(ix)]
          /\ ScatterInfo(ix).order = "DisOrder"
      BY <1>2 DEF GatherInfo, ScatterInfo
    <2>2. Len(<<Lowest(ix)>>) = 1
      OBVIOUS
    <2> QED
      BY <1>2, <2>1, <2>2
  <1>3. CASE OrderOf(ix) = "DisOrder" /\ ~InOneBlock(ix)
    <2>1. GatherInfo(ix).index = AllIndices(ix) /\ GatherInfo(ix).order = "DisOrder"
          /\ ScatterInfo(ix).order = "DisOrder"
      BY <1>3 DEF GatherInfo, ScatterInfo
    <2> DEFINE all == AllIndices(ix)
    <2>2. all = [p \in 1 .. Vector |-> all[p]]
      BY DEF AllIndices
    <2> HIDE DEF all
    <2>3. Len(all) = Vector
      BY <2>2, LaneNumbers, FunctionIsSeq
    <2>4. Len(all) # 1
      BY <2>3, LaneNumbers
    <2> QED
      BY <1>3, <2>1, <2>4 DEF all
  <1> QED
    BY <1>1, <1>2, <1>3

\* What the loops have made of a chunk is its feature.
LEMMA ScanDone ==
  ASSUME ScanInv, pc = "done"
  PROVE  /\ index_ptr \in [Lane -> Nat]
         /\ order_type = OrderOf(index_ptr) /\ mask = GatherInfo(index_ptr).mask
         /\ order_type = GatherInfo(index_ptr).order
         /\ column_code = ColumnCode(GatherInfo(index_ptr))
         /\ ~ReductionUnsupported(index_ptr) =>
              /\ reduction_addr = ReductionInfo(index_ptr).rounds
              /\ row_code = RowCode(ScatterInfo(index_ptr), ReductionInfo(index_ptr))
  <1>1. TypeOK /\ Decided /\ Masking /\ Pairing
    BY DEF ScanInv
  <1>2. index_ptr \in [Lane -> Nat]
    BY <1>1 DEF TypeOK
  <1>3. order_type = OrderOf(index_ptr) /\ mask = GatherInfo(index_ptr).mask
    BY <1>1 DEF Decided, Masking, info
  <1>4. GatherInfo(index_ptr).order = order_type /\ ScatterInfo(index_ptr).order = order_type
    BY <1>3, GatherInfoParts
  <1>5. column_code = ColumnCode(GatherInfo(index_ptr))
    BY <1>3, <1>4 DEF column_code, ColumnCode
  <1>6. ASSUME ~ReductionUnsupported(index_ptr)
        PROVE  reduction_addr = ReductionInfo(index_ptr).rounds
    <2>1. CASE OrderOf(index_ptr) # "DisOrder"
      <3>1. reduction_addr = <<>>
        BY <1>1, <2>1 DEF Pairing
      <3> QED
        BY <2>1, <3>1 DEF ReductionInfo
    <2>2. CASE OrderOf(index_ptr) = "DisOrder"
      <3>1. Vector > 4
        BY <1>6, <2>2, LaneNumbers DEF ReductionUnsupported
      <3>2. reduction_addr = Rounds(index_ptr)
        BY <1>1, <1>3, <2>2, <3>1 DEF Pairing
      <3> QED
        BY <2>2, <3>2 DEF ReductionInfo
    <2> QED
      BY <2>1, <2>2
  <1>7. ASSUME reduction_addr = ReductionInfo(index_ptr).rounds
        PROVE  row_code = RowCode(ScatterInfo(index_ptr), ReductionInfo(index_ptr))
    BY <1>4, <1>7 DEF row_code, RowCode
  <1> QED
    BY <1>2, <1>3, <1>4, <1>5, <1>6, <1>7

\* What the loops over a chunk compute is its feature, as module Features says
\* it of the whole chunk at once.
THEOREM ScanIsFeature == Spec => []ScanMatchesFeature
  <1>1. ScanInv => ScanMatchesFeature
    <2> SUFFICES ASSUME ScanInv, pc = "done"
                 PROVE  LET of == GatherInfo(index_ptr) IN
                          /\ order_type = of.order
                          /\ mask = of.mask
                          /\ order_type = "DisOrder" =>
                               /\ (Len(column_begin_vec) = 1) = (Len(of.index) = 1)
                               /\ Len(of.index) = 1 => disorder_addr = of.addr
                               /\ ~ReductionUnsupported(index_ptr) =>
                                    reduction_addr = ReductionInfo(index_ptr).rounds
      BY DEF ScanMatchesFeature
    <2>1. /\ order_type = GatherInfo(index_ptr).order /\ mask = GatherInfo(index_ptr).mask
          /\ order_type = OrderOf(index_ptr)
          /\ ~ReductionUnsupported(index_ptr) =>
               reduction_addr = ReductionInfo(index_ptr).rounds
      BY ScanDone
    <2>2. ASSUME order_type = "DisOrder"
          PROVE  /\ Len(column_begin_vec) = 1 <=> Len(GatherInfo(index_ptr).index) = 1
                 /\ Len(GatherInfo(index_ptr).index) = 1 =>
                      disorder_addr = GatherInfo(index_ptr).addr
      <3>1. TypeOK /\ Blocks /\ column_block = {}
        BY <2>2 DEF ScanInv, Blocks
      <3>2. /\ Len(column_begin_vec) = 1 <=> InOneBlock(index_ptr)
            /\ Len(column_begin_vec) = 1 =>
                 disorder_addr = [l \in Lane |-> index_ptr[l] - Lowest(index_ptr)]
        BY <3>1, BlocksDone
      <3>3. /\ Len(GatherInfo(index_ptr).index) = 1 <=> InOneBlock(index_ptr)
            /\ InOneBlock(index_ptr) =>
                 GatherInfo(index_ptr).addr = [l \in Lane |-> index_ptr[l] - Lowest(index_ptr)]
        BY <2>1, <2>2, GatherInfoParts
      <3> QED
        BY <3>2, <3>3, Zenon
    <2> QED
      BY <2>1, <2>2
  <1> QED
    BY LoopsKnowTheirLanes, <1>1, PTL

\* The words laid out for a chunk are as many as the loop of its feature
\* consumes, and no more than malloc_new_data set aside for it.
THEOREM LayoutIsCode == Spec => []LayoutMatchesCode
  <1>1. ScanInv => LayoutMatchesCode
    <2> SUFFICES ASSUME ScanInv, pc = "done" PROVE LayoutMatchesCode
      BY DEF LayoutMatchesCode
    <2> DEFINE ix == index_ptr
    <2>1. ix \in [Lane -> Nat] /\ column_code = ColumnCode(GatherInfo(ix))
      BY ScanDone
    <2>2. /\ Len(GatherSlots(GatherInfo(ix))) = GatherWidth(column_code)
          /\ GatherWidth(column_code) <= GatherNeed(GatherInfo(ix))
      BY <2>1, ColumnFits, ColumnNeed
    <2>3. Len(GatherSlots(ScatterInfo(ix))) <= ScatterNeed(ScatterInfo(ix))
      BY RowNeed
    <2>4. ASSUME ~ReductionUnsupported(ix)
          PROVE  /\ Len(ReductionSlots(ReductionInfo(ix))) = ReductionWidth(row_code)
                 /\ ReductionWidth(row_code) <= ReductionNeed(ReductionInfo(ix))
      <3>1. row_code = RowCode(ScatterInfo(ix), ReductionInfo(ix))
        BY <2>4, ScanDone
      <3>2. Vector > 4 \/ OrderOf(ix) # "DisOrder"
        BY <2>4, LaneNumbers DEF ReductionUnsupported
      <3> QED
        BY <3>1, <3>2, RoundsFit, RoundsNeed
    <2> QED
      BY <2>2, <2>3, <2>4 DEF LayoutMatchesCode
  <1> QED
    BY LoopsKnowTheirLanes, <1>1, PTL

\* The loop of the feature found fills every lane from the element that its
\* index names, whatever the chunk.
THEOREM LanesGathered == Spec => []EveryLaneGathered
  <1>1. ScanInv => EveryLaneGathered
    <2> SUFFICES ASSUME ScanInv, pc = "done"
                 PROVE  GatheredFrom(column_code, GatherSlots(GatherInfo(index_ptr))) = index_ptr
      BY DEF EveryLaneGathered
    <2>1. index_ptr \in [Lane -> Nat] /\ column_code = ColumnCode(GatherInfo(index_ptr))
      BY ScanDone
    <2> QED
      BY <2>1, GatheredIsIndex
  <1> QED
    BY LoopsKnowTheirLanes, <1>1, PTL

\* Adding the lanes up as the feature found says adds every lane to its own
\* element exactly once, and keeps what the element held.
THEOREM LanesAdded == Spec => []EveryLaneAddedOnce
  <1>1. ScanInv => EveryLaneAddedOnce
    <2> SUFFICES ASSUME ScanInv, pc = "done", ~ReductionUnsupported(index_ptr)
                 PROVE  EveryLaneAddedOnce
      BY DEF EveryLaneAddedOnce
    <2> DEFINE ix == index_ptr
               T == [l \in Lane |-> {l}]
               Y == [r \in OutputRows |-> Held]
               lanes == [l \in Lane |-> SetToBag({l})]
               old == [r \in OutputRows |-> SetToBag(Held)]
               perms == ReductionSlots(ReductionInfo(ix))
    <2>1. ix \in [Lane -> Nat] /\ row_code = RowCode(ScatterInfo(ix), ReductionInfo(ix))
      BY ScanDone
    <2>2. Apart(T) /\ \A l \in Lane : lanes[l] = SetToBag(T[l])
      BY DEF Apart
    <2>3. Filled(old, Y) /\ DOMAIN old = OutputRows
      BY DEF Filled
    <2>4. Fresh(old, Y, T)
      <3>1. \A l \in Lane : -1 # l
        BY DEF Lane
      <3> QED
        BY <3>1 DEF Fresh, Held
    <2>5. \A r \in OutputRows :
            Y[r] \cup TermsOf(T, RowLanes(ix, r)) = Held \cup {l \in Lane : ix[l] = r}
      BY DEF TermsOf, RowLanes
    <2> HIDE DEF T, Y, lanes, old, ix
    <2>6. Accumulated(old, RowCode(ScatterInfo(ix), ReductionInfo(ix)),
                      GatherSlots(ScatterInfo(ix)), perms, lanes) = AddedTo(old, Y, T, ix)
      BY <2>1, <2>2, <2>3, <2>4, AccumulatedIsSum
    <2>7. AddedTo(old, Y, T, ix)
            = [r \in OutputRows |-> SetToBag(Held \cup {l \in Lane : ix[l] = r})]
      BY <2>3, <2>5 DEF AddedTo
    <2> QED
      BY <2>1, <2>6, <2>7 DEF EveryLaneAddedOnce, ix, old, lanes
  <1> QED
    BY LoopsKnowTheirLanes, <1>1, PTL
=============================================================================
