----------------------------- MODULE FitProofs ------------------------------
(***************************************************************************)
(* The words that transform_data lays out fit into what malloc_new_data    *)
(* has set aside: no chunk is laid out twice, whatever the order of the    *)
(* two maps, the row index is laid out for the chunks it is counted for,   *)
(* and no chunk takes more words than it was counted for.  And the kernel  *)
(* adds every element once: what one iteration stores are the terms of the *)
(* elements it has read.                                                   *)
(***************************************************************************)
EXTENDS DynVecProofs

-----------------------------------------------------------------------------
(***************************************************************************)
(* Sequences without repetitions                                           *)
(***************************************************************************)
\* s has no element twice.
Once(s) == \A p, q \in 1 .. Len(s) : s[p] = s[q] => p = q

\* Every place of a sequence of sequences laid out is a place of one of them.
LEMMA PlaceInPart ==
  ASSUME NEW T, NEW seqs \in Seq(Seq(T)), NEW p \in 1 .. Len(FlattenSeq(seqs))
  PROVE  \E k \in 1 .. Len(seqs) : \E q \in 1 .. Len(seqs[k]) :
           p = Before(seqs, k - 1) + q /\ FlattenSeq(seqs)[p] = seqs[k][q]
  <1> DEFINE B(k) == Before(seqs, k)
             len == Len(seqs)
             N == {n \in Nat : n <= len =>
                     \A x \in 1 .. B(n) : \E k \in 1 .. len : \E q \in 1 .. Len(seqs[k]) :
                       x = B(k - 1) + q}
  <1>1. /\ len \in Nat /\ FlattenSeq(seqs) \in Seq(T) /\ Len(FlattenSeq(seqs)) \in Nat
        /\ \A k \in 1 .. len : Len(seqs[k]) \in Nat
    BY FlattenFacts
  <1>2. B(0) = 0 /\ B(len) = Len(FlattenSeq(seqs))
    BY FlattenFacts
  <1>3. \A k \in 0 .. len : B(k) \in Nat
    BY <1>1, FlattenFacts
  <1>4. \A k \in 1 .. len : /\ B(k) = B(k - 1) + Len(seqs[k])
                            /\ \A q \in 1 .. Len(seqs[k]) :
                                 FlattenSeq(seqs)[B(k - 1) + q] = seqs[k][q]
    BY FlattenFacts
  <1> HIDE DEF B, len
  <1>5. 0 \in N
    BY <1>2
  <1>6. ASSUME NEW n \in Nat, n \in N
        PROVE  n + 1 \in N
    <2> SUFFICES ASSUME n + 1 <= len, NEW x \in 1 .. B(n + 1)
                 PROVE  \E k \in 1 .. len : \E q \in 1 .. Len(seqs[k]) : x = B(k - 1) + q
      OBVIOUS
    <2>1. n + 1 \in 1 .. len /\ (n + 1) - 1 = n /\ n \in 0 .. len
      BY <1>1
    <2>2. B(n + 1) = B(n) + Len(seqs[n + 1]) /\ B(n) \in Nat /\ Len(seqs[n + 1]) \in Nat
      BY <1>1, <1>3, <1>4, <2>1
    <2>6. n <= len => \A v \in 1 .. B(n) : \E k \in 1 .. len : \E q \in 1 .. Len(seqs[k]) :
                        v = B(k - 1) + q
      BY <1>6
    <2> HIDE DEF N
    <2>3. CASE x <= B(n)
      <3>1. x \in 1 .. B(n) /\ n <= len
        BY <2>1, <2>2, <2>3
      <3> QED
        BY <2>6, <3>1, Zenon
    <2>4. CASE x > B(n)
      <3> DEFINE q == x - B(n)
      <3>0. ASSUME NEW b \in Nat, NEW l \in Nat, NEW v \in 1 .. b + l, v > b
            PROVE  v - b \in 1 .. l /\ v = b + (v - b)
        BY <3>0, SMTT(30)
      <3>1. q \in 1 .. Len(seqs[n + 1]) /\ x = B(n) + q
        <4>1. x \in 1 .. B(n) + Len(seqs[n + 1]) /\ x > B(n)
          BY <2>2, <2>4
        <4> HIDE DEF B
        <4> QED
          BY <2>2, <3>0, <4>1, ZenonT(30)
      <3> HIDE DEF q
      <3>2. x = B((n + 1) - 1) + q
        BY <2>1, <3>1
      <3> QED
        BY <2>1, <3>1, <3>2
    <2>5. x \in Int /\ B(n) \in Int
      BY <2>2
    <2> QED
      BY <2>3, <2>4, <2>5
  <1>7. len \in N
    <2> HIDE DEF N
    <2>1. \A n \in Nat : n \in N
      BY <1>5, <1>6, SetInduction
    <2> QED
      BY <1>1, <2>1
  <1>8. p \in 1 .. B(len)
    BY <1>2
  <1>9. \E k \in 1 .. len : \E q \in 1 .. Len(seqs[k]) : p = B(k - 1) + q
    BY <1>1, <1>7, <1>8
  <1>10. PICK k \in 1 .. len : \E q \in 1 .. Len(seqs[k]) : p = B(k - 1) + q
    BY <1>9
  <1>11. PICK q \in 1 .. Len(seqs[k]) : p = B(k - 1) + q
    BY <1>10
  <1>12. FlattenSeq(seqs)[p] = seqs[k][q]
    BY <1>4, <1>11
  <1> QED
    BY <1>11, <1>12 DEF B, len

\* Nothing comes twice if nothing comes twice in a part and no two parts share
\* an element.
LEMMA FlatOnce ==
  ASSUME NEW T, NEW seqs \in Seq(Seq(T)),
         \A k \in 1 .. Len(seqs) : Once(seqs[k]),
         \A k, m \in 1 .. Len(seqs) : k # m =>
           \A p \in 1 .. Len(seqs[k]), q \in 1 .. Len(seqs[m]) : seqs[k][p] # seqs[m][q]
  PROVE  Once(FlattenSeq(seqs))
  <1> SUFFICES ASSUME NEW x \in 1 .. Len(FlattenSeq(seqs)), NEW z \in 1 .. Len(FlattenSeq(seqs)),
                      FlattenSeq(seqs)[x] = FlattenSeq(seqs)[z]
               PROVE  x = z
    BY DEF Once
  <1>1. PICK k \in 1 .. Len(seqs) : \E p \in 1 .. Len(seqs[k]) :
          x = Before(seqs, k - 1) + p /\ FlattenSeq(seqs)[x] = seqs[k][p]
    BY PlaceInPart
  <1>2. PICK p \in 1 .. Len(seqs[k]) :
          x = Before(seqs, k - 1) + p /\ FlattenSeq(seqs)[x] = seqs[k][p]
    BY <1>1
  <1>3. PICK m \in 1 .. Len(seqs) : \E q \in 1 .. Len(seqs[m]) :
          z = Before(seqs, m - 1) + q /\ FlattenSeq(seqs)[z] = seqs[m][q]
    BY PlaceInPart
  <1>4. PICK q \in 1 .. Len(seqs[m]) :
          z = Before(seqs, m - 1) + q /\ FlattenSeq(seqs)[z] = seqs[m][q]
    BY <1>3
  <1>5. seqs[k][p] = seqs[m][q]
    BY <1>2, <1>4
  <1>6. k = m
    BY <1>5
  <1>7. p = q
    BY <1>5, <1>6 DEF Once
  <1> QED
    BY <1>2, <1>4, <1>6, <1>7

\* The same for two sequences, one behind the other.
LEMMA ConcatOnce ==
  ASSUME NEW T, NEW a \in Seq(T), NEW b \in Seq(T), Once(a), Once(b),
         \A p \in 1 .. Len(a), q \in 1 .. Len(b) : a[p] # b[q]
  PROVE  Once(a \o b)
  <1> DEFINE s == a \o b
  <1>1. /\ Len(a) \in Nat /\ Len(b) \in Nat /\ Len(s) = Len(a) + Len(b)
        /\ \A p \in 1 .. Len(a) : s[p] = a[p]
        /\ \A q \in 1 .. Len(b) : s[Len(a) + q] = b[q]
    OBVIOUS
  <1> HIDE DEF s
  <1>2. ASSUME NEW x \in 1 .. Len(s), x > Len(a)
        PROVE  \E q \in 1 .. Len(b) : x = Len(a) + q /\ s[x] = b[q]
    <2> DEFINE q == x - Len(a)
    <2>1. q \in 1 .. Len(b) /\ x = Len(a) + q
      BY <1>1, <1>2
    <2> HIDE DEF q
    <2> QED
      BY <1>1, <2>1
  <1> SUFFICES ASSUME NEW x \in 1 .. Len(s), NEW z \in 1 .. Len(s), s[x] = s[z]
               PROVE  x = z
    BY DEF Once, s
  <1>3. CASE x <= Len(a) /\ z <= Len(a)
    <2>1. x \in 1 .. Len(a) /\ z \in 1 .. Len(a)
      BY <1>1, <1>3
    <2> QED
      BY <1>1, <2>1 DEF Once
  <1>4. CASE x <= Len(a) /\ z > Len(a)
    <2>1. x \in 1 .. Len(a)
      BY <1>1, <1>4
    <2>2. PICK q \in 1 .. Len(b) : s[z] = b[q]
      BY <1>2, <1>4
    <2> QED
      BY <1>1, <2>1, <2>2
  <1>5. CASE x > Len(a) /\ z <= Len(a)
    <2>1. z \in 1 .. Len(a)
      BY <1>1, <1>5
    <2>2. PICK q \in 1 .. Len(b) : s[x] = b[q]
      BY <1>2, <1>5
    <2> QED
      BY <1>1, <2>1, <2>2
  <1>6. CASE x > Len(a) /\ z > Len(a)
    <2>1. PICK p \in 1 .. Len(b) : x = Len(a) + p /\ s[x] = b[p]
      BY <1>2, <1>6
    <2>2. PICK q \in 1 .. Len(b) : z = Len(a) + q /\ s[z] = b[q]
      BY <1>2, <1>6
    <2>3. p = q
      BY <2>1, <2>2 DEF Once
    <2> QED
      BY <2>1, <2>2, <2>3
  <1> QED
    BY <1>1, <1>3, <1>4, <1>5, <1>6

-----------------------------------------------------------------------------
(***************************************************************************)
(* Counting                                                                *)
(***************************************************************************)
\* The chunks are finitely many.
LEMMA ChunksCount == IsFiniteSet(Chunk) /\ Cardinality(Chunk) = NumChunks
  <1>1. NumChunks \in Nat /\ 0 \in Int /\ NumChunks - 1 \in Int
    BY GroupingHolds
  <1> QED
    BY <1>1, FS_Interval DEF Chunk

\* A list of chunks without repetitions is no longer than the table.
LEMMA OnceIsShort ==
  ASSUME NEW s \in Seq(Chunk), Once(s)
  PROVE  Len(s) <= NumChunks
  <1>1. Len(s) \in Nat /\ s \in [1 .. Len(s) -> Chunk]
    OBVIOUS
  <1>2. s \in Injection(1 .. Len(s), Chunk)
    BY <1>1 DEF Injection, IsInjective, Once
  <1>3. Cardinality(1 .. Len(s)) <= Cardinality(Chunk)
    BY <1>2, ChunksCount, FS_Injection
  <1>4. Cardinality(1 .. Len(s)) = Len(s)
    <2>1. 1 \in Int /\ Len(s) \in Int
      BY <1>1
    <2> QED
      BY <1>1, <2>1, FS_Interval
  <1> QED
    BY <1>3, <1>4, ChunksCount

\* What malloc_new_data adds up does not depend on the order.
LEMMA SumOverFacts ==
  ASSUME NEW S, IsFiniteSet(S), NEW need \in [S -> Nat]
  PROVE  \E g : AnyOrder(g, need, S) /\ SumOver(need, S) = g[S]
  <1> DEFINE g == CHOOSE h : Sums(h, need, S)
  <1>1. \E h : Sums(h, need, S)
    BY SumsExists
  <1>2. Sums(g, need, S)
    BY <1>1
  <1>3. SumOver(need, S) = g[S]
    BY DEF SumOver, MapThenSumSet, MapThenFoldSet, Sums
  <1> HIDE DEF g
  <1>4. AnyOrder(g, need, S)
    BY <1>2, SumsFacts
  <1> QED
    BY <1>3, <1>4

\* Members of S laid out once, each with no more words than it is counted for,
\* take no more words than all members are counted for.
LEMMA LaidOutFits ==
  ASSUME NEW S, IsFiniteSet(S), NEW list \in Seq(S), Once(list), NEW need \in [S -> Nat],
         NEW words, AreSeqs(words), Len(words) = Len(list),
         \A n \in 1 .. Len(list) : Len(words[n]) <= need[list[n]]
  PROVE  Len(FlattenSeq(words)) <= SumOver(need, S)
  <1>1. PICK T : words \in Seq(Seq(T))
    BY DEF AreSeqs
  <1>2. PICK g : AnyOrder(g, need, S) /\ SumOver(need, S) = g[S]
    BY SumOverFacts
  <1> DEFINE len == Len(list)
             B(k) == Before(words, k)
             Unlaid(k) == S \ {list[m] : m \in 1 .. k}
             N == {n \in Nat : n <= len => B(n) + g[Unlaid(n)] <= g[S]}
  <1>3. len \in Nat /\ \A n \in 1 .. len : list[n] \in S /\ Len(words[n]) \in Nat
    BY <1>1
  <1>4. /\ B(0) = 0 /\ B(len) = Len(FlattenSeq(words))
        /\ \A k \in 1 .. len : B(k) = B(k - 1) + Len(words[k])
    BY <1>1, FlattenFacts
  <1>5. \A k \in 0 .. len : B(k) \in Nat
    <2>1. FlattenSeq(words) \in Seq(T)
      BY <1>1, FlattenFacts
    <2> QED
      BY <1>1, <2>1, FlattenFacts
  <1>6. \A s \in SUBSET S : g[s] \in Nat
    BY <1>2 DEF AnyOrder
  <1>7. \A s \in SUBSET S : \A c \in s : g[s] = need[c] + g[s \ {c}]
    BY <1>2 DEF AnyOrder
  <1>8. \A k : Unlaid(k) \in SUBSET S
    OBVIOUS
  <1>9. Unlaid(0) = S
    OBVIOUS
  <1>10. ASSUME NEW n \in Nat, n + 1 <= len
         PROVE  list[n + 1] \in Unlaid(n) /\ Unlaid(n + 1) = Unlaid(n) \ {list[n + 1]}
    <2>1. n + 1 \in 1 .. len /\ \A m \in 1 .. n : m \in 1 .. len /\ m # n + 1
      BY <1>3, <1>10
    <2>2. \A m \in 1 .. n : list[m] # list[n + 1]
      BY <2>1 DEF Once
    <2>3. list[n + 1] \in Unlaid(n)
      BY <1>3, <2>1, <2>2
    <2>4. \A m : m \in 1 .. n + 1 <=> m \in 1 .. n \/ m = n + 1
      OBVIOUS
    <2>5. {list[m] : m \in 1 .. n + 1} = {list[m] : m \in 1 .. n} \cup {list[n + 1]}
      BY <2>4
    <2> QED
      BY <2>3, <2>5
  <1> HIDE DEF len, B, Unlaid
  <1>11. 0 \in N
    <2>1. g[S] \in Nat
      BY <1>6, <1>8, <1>9
    <2> QED
      BY <1>4, <1>9, <2>1
  <1>12. ASSUME NEW n \in Nat, n \in N
         PROVE  n + 1 \in N
    <2> SUFFICES ASSUME n + 1 <= len PROVE B(n + 1) + g[Unlaid(n + 1)] <= g[S]
      OBVIOUS
    <2> DEFINE c == list[n + 1]
    <2>1. n + 1 \in 1 .. len /\ (n + 1) - 1 = n /\ n \in 0 .. len /\ n <= len
      BY <1>3
    <2>2. c \in Unlaid(n) /\ Unlaid(n + 1) = Unlaid(n) \ {c} /\ c \in S
      BY <1>3, <1>10, <2>1
    <2>3. Len(words[n + 1]) <= need[c] /\ Len(words[n + 1]) \in Nat
      BY <1>3, <2>1 DEF len
    <2>4. B(n + 1) = B(n) + Len(words[n + 1]) /\ B(n) \in Nat
      BY <1>4, <1>5, <2>1
    <2> HIDE DEF c
    <2>5. g[Unlaid(n)] = need[c] + g[Unlaid(n + 1)]
      BY <1>7, <1>8, <2>2
    <2>6. need[c] \in Nat /\ g[Unlaid(n + 1)] \in Nat /\ g[S] \in Nat /\ g[Unlaid(n)] \in Nat
      BY <1>6, <1>8, <1>9, <2>2
    <2>7. n <= len => B(n) + g[Unlaid(n)] <= g[S]
      BY <1>12
    <2> HIDE DEF N
    <2>8. B(n) + g[Unlaid(n)] <= g[S]
      BY <2>1, <2>7
    <2>9. ASSUME NEW b \in Nat, NEW l \in Nat, NEW d \in Nat, NEW r \in Nat, NEW t \in Nat,
                 l <= d, b + (d + r) <= t
          PROVE  (b + l) + r <= t
      BY <2>9
    <2> HIDE DEF B, Unlaid
    <2>10. B(n) + (need[c] + g[Unlaid(n + 1)]) <= g[S]
      BY <2>5, <2>8, ZenonT(30)
    <2>11. (B(n) + Len(words[n + 1])) + g[Unlaid(n + 1)] <= g[S]
      BY <2>3, <2>4, <2>6, <2>9, <2>10, ZenonT(30)
    <2> QED
      BY <2>4, <2>11
  <1>13. len \in N
    <2> HIDE DEF N
    <2>1. \A n \in Nat : n \in N
      BY <1>11, <1>12, SetInduction
    <2> QED
      BY <1>3, <2>1
  <1>14. B(len) + g[Unlaid(len)] <= g[S] /\ g[Unlaid(len)] \in Nat /\ g[S] \in Nat /\ B(len) \in Nat
    BY <1>3, <1>5, <1>6, <1>8, <1>9, <1>13
  <1> QED
    BY <1>2, <1>4, <1>14

-----------------------------------------------------------------------------
(***************************************************************************)
(* No chunk is laid out twice                                              *)
(***************************************************************************)
\* When generate_information returns, every group increases and the ranges of a
\* key are apart from each other and from the group.
LEMMA PlacedFacts ==
  ASSUME G!IInv, pc = "done", NEW k \in Key
  PROVE  /\ Once(same_feature_map[k])
         /\ \A p, q \in 1 .. Len(same_write_pattern_map[k]) : p # q =>
              LET r == same_write_pattern_map[k][p]
                  s == same_write_pattern_map[k][q]
              IN r[2] <= s[1] \/ s[2] <= r[1]
         /\ \A p \in 1 .. Len(same_feature_map[k]), q \in 1 .. Len(same_write_pattern_map[k]) :
              LET c == same_feature_map[k][p]
                  r == same_write_pattern_map[k][q]
              IN ~(r[1] <= c /\ c < r[2])
  <1> DEFINE group == same_feature_map[k]
             ranges == same_write_pattern_map[k]
  <1>1. group \in Seq(Chunk) /\ ranges \in Seq(Long)
    BY GroupingDone
  <1>2. G!Increasing(group) /\ G!Placed(k)
    BY GroupingHolds DEF G!IInv, G!GroupsIncreasing, G!KeysOutsideRun, G!InsideRun
  <1>3. \A c \in Chunk : ~(G!InGroup(k, c) /\ G!InRange(k, c))
    BY <1>2 DEF G!Placed, G!ExactlyOneOf, G!Chunk, Chunk
  <1>4. \A p \in 1 .. Len(group) : group[p] \in Chunk /\ G!InGroup(k, group[p])
    BY <1>1 DEF G!InGroup
  <1>5. \A c : \A q \in 1 .. Len(ranges) :
          ranges[q][1] <= c /\ c < ranges[q][2] => G!InRange(k, c)
    BY DEF G!InRange
  <1>6. \A p, q \in 1 .. Len(ranges) : p < q => ranges[p][2] <= ranges[q][1]
    BY <1>2 DEF G!Placed, G!RangesApart
  <1> HIDE DEF group, ranges
  <1>7. Once(group)
    <2> SUFFICES ASSUME NEW p \in 1 .. Len(group), NEW q \in 1 .. Len(group), group[p] = group[q]
                 PROVE  p = q
      BY DEF Once
    <2>1. p < q => group[p] < group[q]
      BY <1>2 DEF G!Increasing
    <2>2. q < p => group[q] < group[p]
      BY <1>2 DEF G!Increasing
    <2>3. group[p] \in Int
      BY <1>4, GroupingHolds DEF Chunk
    <2> QED
      BY <2>1, <2>2, <2>3
  <1>8. \A p, q \in 1 .. Len(ranges) : p # q =>
          ranges[p][2] <= ranges[q][1] \/ ranges[q][2] <= ranges[p][1]
    <2>1. Len(ranges) \in Nat
      BY <1>1
    <2> QED
      BY <1>6, <2>1
  <1>9. \A p \in 1 .. Len(group), q \in 1 .. Len(ranges) :
          ~(ranges[q][1] <= group[p] /\ group[p] < ranges[q][2])
    BY <1>3, <1>4, <1>5
  <1> QED
    BY <1>7, <1>8, <1>9 DEF group, ranges

\* The orders of the two maps list no key twice.
KeysOnce == OrdersKnown /\ Once(group_order) /\ Once(range_order)

\* No chunk is in two groups, or twice in one.
LEMMA GroupsOnce ==
  ASSUME G!IInv, KeysOnce
  PROVE  Once(GroupChunks)
  <1>1. OrdersKnown /\ pc = "done" /\ Once(group_order)
    BY DEF KeysOnce, OrdersKnown
  <1>2. /\ Groups \in Seq(Seq(Chunk)) /\ Len(Groups) = Len(group_order)
        /\ \A n \in 1 .. Len(Groups) :
             /\ group_order[n] \in Key
             /\ Groups[n] = same_feature_map[group_order[n]]
             /\ \A p \in 1 .. Len(Groups[n]) : hash_info[Groups[n][p]] = group_order[n]
        /\ GroupChunks = FlattenSeq(Groups)
    BY <1>1, GroupsFacts
  <1>3. \A n \in 1 .. Len(Groups) : Once(Groups[n])
    BY <1>1, <1>2, PlacedFacts
  <1>4. ASSUME NEW n \in 1 .. Len(Groups), NEW m \in 1 .. Len(Groups), n # m,
               NEW p \in 1 .. Len(Groups[n]), NEW q \in 1 .. Len(Groups[m])
        PROVE  Groups[n][p] # Groups[m][q]
    <2>1. group_order[n] # group_order[m]
      BY <1>1, <1>2, <1>4 DEF Once
    <2>2. hash_info[Groups[n][p]] = group_order[n] /\ hash_info[Groups[m][q]] = group_order[m]
      BY <1>2
    <2> QED
      BY <2>1, <2>2
  <1>5. Once(FlattenSeq(Groups))
    BY <1>2, <1>3, <1>4, FlatOnce
  <1> QED
    BY <1>2, <1>5

\* Where the n-th range comes from.
LEMMA RangeOrigin ==
  ASSUME G!IInv, KeysOnce, NEW n \in 1 .. Len(Ranges)
  PROVE  \E k \in 1 .. Len(RangeLists) : \E p \in 1 .. Len(RangeLists[k]) :
           /\ n = Before(RangeLists, k - 1) + p /\ Ranges[n] = RangeLists[k][p]
           /\ range_order[k] \in Key
           /\ RangeLists[k] = same_write_pattern_map[range_order[k]]
           /\ \A c \in Ranges[n][1] .. Ranges[n][2] - 1 : hash_info[c] = range_order[k]
  <1>1. OrdersKnown
    BY DEF KeysOnce
  <1>2. /\ RangeLists \in Seq(Seq(Long)) /\ Ranges = FlattenSeq(RangeLists)
        /\ \A m \in 1 .. Len(RangeLists) :
             /\ range_order[m] \in Key
             /\ RangeLists[m] = same_write_pattern_map[range_order[m]]
             /\ \A p \in 1 .. Len(RangeLists[m]) :
                  \A c \in RangeLists[m][p][1] .. RangeLists[m][p][2] - 1 :
                    hash_info[c] = range_order[m]
    BY <1>1, RangesFacts
  <1> DEFINE flat == FlattenSeq(RangeLists)
  <1>3. RangeLists \in Seq(Seq(Long)) /\ n \in 1 .. Len(flat) /\ Ranges[n] = flat[n]
    BY <1>2
  <1>4. \E k \in 1 .. Len(RangeLists) : \E p \in 1 .. Len(RangeLists[k]) :
          n = Before(RangeLists, k - 1) + p /\ flat[n] = RangeLists[k][p]
    BY <1>3, PlaceInPart
  <1> HIDE DEF flat
  <1>5. PICK k \in 1 .. Len(RangeLists) : \E p \in 1 .. Len(RangeLists[k]) :
          n = Before(RangeLists, k - 1) + p /\ flat[n] = RangeLists[k][p]
    BY <1>4
  <1>6. PICK p \in 1 .. Len(RangeLists[k]) :
          n = Before(RangeLists, k - 1) + p /\ flat[n] = RangeLists[k][p]
    BY <1>5
  <1>7. /\ range_order[k] \in Key
        /\ RangeLists[k] = same_write_pattern_map[range_order[k]]
        /\ \A c \in RangeLists[k][p][1] .. RangeLists[k][p][2] - 1 : hash_info[c] = range_order[k]
    BY <1>2
  <1>8. Ranges[n] = RangeLists[k][p]
    BY <1>3, <1>6
  <1>9. \A c \in Ranges[n][1] .. Ranges[n][2] - 1 : hash_info[c] = range_order[k]
    BY <1>7, <1>8
  <1> QED
    BY <1>6, <1>7, <1>8, <1>9

\* No two ranges share a chunk.
LEMMA RangesDisjoint ==
  ASSUME G!IInv, KeysOnce,
         NEW n \in 1 .. Len(Ranges), NEW m \in 1 .. Len(Ranges), n # m,
         NEW c \in Ranges[n][1] .. Ranges[n][2] - 1
  PROVE  c \notin Ranges[m][1] .. Ranges[m][2] - 1
  <1> SUFFICES ASSUME c \in Ranges[m][1] .. Ranges[m][2] - 1 PROVE FALSE
    OBVIOUS
  <1>1. OrdersKnown /\ pc = "done" /\ Once(range_order)
    BY DEF KeysOnce, OrdersKnown
  <1>2. PICK k \in 1 .. Len(RangeLists) : \E p \in 1 .. Len(RangeLists[k]) :
           /\ n = Before(RangeLists, k - 1) + p /\ Ranges[n] = RangeLists[k][p]
           /\ range_order[k] \in Key
           /\ RangeLists[k] = same_write_pattern_map[range_order[k]]
           /\ \A d \in Ranges[n][1] .. Ranges[n][2] - 1 : hash_info[d] = range_order[k]
    BY RangeOrigin
  <1>3. PICK p \in 1 .. Len(RangeLists[k]) :
          n = Before(RangeLists, k - 1) + p /\ Ranges[n] = RangeLists[k][p]
    BY <1>2
  <1>4. PICK h \in 1 .. Len(RangeLists) : \E q \in 1 .. Len(RangeLists[h]) :
           /\ m = Before(RangeLists, h - 1) + q /\ Ranges[m] = RangeLists[h][q]
           /\ range_order[h] \in Key
           /\ RangeLists[h] = same_write_pattern_map[range_order[h]]
           /\ \A d \in Ranges[m][1] .. Ranges[m][2] - 1 : hash_info[d] = range_order[h]
    BY RangeOrigin
  <1>5. PICK q \in 1 .. Len(RangeLists[h]) :
          m = Before(RangeLists, h - 1) + q /\ Ranges[m] = RangeLists[h][q]
    BY <1>4
  <1>6. k \in 1 .. Len(range_order) /\ h \in 1 .. Len(range_order)
    BY <1>1, RangesFacts
  <1>7. k = h
    <2>1. hash_info[c] = range_order[k]
      BY <1>2
    <2>2. hash_info[c] = range_order[h]
      BY <1>4
    <2>3. range_order[k] = range_order[h]
      BY <2>1, <2>2
    <2> QED
      BY <1>1, <1>6, <2>3 DEF Once
  <1>8. p # q
    BY <1>3, <1>5, <1>7
  <1>9. Ranges[n][2] <= Ranges[m][1] \/ Ranges[m][2] <= Ranges[n][1]
    <2> DEFINE ranges == same_write_pattern_map[range_order[k]]
    <2>1. range_order[k] \in Key /\ RangeLists[k] = ranges
      BY <1>2
    <2>2. \A v, w \in 1 .. Len(ranges) : v # w =>
            ranges[v][2] <= ranges[w][1] \/ ranges[w][2] <= ranges[v][1]
      BY <1>1, <2>1, PlacedFacts
    <2>3. /\ p \in 1 .. Len(ranges) /\ Ranges[n] = ranges[p]
          /\ q \in 1 .. Len(ranges) /\ Ranges[m] = ranges[q]
      BY <1>3, <1>5, <1>7, <2>1
    <2> HIDE DEF ranges
    <2> QED
      BY <1>8, <2>2, <2>3
  <1>10. /\ Ranges[n][1] \in Int /\ Ranges[n][2] \in Int
         /\ Ranges[m][1] \in Int /\ Ranges[m][2] \in Int
    <2>1. Ranges \in Seq(Long)
      BY <1>1, RangesFacts
    <2>2. /\ Ranges[n][1] \in Chunk /\ Ranges[n][2] \in Int
          /\ Ranges[m][1] \in Chunk /\ Ranges[m][2] \in Int
      BY <2>1, RangeChunksFacts
    <2>3. \A v \in Chunk : v \in Int
      BY GroupingHolds DEF Chunk
    <2> QED
      BY <2>2, <2>3, Zenon
  <1> DEFINE a == Ranges[n][1]
             b == Ranges[n][2]
             d == Ranges[m][1]
             e == Ranges[m][2]
  <1>11. a \in Int /\ b \in Int /\ d \in Int /\ e \in Int /\ (b <= d \/ e <= a)
    BY <1>9, <1>10
  <1>12. c \in a .. b - 1 /\ c \in d .. e - 1
    OBVIOUS
  <1> HIDE DEF a, b, d, e
  <1>13. c \in Int /\ a <= c /\ c < b /\ d <= c /\ c < e
    BY <1>11, <1>12
  <1>14. CASE b <= d
    BY <1>11, <1>13, <1>14
  <1>15. CASE e <= a
    BY <1>11, <1>13, <1>15
  <1> QED
    BY <1>11, <1>14, <1>15

\* No chunk of a range is left in a group.
LEMMA GroupOrRange ==
  ASSUME G!IInv, KeysOnce, NEW x \in 1 .. Len(GroupChunks), NEW n \in 1 .. Len(Ranges)
  PROVE  GroupChunks[x] \notin Ranges[n][1] .. Ranges[n][2] - 1
  <1> SUFFICES ASSUME GroupChunks[x] \in Ranges[n][1] .. Ranges[n][2] - 1 PROVE FALSE
    OBVIOUS
  <1> DEFINE c == GroupChunks[x]
  <1>1. OrdersKnown /\ pc = "done"
    BY DEF KeysOnce, OrdersKnown
  <1>2. /\ Groups \in Seq(Seq(Chunk)) /\ GroupChunks = FlattenSeq(Groups)
        /\ \A k \in 1 .. Len(Groups) :
             /\ group_order[k] \in Key
             /\ Groups[k] = same_feature_map[group_order[k]]
             /\ \A p \in 1 .. Len(Groups[k]) : hash_info[Groups[k][p]] = group_order[k]
    BY <1>1, GroupsFacts
  <1> DEFINE flat == FlattenSeq(Groups)
  <1>3. Groups \in Seq(Seq(Chunk)) /\ x \in 1 .. Len(flat) /\ GroupChunks[x] = flat[x]
    BY <1>2
  <1>4. \E k \in 1 .. Len(Groups) : \E p \in 1 .. Len(Groups[k]) :
          x = Before(Groups, k - 1) + p /\ flat[x] = Groups[k][p]
    BY <1>3, PlaceInPart
  <1> HIDE DEF flat
  <1>5. PICK k \in 1 .. Len(Groups) : \E p \in 1 .. Len(Groups[k]) : flat[x] = Groups[k][p]
    BY <1>4
  <1>6. PICK p \in 1 .. Len(Groups[k]) : flat[x] = Groups[k][p]
    BY <1>5
  <1>7. c = Groups[k][p] /\ hash_info[c] = group_order[k] /\ group_order[k] \in Key
    BY <1>2, <1>3, <1>6
  <1>8. PICK h \in 1 .. Len(RangeLists) : \E q \in 1 .. Len(RangeLists[h]) :
           /\ Ranges[n] = RangeLists[h][q]
           /\ RangeLists[h] = same_write_pattern_map[range_order[h]]
           /\ \A d \in Ranges[n][1] .. Ranges[n][2] - 1 : hash_info[d] = range_order[h]
    BY RangeOrigin
  <1>9. PICK q \in 1 .. Len(RangeLists[h]) : Ranges[n] = RangeLists[h][q]
    BY <1>8
  <1>10. hash_info[c] = range_order[h] /\ RangeLists[h] = same_write_pattern_map[range_order[h]]
    BY <1>8
  <1>11. range_order[h] = group_order[k]
    BY <1>7, <1>10
  <1>12. ~(Ranges[n][1] <= c /\ c < Ranges[n][2])
    <2> DEFINE key1 == group_order[k]
    <2>1. same_feature_map[key1][p] = c /\ p \in 1 .. Len(same_feature_map[key1])
      BY <1>2, <1>7
    <2>2. same_write_pattern_map[key1][q] = Ranges[n] /\ q \in 1 .. Len(same_write_pattern_map[key1])
      BY <1>9, <1>10, <1>11
    <2>3. key1 \in Key
      BY <1>7
    <2> HIDE DEF key1, c
    <2>4. \A v \in 1 .. Len(same_feature_map[key1]), w \in 1 .. Len(same_write_pattern_map[key1]) :
            ~(/\ same_write_pattern_map[key1][w][1] <= same_feature_map[key1][v]
              /\ same_feature_map[key1][v] < same_write_pattern_map[key1][w][2])
      BY <1>1, <2>3, PlacedFacts
    <2> QED
      BY <2>1, <2>2, <2>4
  <1>13. Ranges[n][1] \in Int /\ Ranges[n][2] \in Int
    <2>1. Ranges \in Seq(Long)
      BY <1>1, RangesFacts
    <2>2. Ranges[n][1] \in Chunk /\ Ranges[n][2] \in Int
      BY <2>1, RangeChunksFacts
    <2>3. \A v \in Chunk : v \in Int
      BY GroupingHolds DEF Chunk
    <2> QED
      BY <2>2, <2>3, Zenon
  <1> DEFINE a == Ranges[n][1]
             b == Ranges[n][2]
  <1>14. a \in Int /\ b \in Int /\ ~(a <= c /\ c < b) /\ c \in a .. b - 1
    BY <1>12, <1>13
  <1> HIDE DEF a, b, c
  <1> QED
    BY <1>14

\* The chunks of the data and of the column index, in the order of the loops.
LEMMA AllChunksOnce ==
  ASSUME G!IInv, KeysOnce
  PROVE  Once(AllChunks)
  <1>1. OrdersKnown
    BY DEF KeysOnce
  <1>2. GroupChunks \in Seq(Chunk) /\ Once(GroupChunks) /\ Ranges \in Seq(Long)
    BY <1>1, GroupsFacts, GroupsOnce, RangesFacts
  <1> DEFINE seqs == RangeChunks
             rest == FlattenSeq(seqs)
  <1>3. /\ seqs \in Seq(Seq(Chunk)) /\ Len(seqs) = Len(Ranges)
        /\ \A n \in 1 .. Len(Ranges) :
             /\ Ranges[n][1] \in Chunk /\ Ranges[n][2] \in Int
             /\ Len(seqs[n]) = Ranges[n][2] - Ranges[n][1]
             /\ \A p \in 1 .. Ranges[n][2] - Ranges[n][1] : seqs[n][p] = Ranges[n][1] + p - 1
        /\ ChunksOfRanges(Ranges) = rest /\ rest \in Seq(Chunk)
    BY <1>2, RangeChunksFacts
  <1> HIDE DEF seqs
  <1>4. ASSUME NEW n \in 1 .. Len(seqs), NEW p \in 1 .. Len(seqs[n])
        PROVE  /\ seqs[n][p] = Ranges[n][1] + p - 1
               /\ seqs[n][p] \in Ranges[n][1] .. Ranges[n][2] - 1
               /\ n \in 1 .. Len(Ranges) /\ Ranges[n][1] \in Int
    <2> DEFINE a == Ranges[n][1]
               b == Ranges[n][2]
    <2>1. /\ a \in Chunk /\ b \in Int /\ p \in 1 .. b - a /\ seqs[n][p] = a + p - 1
          /\ n \in 1 .. Len(Ranges)
      BY <1>3
    <2>2. a \in Int
      BY <2>1, GroupingHolds DEF Chunk
    <2> HIDE DEF a, b
    <2>3. seqs[n][p] \in a .. b - 1
      BY <2>1, <2>2
    <2> QED
      BY <2>1, <2>2, <2>3 DEF a, b
  <1>5. \A n \in 1 .. Len(seqs) : Once(seqs[n])
    <2> SUFFICES ASSUME NEW n \in 1 .. Len(seqs),
                        NEW p \in 1 .. Len(seqs[n]), NEW q \in 1 .. Len(seqs[n]),
                        seqs[n][p] = seqs[n][q]
                 PROVE  p = q
      BY DEF Once
    <2>1. seqs[n][p] = Ranges[n][1] + p - 1 /\ seqs[n][q] = Ranges[n][1] + q - 1
      BY <1>4
    <2> DEFINE a == Ranges[n][1]
    <2>2. a \in Int /\ p \in Int /\ q \in Int
      BY <1>4
    <2>3. a + p - 1 = a + q - 1
      BY <2>1
    <2> HIDE DEF a
    <2> QED
      BY <2>2, <2>3
  <1>6. ASSUME NEW n \in 1 .. Len(seqs), NEW m \in 1 .. Len(seqs), n # m,
               NEW p \in 1 .. Len(seqs[n]), NEW q \in 1 .. Len(seqs[m])
        PROVE  seqs[n][p] # seqs[m][q]
    <2>1. seqs[n][p] \in Ranges[n][1] .. Ranges[n][2] - 1 /\ n \in 1 .. Len(Ranges)
      BY <1>4
    <2>2. seqs[m][q] \in Ranges[m][1] .. Ranges[m][2] - 1 /\ m \in 1 .. Len(Ranges)
      BY <1>4
    <2>3. seqs[n][p] \notin Ranges[m][1] .. Ranges[m][2] - 1
      BY <1>6, <2>1, <2>2, RangesDisjoint
    <2> QED
      BY <2>2, <2>3
  <1>7. Once(rest)
    BY <1>3, <1>5, <1>6, FlatOnce
  <1>8. ASSUME NEW x \in 1 .. Len(GroupChunks), NEW z \in 1 .. Len(rest)
        PROVE  GroupChunks[x] # rest[z]
    <2>1. PICK n \in 1 .. Len(seqs) : \E p \in 1 .. Len(seqs[n]) :
            z = Before(seqs, n - 1) + p /\ rest[z] = seqs[n][p]
      BY <1>3, PlaceInPart
    <2>2. PICK p \in 1 .. Len(seqs[n]) : rest[z] = seqs[n][p]
      BY <2>1
    <2>3. seqs[n][p] \in Ranges[n][1] .. Ranges[n][2] - 1 /\ n \in 1 .. Len(Ranges)
      BY <1>4
    <2>4. GroupChunks[x] \notin Ranges[n][1] .. Ranges[n][2] - 1
      BY <2>3, GroupOrRange
    <2> QED
      BY <2>2, <2>3, <2>4
  <1>9. AllChunks = GroupChunks \o rest
    BY <1>3 DEF AllChunks
  <1> HIDE DEF rest
  <1>10. Once(GroupChunks \o rest)
    BY <1>2, <1>3, <1>7, <1>8, ConcatOnce
  <1> QED
    BY <1>9, <1>10

-----------------------------------------------------------------------------
(***************************************************************************)
(* The streams                                                             *)
(***************************************************************************)
\* The words of one chunk are no more than it is counted for.
LEMMA ChunkNeeds ==
  ASSUME FeaturesKnown, Supported, stage # "exit", NEW c \in Chunk
  PROVE  /\ GatherNeed(gather_info[c]) \in Nat
         /\ Len(ColumnSlots(c)) <= GatherNeed(gather_info[c])
         /\ ScatterNeed(scatter_info[c]) \in Nat
         /\ Len(RowSlots(c)) <= ScatterNeed(scatter_info[c])
         /\ ReductionNeed(reduction_info[c]) \in Nat
         /\ Len(RoundSlots(c)) <= ReductionNeed(reduction_info[c])
  <1>1. PICK r \in RowShapes, s \in ColumnShapes :
          /\ gather_info[c] = GatherInfo(s)
          /\ scatter_info[c] = ScatterInfo(r)
          /\ reduction_info[c] = ReductionInfo(r)
    BY DEF FeaturesKnown
  <1>2. s \in [Lane -> Nat]
    BY DynVecAssumption
  <1>3. Vector > 4 \/ OrderOf(r) # "DisOrder"
    <2>1. Vector > 4 \/ ScatterInfo(r).order # "DisOrder"
      BY <1>1 DEF Supported
    <2> QED
      BY <2>1 DEF ScatterInfo
  <1>4. /\ GatherNeed(GatherInfo(s)) \in Nat
        /\ Len(GatherSlots(GatherInfo(s))) <= GatherNeed(GatherInfo(s))
    BY <1>2, ColumnNeed
  <1>5. /\ ReductionNeed(ReductionInfo(r)) \in Nat
        /\ Len(ReductionSlots(ReductionInfo(r))) <= ReductionNeed(ReductionInfo(r))
    BY <1>3, RoundsNeed
  <1> QED
    BY <1>1, <1>4, <1>5, RowNeed DEF ColumnSlots, RowSlots, RoundSlots

\* What is laid out fits, in every state of the invariant.
LEMMA Fit ==
  ASSUME IInv
  PROVE  StreamsFit
  <1> DEFINE places == 1 .. Len(CountedRows)
             rowNeed == [n \in places |-> ScatterNeed(scatter_info[CountedRows[n]])]
  <1> SUFFICES ASSUME stage = "optimize"
               PROVE  /\ Len(data_new) <= NumChunks * Vector
                      /\ Len(gather_new) <= SumOver([c \in Chunk |-> GatherNeed(gather_info[c])], Chunk)
                      /\ Len(scatter_new) <= SumOver(rowNeed, places)
                      /\ Len(reduction_new)
                           <= SumOver([c \in Chunk |-> ReductionNeed(reduction_info[c])], Chunk)
    BY DEF StreamsFit
  <1>1. Compiled /\ stage # "exit"
    BY DEF Compiled
  <1>2. StepInv /\ Supported /\ IsInjective(group_order) /\ IsInjective(range_order)
    BY <1>1 DEF IInv, OrdersOnce
  <1>3. G!IInv /\ OrdersKnown /\ FeaturesKnown
    BY <1>1, <1>2, CompiledFacts
  <1>4. KeysOnce
    <2>1. /\ DOMAIN group_order = 1 .. Len(group_order)
          /\ DOMAIN range_order = 1 .. Len(range_order)
      BY <1>3 DEF OrdersKnown
    <2> QED
      BY <1>2, <1>3, <2>1 DEF KeysOnce, Once, IsInjective
  <1>5. Once(AllChunks) /\ IsFiniteSet(Chunk)
    BY <1>3, <1>4, AllChunksOnce, ChunksCount
  <1>6. AllChunks \in Seq(Chunk) /\ RowChunks \in Seq(Chunk)
    BY <1>3, ChunksFacts
  <1>7. /\ \A n \in 1 .. Len(AllChunks) : AllChunks[n] \in Chunk
        /\ \A n \in 1 .. Len(RowChunks) : RowChunks[n] \in Chunk
    BY <1>6
  <1>8. /\ AreSeqs(DataWords) /\ Len(DataWords) = Len(AllChunks)
        /\ AreSeqs(ColumnWords) /\ Len(ColumnWords) = Len(AllChunks)
        /\ AreSeqs(RowWords) /\ Len(RowWords) = Len(RowChunks)
        /\ AreSeqs(RoundWords) /\ Len(RoundWords) = Len(AllChunks)
    BY <1>3, WordsFacts
  <1>9. /\ data_new = FlattenSeq(DataWords) /\ gather_new = FlattenSeq(ColumnWords)
        /\ scatter_new = FlattenSeq(RowWords) /\ reduction_new = FlattenSeq(RoundWords)
    BY <1>1, <1>2 DEF StepInv, StreamsLaid
  <1>10. Len(data_new) <= NumChunks * Vector
    <2>1. \A n \in 1 .. Len(DataWords) : Len(DataWords[n]) = Vector
      BY <1>3, <1>7, <1>8, ChunkWords DEF DataWords
    <2>2. Len(FlattenSeq(DataWords)) = Len(DataWords) * Vector
      <3>1. AreSeqs(DataWords) /\ Vector \in Nat
        BY <1>8, VectorAssumption
      <3> QED
        BY <2>1, <3>1, EqualParts
    <2>3. Len(AllChunks) <= NumChunks /\ Len(AllChunks) \in Nat /\ NumChunks \in Nat
      BY <1>5, <1>6, OnceIsShort, GroupingHolds
    <2> DEFINE n == Len(AllChunks)
    <2>4. Len(data_new) = n * Vector
      BY <1>8, <1>9, <2>2
    <2> HIDE DEF n
    <2>5. n * Vector <= NumChunks * Vector
      <3>1. n \in Nat /\ n <= NumChunks /\ NumChunks \in Nat
        BY <2>3 DEF n
      <3>2. CASE Vector = 4
        BY <3>1, <3>2
      <3>3. CASE Vector = 8
        BY <3>1, <3>3
      <3>4. CASE Vector = 16
        BY <3>1, <3>4
      <3> QED
        BY <3>2, <3>3, <3>4, VectorAssumption
    <2> QED
      BY <2>4, <2>5
  <1>11. Len(gather_new) <= SumOver([c \in Chunk |-> GatherNeed(gather_info[c])], Chunk)
    <2> DEFINE need == [c \in Chunk |-> GatherNeed(gather_info[c])]
    <2>1. need \in [Chunk -> Nat]
      BY <1>1, <1>2, <1>3, ChunkNeeds
    <2>2. \A n \in 1 .. Len(AllChunks) : Len(ColumnWords[n]) <= need[AllChunks[n]]
      BY <1>1, <1>2, <1>3, <1>7, ChunkNeeds DEF ColumnWords
    <2> HIDE DEF need
    <2>3. Len(FlattenSeq(ColumnWords)) <= SumOver(need, Chunk)
      BY <1>5, <1>6, <1>8, <2>1, <2>2, LaidOutFits
    <2> QED
      BY <1>9, <2>3 DEF need
  <1>12. Len(scatter_new) <= SumOver(rowNeed, places)
    <2>1. CountedRows = RowChunks
      BY DEF CountedRows, RowChunks, GroupChunks, Ranges, FirstsOfRanges
    <2> DEFINE list == [n \in places |-> n]
    <2>2. Len(CountedRows) \in Nat /\ Len(CountedRows) = Len(RowWords)
      BY <1>6, <1>8, <2>1
    <2>3. IsFiniteSet(places)
      BY <2>2, FS_Interval
    <2>4. /\ list \in Seq(places) /\ Len(list) = Len(CountedRows)
          /\ \A n \in 1 .. Len(list) : list[n] = n /\ n \in places
      BY <2>2
    <2>5. Once(list)
      BY <2>4 DEF Once
    <2>6. rowNeed \in [places -> Nat]
      BY <1>1, <1>2, <1>3, <1>7, <2>1, ChunkNeeds
    <2>7. \A n \in places : Len(RowWords[n]) <= rowNeed[n]
      BY <1>1, <1>2, <1>3, <1>7, <2>1, ChunkNeeds DEF RowWords
    <2> HIDE DEF places, rowNeed, list
    <2>8. Len(RowWords) = Len(list) /\ \A n \in 1 .. Len(list) : Len(RowWords[n]) <= rowNeed[list[n]]
      BY <2>2, <2>4, <2>7
    <2>9. Len(FlattenSeq(RowWords)) <= SumOver(rowNeed, places)
      BY <1>8, <2>3, <2>4, <2>5, <2>6, <2>8, LaidOutFits
    <2> QED
      BY <1>9, <2>9
  <1>13. Len(reduction_new) <= SumOver([c \in Chunk |-> ReductionNeed(reduction_info[c])], Chunk)
    <2> DEFINE need == [c \in Chunk |-> ReductionNeed(reduction_info[c])]
    <2>1. need \in [Chunk -> Nat]
      BY <1>1, <1>2, <1>3, ChunkNeeds
    <2>2. \A n \in 1 .. Len(AllChunks) : Len(RoundWords[n]) <= need[AllChunks[n]]
      BY <1>1, <1>2, <1>3, <1>7, ChunkNeeds DEF RoundWords
    <2> HIDE DEF need
    <2>3. Len(FlattenSeq(RoundWords)) <= SumOver(need, Chunk)
      BY <1>5, <1>6, <1>8, <2>1, <2>2, LaidOutFits
    <2> QED
      BY <1>9, <2>3 DEF need
  <1> QED
    BY <1>10, <1>11, <1>12, <1>13

-----------------------------------------------------------------------------
(***************************************************************************)
(* The invariant                                                           *)
(***************************************************************************)
\* When compilation begins nothing is laid out, and every chunk has a plan.
LEMMA InitOnce == Init => OrdersOnce /\ Supported
  <1> SUFFICES ASSUME Init PROVE OrdersOnce /\ Supported
    OBVIOUS
  <1>1. PICK rows \in [Chunk -> RowShapes] :
          /\ scatter_info = [c \in Chunk |-> ScatterInfo(rows[c])]
          /\ stage = IF \E c \in Chunk : ReductionUnsupported(rows[c])
                       THEN "exit" ELSE "generate"
    BY DEF Init
  <1>2. OrdersOnce
    BY <1>1 DEF OrdersOnce, Compiled
  <1>3. Supported
    <2> SUFFICES ASSUME stage # "exit", ~(Vector > 4), NEW c \in Chunk
                 PROVE  scatter_info[c].order # "DisOrder"
      BY DEF Supported
    <2>1. ~ReductionUnsupported(rows[c])
      BY <1>1
    <2>2. OrderOf(rows[c]) # "DisOrder"
      BY <2>1, VectorAssumption DEF ReductionUnsupported
    <2> QED
      BY <1>1, <2>2 DEF ScatterInfo, OrderedInfo
  <1> QED
    BY <1>2, <1>3

\* The two maps list every key once, and the features do not change.
LEMMA NextOnce ==
  ASSUME IInv, [Next]_vars
  PROVE  OrdersOnce' /\ Supported'
  <1>1. StepInv /\ OrdersOnce /\ Supported
    BY DEF IInv
  <1>2. Supported'
    <2>1. scatter_info' = scatter_info /\ (stage' # "exit" => stage # "exit")
      BY <1>1 DEF Next, GenerateInformation, TransformData, OptimizationState, GroupIteration,
         BeginRange, RangeIteration, NextLoop, Return, TailIteration, Finish, Running,
         arrays, vars
    <2> QED
      BY <1>1, <2>1 DEF Supported
  <1>3. CASE TransformData
    <2>1. /\ pc = "done"
          /\ group_order' \in SetToSeqs(G!Present)
          /\ range_order' \in SetToSeqs({k \in G!Present : same_write_pattern_map[k] # <<>>})
      BY <1>3 DEF TransformData
    <2>2. \A S, s : s \in SetToSeqs(S) => IsInjective(s)
      BY DEF SetToSeqs, IsInjective
    <2> QED
      BY <1>2, <2>1, <2>2 DEF OrdersOnce
  <1>4. CASE ~TransformData
    <2>1. group_order' = group_order /\ range_order' = range_order /\ (Compiled' => Compiled)
      BY <1>1, <1>4 DEF Next, GenerateInformation, OptimizationState, GroupIteration,
         BeginRange, RangeIteration, NextLoop, Return, TailIteration, Finish, Running,
         streams, vars, Compiled
    <2> QED
      BY <1>1, <1>2, <2>1 DEF OrdersOnce
  <1> QED
    BY <1>3, <1>4

\* In every state: StepInv, no key is listed twice, every chunk has a plan.
THEOREM CompilerKeepsTheInvariant == HashSeparates => (Spec => []IInv)
  <1> SUFFICES ASSUME HashSeparates PROVE Spec => []IInv
    OBVIOUS
  <1>1. Init => IInv
    BY InitStep, InitOnce DEF IInv
  <1>2. IInv /\ [Next]_vars => IInv'
    <2> SUFFICES ASSUME IInv, [Next]_vars PROVE IInv'
      OBVIOUS
    <2>1. StepInv'
      BY NextStep DEF IInv
    <2> QED
      BY <2>1, NextOnce DEF IInv
  <1> QED
    BY <1>1, <1>2, PTL DEF Spec

\* What transform_data lays out fits into what malloc_new_data has set aside for
\* it, whatever the chunks and the order of the two maps.
THEOREM StreamsFitTheirMemory == HashSeparates => (Spec => []StreamsFit)
  <1> SUFFICES ASSUME HashSeparates PROVE Spec => []StreamsFit
    OBVIOUS
  <1>1. IInv => StreamsFit
    BY Fit
  <1> QED
    BY <1>1, CompilerKeepsTheInvariant, PTL

-----------------------------------------------------------------------------
(***************************************************************************)
(* Elements and their terms                                                *)
(***************************************************************************)
\* A lane of a chunk is an element of the whole vectors.
LEMMA LaneIsElement ==
  ASSUME NEW c \in Chunk, NEW l \in Lane
  PROVE  /\ c * Vector + l \in Element /\ c * Vector + l \in Nat
         /\ c * Vector + l < NumChunks * Vector
  <1>1. c \in Nat /\ c + 1 <= NumChunks /\ l \in Nat /\ l < Vector /\ NumChunks \in Nat
    BY GroupingHolds, VectorAssumption DEF Chunk, Lane
  <1>2. c * Vector + l \in Nat /\ c * Vector + l < NumChunks * Vector
    <2>1. CASE Vector = 4
      BY <1>1, <2>1
    <2>2. CASE Vector = 8
      BY <1>1, <2>2
    <2>3. CASE Vector = 16
      BY <1>1, <2>3
    <2> QED
      BY <2>1, <2>2, <2>3, VectorAssumption
  <1> DEFINE e == c * Vector + l
             whole == NumChunks * Vector
             rest == Cardinality(DOMAIN TailRow)
  <1>3. e \in Nat /\ e < whole /\ whole \in Nat /\ rest \in Nat /\ Element = 0 .. whole + rest - 1
    BY <1>2, ElementCount DEF Element
  <1> HIDE DEF e, whole, rest
  <1>4. e \in Element
    BY <1>3
  <1> QED
    BY <1>2, <1>4 DEF e

\* No two lanes are one element.
LEMMA LanesApart ==
  ASSUME NEW c \in Chunk, NEW d \in Chunk, NEW l \in Lane, NEW m \in Lane,
         c * Vector + l = d * Vector + m
  PROVE  c = d /\ l = m
  <1>1. c \in Nat /\ d \in Nat /\ l \in Nat /\ l < Vector /\ m \in Nat /\ m < Vector
    BY GroupingHolds, VectorAssumption DEF Chunk, Lane
  <1>2. CASE Vector = 4
    BY <1>1, <1>2
  <1>3. CASE Vector = 8
    BY <1>1, <1>3
  <1>4. CASE Vector = 16
    BY <1>1, <1>4
  <1> QED
    BY <1>2, <1>3, <1>4, VectorAssumption

\* The terms that the lanes take from the chunks of C.
TermsIn(C) == [l \in Lane |-> {A!Term(c * Vector + l) : c \in C}]

\* No lane takes the term of another.
LEMMA TermsInApart ==
  ASSUME NEW C \in SUBSET Chunk
  PROVE  Apart(TermsIn(C))
  <1> SUFFICES ASSUME NEW l \in Lane, NEW m \in Lane, l # m
               PROVE  TermsIn(C)[l] \cap TermsIn(C)[m] = {}
    BY DEF Apart
  <1> SUFFICES ASSUME NEW c \in C, NEW d \in C,
                      A!Term(c * Vector + l) = A!Term(d * Vector + m)
               PROVE  FALSE
    BY DEF TermsIn
  <1>1. c * Vector + l = d * Vector + m
    BY DEF A!Term
  <1> QED
    BY <1>1, LanesApart

\* What the output holds of the elements of D in row r.
TermsAt(D, r) == {A!Before(r)} \cup {A!Term(e) : e \in {f \in D : row_ptr[f] = r}}

\* The bag of the abstract specification is that of the kernel.
LEMMA SameBag == \A S : A!SetToBag(S) = SetToBag(S)
  BY DEF A!SetToBag, SetToBag

\* So is its addition.
LEMMA SamePlus == \A a, b : A!(+)(a, b) = a (+) b
  BY DEF A!(+), (+)

\* The sum over the elements of D, row by row.
LEMMA SumByRow ==
  ASSUME NEW D
  PROVE  A!Sum(D) = [r \in Output |-> SetToBag(TermsAt(D, r))]
  BY SameBag DEF A!Sum, TermsAt

\* The lanes hold the chunks of C, each lane for one row; perms are the
\* permutations of an unordered row.
OneRowEach(C, ix) == \A c \in C : \A l \in Lane : row_ptr[c * Vector + l] = ix[l]
LanesHold(lanes, C) == \A l \in Lane : lanes[l] = SetToBag(TermsIn(C)[l])
RoundsOfRow(perms, ix) == OrderOf(ix) = "DisOrder" => perms = ReductionSlots(ReductionInfo(ix))

\* A store adds the elements of the chunks that its lanes hold, each to its row.
LEMMA StoreAdds ==
  ASSUME NEW D \in SUBSET Element, y = A!Sum(D),
         NEW C \in SUBSET Chunk, D \cap ElementsOf(C) = {},
         NEW ix \in [Lane -> Nat], OneRowEach(C, ix),
         NEW lanes, LanesHold(lanes, C), NEW perms, RoundsOfRow(perms, ix)
  PROVE  Accumulated(y, RowCode(ScatterInfo(ix), ReductionInfo(ix)),
                     GatherSlots(ScatterInfo(ix)), perms, lanes)
           = A!Sum(D \cup ElementsOf(C))
  <1> USE DEF OneRowEach, LanesHold, RoundsOfRow
  <1> DEFINE T == TermsIn(C)
             Y == [r \in Output |-> TermsAt(D, r)]
  <1>1. Apart(T)
    BY TermsInApart
  <1>2. DOMAIN y = Output /\ \A r \in DOMAIN y : y[r] = SetToBag(Y[r])
    <2>1. y = [r \in Output |-> SetToBag(TermsAt(D, r))]
      BY SumByRow
    <2> QED
      BY <2>1
  <1>3. ASSUME NEW r \in DOMAIN y, NEW l \in Lane
        PROVE  Y[r] \cap T[l] = {}
    <2> SUFFICES ASSUME NEW t \in Y[r], t \in T[l] PROVE FALSE
      OBVIOUS
    <2>1. PICK c \in C : t = A!Term(c * Vector + l)
      BY DEF TermsIn
    <2>2. t[1] = c * Vector + l /\ c * Vector + l \in ElementsOf(C)
      BY <2>1 DEF A!Term, ElementsOf
    <2>3. c * Vector + l \in Nat
      BY LaneIsElement
    <2>4. t[1] \in D \/ t[1] = -1
      BY <1>2 DEF TermsAt, A!Term, A!Before
    <2> QED
      BY <2>2, <2>3, <2>4
  <1>4. ASSUME NEW r \in Output
        PROVE  TermsAt(D, r) \cup TermsOf(T, RowLanes(ix, r)) = TermsAt(D \cup ElementsOf(C), r)
    <2>1. TermsOf(T, RowLanes(ix, r)) = {A!Term(e) : e \in {f \in ElementsOf(C) : row_ptr[f] = r}}
      <3>1. ASSUME NEW t \in TermsOf(T, RowLanes(ix, r))
            PROVE  t \in {A!Term(e) : e \in {f \in ElementsOf(C) : row_ptr[f] = r}}
        <4>1. PICK l \in Lane : ix[l] = r /\ t \in T[l]
          BY <3>1 DEF TermsOf, RowLanes
        <4>2. PICK c \in C : t = A!Term(c * Vector + l)
          BY <4>1 DEF TermsIn
        <4>3. c * Vector + l \in ElementsOf(C) /\ row_ptr[c * Vector + l] = r
          BY <4>1 DEF ElementsOf
        <4> QED
          BY <4>2, <4>3
      <3>2. ASSUME NEW e \in ElementsOf(C), row_ptr[e] = r
            PROVE  A!Term(e) \in TermsOf(T, RowLanes(ix, r))
        <4>1. PICK c \in C, l \in Lane : e = c * Vector + l
          BY DEF ElementsOf
        <4>2. ix[l] = r
          BY <3>2, <4>1
        <4>3. A!Term(e) \in T[l] /\ l \in RowLanes(ix, r)
          BY <4>1, <4>2 DEF TermsIn, RowLanes
        <4> QED
          BY <4>3 DEF TermsOf
      <3> QED
        BY <3>1, <3>2
    <2> QED
      BY <2>1 DEF TermsAt
  <1> HIDE DEF T, Y
  <1>5. Accumulated(y, RowCode(ScatterInfo(ix), ReductionInfo(ix)),
                    GatherSlots(ScatterInfo(ix)), perms, lanes)
          = [r \in DOMAIN y |-> SetToBag(Y[r] \cup TermsOf(T, RowLanes(ix, r)))]
    <2>1. \A l \in Lane : lanes[l] = SetToBag(T[l])
      BY DEF T
    <2>2. \A r \in DOMAIN y : y[r] = SetToBag(Y[r])
      BY <1>2
    <2>3. \A r \in DOMAIN y : \A l \in Lane : Y[r] \cap T[l] = {}
      BY <1>3
    <2>4. OrderOf(ix) = "DisOrder" => perms = ReductionSlots(ReductionInfo(ix))
      OBVIOUS
    <2>5. ix \in [Lane -> Nat]
      OBVIOUS
    <2>6. Filled(y, Y) /\ Fresh(y, Y, T)
      BY <2>2, <2>3 DEF Filled, Fresh
    <2>7. Accumulated(y, RowCode(ScatterInfo(ix), ReductionInfo(ix)),
                      GatherSlots(ScatterInfo(ix)), perms, lanes) = AddedTo(y, Y, T, ix)
      BY <1>1, <2>1, <2>4, <2>5, <2>6, AccumulatedIsSum
    <2> QED
      BY <2>7 DEF AddedTo
  <1>6. [r \in DOMAIN y |-> SetToBag(Y[r] \cup TermsOf(T, RowLanes(ix, r)))]
          = [r \in Output |-> SetToBag(TermsAt(D \cup ElementsOf(C), r))]
    BY <1>2, <1>4 DEF Y
  <1> QED
    BY <1>5, <1>6, SumByRow

-----------------------------------------------------------------------------
(***************************************************************************)
(* What one iteration reads                                                *)
(***************************************************************************)
\* Words that are in place are what the loop fetches.
LEMMA FetchedWords ==
  ASSUME NEW stream, IsSeq(stream), NEW read \in Nat, NEW width, NEW words, IsSeq(words),
         InPlace(stream, read, width, words)
  PROVE  /\ Fetch(stream, read, width) = words
         /\ \A p \in 1 .. width : read + p <= Len(stream) /\ stream[read + p] = words[p]
  <1> DEFINE n == Len(stream)
  <1>1. width = Len(words) /\ read + width <= n /\ SubSeq(stream, read + 1, read + width) = words
    BY DEF InPlace
  <1>2. PICK S, T : stream \in Seq(S) /\ words \in Seq(T)
    BY DEF IsSeq
  <1>3. width \in Nat /\ n \in Nat
    BY <1>1, <1>2
  <1> HIDE DEF n
  <1>4. ASSUME NEW p \in 1 .. width
        PROVE  read + p <= n /\ stream[read + p] = words[p]
    <2>1. p \in Nat /\ p <= width /\ read + p <= n /\ 1 <= p
      BY <1>1, <1>3
    <2>2. /\ read + 1 \in Int /\ read + width \in Int
          /\ p \in 1 .. (read + width) - (read + 1) + 1
          /\ (read + 1) + p - 1 = read + p
      BY <1>3, <2>1
    <2>3. SubSeq(stream, read + 1, read + width)[p] = stream[(read + 1) + p - 1]
      BY <1>2, <2>2
    <2> QED
      BY <1>1, <2>1, <2>2, <2>3
  <1>5. words = [p \in 1 .. width |-> words[p]]
    BY <1>1, <1>2
  <1>6. Fetch(stream, read, width) = [p \in 1 .. width |-> words[p]]
    BY <1>4 DEF Fetch, n
  <1> QED
    BY <1>4, <1>5, <1>6 DEF n

\* The streams of a compiled kernel are sequences, and its cursors in them.
LEMMA StreamsAreSeqs ==
  ASSUME StepInv, stage = "kernel"
  PROVE  /\ IsSeq(data_new) /\ cursor.data \in Nat
         /\ IsSeq(gather_new) /\ cursor.gather \in Nat
         /\ IsSeq(scatter_new) /\ cursor.scatter \in Nat
         /\ IsSeq(reduction_new) /\ cursor.reduction \in Nat
  <1>1. /\ data_new = FlattenSeq(DataWords) /\ gather_new = FlattenSeq(ColumnWords)
        /\ scatter_new = FlattenSeq(RowWords) /\ reduction_new = FlattenSeq(RoundWords)
    BY DEF StepInv, StreamsLaid, Compiled
  <1>2. /\ AreSeqs(DataWords) /\ AreSeqs(ColumnWords) /\ AreSeqs(RowWords) /\ AreSeqs(RoundWords)
    BY CursorFacts, WordsFacts
  <1>3. ASSUME NEW seqs, AreSeqs(seqs) PROVE IsSeq(FlattenSeq(seqs))
    <2>1. PICK T : seqs \in Seq(Seq(T))
      BY <1>3 DEF AreSeqs
    <2>2. FlattenSeq(seqs) \in Seq(T)
      BY <2>1, FlattenFacts
    <2> QED
      BY <2>2 DEF IsSeq
  <1>4. IsSeq(data_new) /\ IsSeq(gather_new) /\ IsSeq(scatter_new) /\ IsSeq(reduction_new)
    BY <1>1, <1>2, <1>3
  <1>5. /\ cursor.data \in 0 .. Len(data_new) /\ cursor.gather \in 0 .. Len(gather_new)
        /\ cursor.scatter \in 0 .. Len(scatter_new) /\ cursor.reduction \in 0 .. Len(reduction_new)
    BY CursorsInside
  <1>6. ASSUME NEW n, NEW m \in 0 .. n PROVE m \in Nat
    OBVIOUS
  <1> QED
    BY <1>4, <1>5, <1>6

\* The lanes hold the terms of the elements of the chunk at hand.
LEMMA ProductIsTerms ==
  ASSUME StepInv, ArraysKnown, stage = "kernel",
         NEW c \in Chunk, loop.column = ColumnCode(gather_info[c]), OperandsInPlace(c)
  PROVE  \A l \in Lane : Product[l] = SetToBag({A!Term(c * Vector + l)})
  <1> DEFINE ix == ColumnsOf(c)
             slots == GatherSlots(GatherInfo(ix))
             code == ColumnCode(GatherInfo(ix))
             width == GatherWidth(loop.column)
             data == [l \in Lane |-> IF cursor.data + l < Len(data_new)
                                       THEN data_new[cursor.data + l + 1] ELSE NoWord]
             from == GatheredFrom(loop.column, Fetch(gather_new, cursor.gather, width))
  <1>1. /\ IsSeq(data_new) /\ cursor.data \in Nat /\ IsSeq(gather_new) /\ cursor.gather \in Nat
    BY StreamsAreSeqs
  <1>2. FeaturesKnown
    BY DEF StepInv
  <1>3. IsSeq(DataSlots(c)) /\ IsSeq(ColumnSlots(c))
    BY <1>2, ChunkWords
  <1>4. /\ InPlace(data_new, cursor.data, Vector, DataSlots(c))
        /\ InPlace(gather_new, cursor.gather, width, ColumnSlots(c))
    BY DEF OperandsInPlace
  <1>5. ix \in [Lane -> Nat] /\ gather_info[c] = GatherInfo(ix)
    <2>1. ix \in ColumnShapes /\ gather_info[c] = GatherInfo(ix)
      BY DEF ArraysKnown
    <2> QED
      BY <2>1, DynVecAssumption
  <1> HIDE DEF ix
  <1>6. from = ix
    <2>1. loop.column = code /\ ColumnSlots(c) = slots
      BY <1>5 DEF ColumnSlots
    <2>2. Fetch(gather_new, cursor.gather, width) = slots
      <3> HIDE DEF width
      <3> QED
        BY <1>1, <1>3, <1>4, <2>1, FetchedWords
    <2>3. from = GatheredFrom(code, slots)
      BY <2>1, <2>2
    <2> QED
      BY <1>5, <2>3, GatheredIsIndex
  <1>7. ASSUME NEW l \in Lane
        PROVE  data[l] = c * Vector + l
    <2>1. l + 1 \in 1 .. Vector /\ l \in Nat
      BY VectorAssumption DEF Lane
    <2>2. /\ cursor.data + (l + 1) <= Len(data_new)
          /\ data_new[cursor.data + (l + 1)] = DataSlots(c)[l + 1]
      BY <1>1, <1>3, <1>4, <2>1, FetchedWords
    <2>3. DataSlots(c)[l + 1] = c * Vector + l
      <3> DEFINE lo == c * Vector
                 hi == (c + 1) * Vector
      <3>1. lo \in Int /\ hi \in Int /\ hi - lo = Vector
        BY VectorAssumption, GroupingHolds DEF Chunk
      <3> HIDE DEF lo, hi
      <3>2. l + 1 \in 1 .. hi - lo
        BY <2>1, <3>1
      <3>3. Between(lo, hi)[l + 1] = lo + (l + 1) - 1
        BY <3>2 DEF Between
      <3>4. lo + (l + 1) - 1 = lo + l
        BY <2>1, <3>1
      <3> QED
        BY <3>3, <3>4 DEF lo, hi, DataSlots
    <2>4. cursor.data + (l + 1) = cursor.data + l + 1
      BY <1>1, <2>1
    <2>5. cursor.data + l < Len(data_new)
      <3> DEFINE n == Len(data_new)
      <3>1. n \in Nat
        <4>1. PICK T : data_new \in Seq(T)
          BY <1>1 DEF IsSeq
        <4> QED
          BY <4>1
      <3>2. cursor.data + (l + 1) <= n
        BY <2>2
      <3> HIDE DEF n
      <3>3. cursor.data + l < n
        BY <1>1, <2>1, <3>1, <3>2
      <3> QED
        BY <3>3 DEF n
    <2> QED
      BY <2>2, <2>3, <2>4, <2>5
  <1>8. Product = [l \in Lane |-> SetToBag({<<data[l], from[l]>>})]
    BY DEF Product
  <1> HIDE DEF data, from
  <1>9. ASSUME NEW l \in Lane
        PROVE  Product[l] = SetToBag({A!Term(c * Vector + l)})
    <2>1. Product[l] = SetToBag({<<data[l], from[l]>>})
      BY <1>8
    <2>2. from[l] = column_ptr[c * Vector + l]
      BY <1>6 DEF ix, ColumnsOf
    <2> QED
      BY <1>7, <2>1, <2>2 DEF A!Term
  <1> QED
    BY <1>9

-----------------------------------------------------------------------------
(***************************************************************************)
(* What has been read and what is held                                     *)
(***************************************************************************)
FirstChunks(p) == {AllChunks[n] : n \in 1 .. p}

\* A multiple of the width is passed when its factor is.
LEMMA PassedFactor ==
  ASSUME NEW m \in Int, NEW p \in Int
  PROVE  m * Vector <= p * Vector <=> m <= p
  <1>1. CASE Vector = 4
    BY <1>1
  <1>2. CASE Vector = 8
    BY <1>2
  <1>3. CASE Vector = 16
    BY <1>3
  <1> QED
    BY <1>1, <1>2, <1>3, VectorAssumption

\* The data cursor counts the chunks that the loops have passed.
LEMMA DataPosition ==
  ASSUME StepInv, stage \in {"kernel", "tail", "done"}
  PROVE  /\ ChunksPassed \in 0 .. Len(AllChunks) /\ Len(AllChunks) \in Nat
         /\ cursor.data = ChunksPassed * Vector
  <1>1. /\ G!IInv /\ OrdersKnown /\ FeaturesKnown
        /\ cursor.data = Before(DataWords, ChunksPassed)
    BY CursorFacts
  <1>2. ChunksPassed \in 0 .. Len(AllChunks)
    BY PassedFacts
  <1>3. AllChunks \in Seq(Chunk)
    BY <1>1, ChunksFacts
  <1> DEFINE len == Len(AllChunks)
             N == {n \in Nat : n <= len => Before(DataWords, n) = n * Vector}
  <1>4. len \in Nat
    BY <1>3
  <1>5. 0 \in N
    <2>1. PICK T : DataWords \in Seq(Seq(T))
      BY <1>1, WordsFacts DEF AreSeqs
    <2>2. Before(DataWords, 0) = 0
      BY <2>1, FlattenFacts
    <2> QED
      BY <2>2, VectorAssumption
  <1>6. ASSUME NEW n \in Nat, n \in N
        PROVE  n + 1 \in N
    <2> SUFFICES ASSUME n + 1 <= len PROVE Before(DataWords, n + 1) = (n + 1) * Vector
      OBVIOUS
    <2>1. n + 1 \in 1 .. Len(AllChunks) /\ (n + 1) - 1 = n /\ n <= len
      BY <1>4
    <2>2. Before(DataWords, n + 1) = Before(DataWords, (n + 1) - 1) + Vector
      BY <1>1, <2>1, WordsAt
    <2>3. Before(DataWords, n) = n * Vector
      BY <1>6, <2>1
    <2>4. n * Vector + Vector = (n + 1) * Vector
      <3>1. CASE Vector = 4
        BY <3>1
      <3>2. CASE Vector = 8
        BY <3>2
      <3>3. CASE Vector = 16
        BY <3>3
      <3> QED
        BY <3>1, <3>2, <3>3, VectorAssumption
    <2> QED
      BY <2>1, <2>2, <2>3, <2>4
  <1> HIDE DEF N
  <1>7. \A n \in Nat : n \in N
    BY <1>5, <1>6, SetInduction
  <1>8. ChunksPassed \in Nat /\ ChunksPassed <= len
    BY <1>2, <1>4
  <1>9. Before(DataWords, ChunksPassed) = ChunksPassed * Vector
    BY <1>7, <1>8 DEF N
  <1> QED
    BY <1>1, <1>2, <1>4, <1>9

\* The chunks that have been read are the first ones.
LEMMA ReadAre ==
  ASSUME NEW p \in Nat, p <= Len(AllChunks), Len(AllChunks) \in Nat, cursor.data = p * Vector
  PROVE  ReadChunks = FirstChunks(p)
  <1> DEFINE len == Len(AllChunks)
  <1>1. len \in Nat /\ p <= len
    OBVIOUS
  <1> HIDE DEF len
  <1>2. {m \in 1 .. len : m * Vector <= p * Vector} = 1 .. p
    <2>1. \A m \in 1 .. len : m * Vector <= p * Vector <=> m <= p
      BY PassedFactor
    <2> QED
      BY <1>1, <2>1
  <1> QED
    BY <1>2 DEF ReadChunks, FirstChunks, len

\* The keys are listed once.
LEMMA OrdersListOnce ==
  ASSUME IInv, Compiled
  PROVE  KeysOnce
  <1>1. OrdersKnown /\ OrdersOnce
    BY CompiledFacts DEF IInv
  <1> QED
    BY <1>1 DEF KeysOnce, OrdersOnce, Once, IsInjective, OrdersKnown

\* What has been read are chunks.
LEMMA ReadFacts ==
  ASSUME IInv, stage \in {"kernel", "tail", "done"}
  PROVE  ReadChunks = FirstChunks(ChunksPassed) /\ ReadChunks \subseteq Chunk
  <1>1. StepInv
    BY DEF IInv
  <1>2. /\ ChunksPassed \in 0 .. Len(AllChunks) /\ Len(AllChunks) \in Nat
        /\ cursor.data = ChunksPassed * Vector
    BY <1>1, DataPosition
  <1>3. AllChunks \in Seq(Chunk)
    BY <1>1, CursorFacts, ChunksFacts
  <1>4. ReadChunks = FirstChunks(ChunksPassed)
    BY <1>2, ReadAre
  <1>5. \A n \in 1 .. ChunksPassed : AllChunks[n] \in Chunk
    BY <1>2, <1>3
  <1> QED
    BY <1>4, <1>5 DEF FirstChunks

\* An iteration reads one chunk more, which has not been read before.
LEMMA ReadOneMore ==
  ASSUME IInv, stage = "kernel", AllChunks' = AllChunks,
         NEW c, c = AllChunks[ChunksPassed + 1], ChunksPassed + 1 \in 1 .. Len(AllChunks),
         cursor'.data = cursor.data + Vector
  PROVE  ReadChunks' = ReadChunks \cup {c} /\ c \in Chunk /\ c \notin ReadChunks
  <1> DEFINE p == ChunksPassed
             len == Len(AllChunks)
  <1>1. StepInv /\ KeysOnce /\ G!IInv
    BY OrdersListOnce DEF IInv, StepInv, Compiled
  <1>2. p \in 0 .. len /\ len \in Nat /\ cursor.data = p * Vector
    BY <1>1, DataPosition
  <1>3. AllChunks \in Seq(Chunk)
    BY <1>1, CursorFacts, ChunksFacts
  <1>4. ReadChunks = FirstChunks(p)
    BY ReadFacts
  <1>5. p \in Nat /\ p + 1 \in 1 .. len /\ len' = len
    BY <1>2
  <1> HIDE DEF p, len
  <1>6. cursor'.data = (p + 1) * Vector
    <2>1. p * Vector + Vector = (p + 1) * Vector
      <3>1. CASE Vector = 4
        BY <1>5, <3>1
      <3>2. CASE Vector = 8
        BY <1>5, <3>2
      <3>3. CASE Vector = 16
        BY <1>5, <3>3
      <3> QED
        BY <3>1, <3>2, <3>3, VectorAssumption
    <2> QED
      BY <1>2, <2>1
  <1>7. {m \in 1 .. len : m * Vector <= cursor'.data} = 1 .. p + 1
    <2>1. \A m \in 1 .. len : m * Vector <= (p + 1) * Vector <=> m <= p + 1
      BY <1>5, PassedFactor
    <2> QED
      BY <1>2, <1>5, <1>6, <2>1
  <1>8. ReadChunks' = {AllChunks[n] : n \in 1 .. p + 1}
    BY <1>5, <1>7 DEF ReadChunks, len
  <1>9. 1 .. p + 1 = (1 .. p) \cup {p + 1}
    BY <1>5
  <1>10. ReadChunks' = ReadChunks \cup {AllChunks[p + 1]}
    BY <1>4, <1>8, <1>9 DEF FirstChunks
  <1>11. Once(AllChunks)
    BY <1>1, AllChunksOnce
  <1>12. AllChunks[p + 1] \notin ReadChunks
    <2> SUFFICES ASSUME NEW n \in 1 .. p, AllChunks[n] = AllChunks[p + 1] PROVE FALSE
      BY <1>4 DEF FirstChunks
    <2>1. n \in 1 .. len /\ n # p + 1
      BY <1>2, <1>5
    <2> QED
      BY <1>5, <1>11, <2>1 DEF Once, len
  <1>13. AllChunks[p + 1] \in Chunk
    BY <1>3, <1>5 DEF len
  <1> QED
    BY <1>10, <1>12, <1>13 DEF p

\* A step that does not move the data cursor reads nothing.
LEMMA ReadNoMore ==
  ASSUME AllChunks' = AllChunks, cursor'.data = cursor.data
  PROVE  ReadChunks' = ReadChunks
  BY DEF ReadChunks

\* Before the kernel runs, nothing has been read and nothing is held.
LEMMA NothingRead ==
  ASSUME cursor.data = 0, inner = 0
  PROVE  ReadChunks = {} /\ HeldChunks = {}
  <1>1. ASSUME NEW m \in Int, 1 <= m PROVE ~(m * Vector <= 0)
    <2>1. CASE Vector = 4
      BY <1>1, <2>1
    <2>2. CASE Vector = 8
      BY <1>1, <2>2
    <2>3. CASE Vector = 16
      BY <1>1, <2>3
    <2> QED
      BY <2>1, <2>2, <2>3, VectorAssumption
  <1>2. \A m \in 1 .. Len(AllChunks) : m \in Int /\ 1 <= m
    OBVIOUS
  <1>3. {m \in 1 .. Len(AllChunks) : m * Vector <= cursor.data} = {}
    BY <1>1, <1>2
  <1> QED
    BY <1>3 DEF ReadChunks, HeldChunks

\* The stored elements are elements.
LEMMA StoredFacts ==
  ASSUME ReadChunks \subseteq Chunk
  PROVE  Stored \subseteq Element
  BY LaneIsElement DEF Stored, ElementsOf

\* The elements of chunks that are not stored are not stored either.
LEMMA ChunksApart ==
  ASSUME ReadChunks \subseteq Chunk, NEW C \in SUBSET Chunk, C \cap (ReadChunks \ HeldChunks) = {}
  PROVE  Stored \cap ElementsOf(C) = {}
  <1> SUFFICES ASSUME NEW c \in C, NEW l \in Lane, c * Vector + l \in Stored PROVE FALSE
    BY DEF ElementsOf
  <1>1. c * Vector + l \in Nat /\ c * Vector + l < NumChunks * Vector /\ NumChunks * Vector \in Nat
    BY LaneIsElement, ElementCount
  <1> DEFINE e == c * Vector + l
             whole == NumChunks * Vector
  <1>2. ~(whole <= e)
    <2> HIDE DEF e, whole
    <2>1. e \in Nat /\ e < whole /\ whole \in Nat
      BY <1>1 DEF e, whole
    <2> QED
      BY <2>1
  <1>3. e \in ElementsOf(ReadChunks \ HeldChunks)
    BY <1>2 DEF Stored
  <1>4. PICK d \in ReadChunks \ HeldChunks, m \in Lane : e = d * Vector + m
    BY <1>3 DEF ElementsOf
  <1>5. c = d
    BY <1>4, LanesApart
  <1> QED
    BY <1>4, <1>5

-----------------------------------------------------------------------------
(***************************************************************************)
(* The steps of the kernel                                                 *)
(***************************************************************************)
\* The index arrays stay what they are, and with them their sums.
LEMMA SumKept ==
  ASSUME NEW S, y' = A!Sum(S), Stored' = S, UNCHANGED <<row_ptr, column_ptr>>
  PROVE  (y = A!Sum(Stored))'
  <1>1. y' = [r \in Output |-> SetToBag(TermsAt(S, r))]
    BY SumByRow
  <1>2. \A r : TermsAt(S, r)' = TermsAt(S, r)
    BY DEF TermsAt, A!Term, A!Before
  <1>3. y' = [r \in Output |-> SetToBag(TermsAt(Stored', r))]
    BY <1>1
  <1> QED
    BY <1>3, SameBag DEF A!Sum, A!Term, A!Before, TermsAt

\* The rows of a chunk are natural numbers, and its row words those of its rows.
LEMMA RowsFacts ==
  ASSUME ArraysKnown, NEW c \in Chunk
  PROVE  /\ RowsOf(c) \in [Lane -> Nat]
         /\ \A l \in Lane : row_ptr[c * Vector + l] = RowsOf(c)[l]
         /\ scatter_info[c] = ScatterInfo(RowsOf(c))
         /\ reduction_info[c] = ReductionInfo(RowsOf(c))
         /\ RowSlots(c) = GatherSlots(ScatterInfo(RowsOf(c)))
         /\ RoundSlots(c) = ReductionSlots(ReductionInfo(RowsOf(c)))
  <1>1. /\ RowsOf(c) \in RowShapes
        /\ scatter_info[c] = ScatterInfo(RowsOf(c))
        /\ reduction_info[c] = ReductionInfo(RowsOf(c))
    BY DEF ArraysKnown
  <1>2. RowsOf(c) \in [Lane -> Nat]
    BY <1>1, DynVecAssumption
  <1>3. \A l \in Lane : row_ptr[c * Vector + l] = RowsOf(c)[l]
    BY DEF RowsOf
  <1> QED
    BY <1>1, <1>2, <1>3 DEF RowSlots, RoundSlots

\* What the elements of the tail are that have been added.
TailAdded == {e \in Element : NumChunks * Vector <= e /\ e < element}

\* One iteration of a group adds the elements of its chunk.
LEMMA GroupAdds ==
  ASSUME SumInv, GroupIteration
  PROVE  AllAdded' /\ Stored \subseteq Stored'
  <1> DEFINE c == Groups[at][iter + 1]
             ix == RowsOf(c)
  <1>1. /\ Running("group") /\ stage = "kernel" /\ stage' = "kernel" /\ iter < loop.count
        /\ UNCHANGED <<arrays, grouping, streams, program>>
        /\ inner' = inner /\ element' = element
        /\ cursor'.data = cursor.data + Vector
        /\ y' = Accumulated(y, loop.row,
                  Fetch(scatter_new, cursor.scatter, GatherWidth(loop.row)),
                  Fetch(reduction_new, cursor.reduction, ReductionWidth(loop.row)), Product)
    <2>1. cursor = [data |-> Before(DataWords, ChunksPassed),
                    gather |-> Before(ColumnWords, ChunksPassed),
                    scatter |-> Before(RowWords, RowsPassed),
                    reduction |-> Before(RoundWords, ChunksPassed),
                    range |-> RangesBegun]
      BY CursorFacts DEF SumInv, IInv, GroupIteration, Running
    <2>2. cursor'.data = cursor.data + Vector
      BY <2>1 DEF GroupIteration
    <2> QED
      BY <2>2 DEF GroupIteration, Running
  <1>2. IInv /\ StepInv /\ ArraysKnown /\ AllAdded
    BY DEF SumInv, IInv
  <1>3. /\ Fits(at, c)
        /\ ChunksPassed + 1 \in 1 .. Len(AllChunks) /\ AllChunks[ChunksPassed + 1] = c
        /\ at \in 1 .. Len(Groups)
    BY <1>1, <1>2, GroupPosition
  <1>4. inner = 0
    <2>1. ~Running("range")
      BY <1>1 DEF Running
    <2> QED
      BY <1>1, <1>2, <2>1, NoInner
  <1>5. HeldChunks = {} /\ HeldChunks' = {}
    BY <1>1, <1>4 DEF HeldChunks
  <1>6. /\ OperandsInPlace(c) /\ RowsInPlace(c)
        /\ InPlace(reduction_new, cursor.reduction, ReductionWidth(loop.row), RoundSlots(c))
    <2>1. same_feature_map[group_order[at]] = Groups[at]
      <3>1. Len(Groups) = Len(group_order)
        BY <1>1, <1>2, CursorFacts
      <3> QED
        BY <1>3, <3>1 DEF Groups
    <2> QED
      BY <1>1, <1>2, <2>1, InStep DEF StreamsInStep
  <1> HIDE DEF c
  <1>7. AllChunks' = AllChunks
    BY <1>1, WordsUnchanged
  <1>8. ReadChunks' = ReadChunks \cup {c} /\ c \in Chunk /\ c \notin ReadChunks
    BY <1>1, <1>2, <1>3, <1>7, ReadOneMore
  <1>9. ReadChunks \subseteq Chunk
    BY <1>1, <1>2, ReadFacts
  <1>10. /\ ix \in [Lane -> Nat]
         /\ \A l \in Lane : row_ptr[c * Vector + l] = ix[l]
         /\ RowSlots(c) = GatherSlots(ScatterInfo(ix))
         /\ RoundSlots(c) = ReductionSlots(ReductionInfo(ix))
         /\ loop.row = RowCode(ScatterInfo(ix), ReductionInfo(ix))
         /\ loop.column = ColumnCode(gather_info[c])
    BY <1>2, <1>3, <1>8, RowsFacts DEF Fits, loop
  <1>11. \A l \in Lane : Product[l] = SetToBag(TermsIn({c})[l])
    <2>1. \A l \in Lane : Product[l] = SetToBag({A!Term(c * Vector + l)})
      BY <1>1, <1>2, <1>6, <1>8, <1>10, ProductIsTerms
    <2>2. \A l \in Lane : TermsIn({c})[l] = {A!Term(c * Vector + l)}
      BY DEF TermsIn
    <2> QED
      BY <2>1, <2>2
  <1>12. /\ Fetch(scatter_new, cursor.scatter, GatherWidth(loop.row)) = RowSlots(c)
         /\ Fetch(reduction_new, cursor.reduction, ReductionWidth(loop.row)) = RoundSlots(c)
    <2>1. /\ IsSeq(scatter_new) /\ cursor.scatter \in Nat
          /\ IsSeq(reduction_new) /\ cursor.reduction \in Nat
      BY <1>1, <1>2, StreamsAreSeqs
    <2>2. IsSeq(RowSlots(c)) /\ IsSeq(RoundSlots(c))
      BY <1>2, <1>8, ChunkWords DEF StepInv
    <2>3. InPlace(scatter_new, cursor.scatter, GatherWidth(loop.row), RowSlots(c))
      BY <1>6 DEF RowsInPlace
    <2> QED
      BY <1>6, <2>1, <2>2, <2>3, FetchedWords
  <1>13. Stored' = Stored \cup ElementsOf({c})
    <2>1. ReadChunks' \ HeldChunks' = (ReadChunks \ HeldChunks) \cup {c}
      BY <1>5, <1>8
    <2>2. TailAdded' = TailAdded
      BY <1>1 DEF TailAdded
    <2>3. \A C, D : ElementsOf(C \cup D) = ElementsOf(C) \cup ElementsOf(D)
      BY DEF ElementsOf
    <2>4. /\ Stored = ElementsOf(ReadChunks \ HeldChunks) \cup TailAdded
          /\ Stored' = ElementsOf(ReadChunks' \ HeldChunks') \cup TailAdded'
      BY DEF Stored, TailAdded, ElementsOf
    <2> QED
      BY <2>1, <2>2, <2>3, <2>4
  <1>14. y' = A!Sum(Stored \cup ElementsOf({c}))
    <2>1. Stored \cap ElementsOf({c}) = {}
      BY <1>8, <1>9, ChunksApart
    <2>2. Stored \in SUBSET Element /\ {c} \in SUBSET Chunk
      BY <1>8, <1>9, StoredFacts
    <2>3. y = A!Sum(Stored)
      BY <1>2 DEF AllAdded
    <2>4. Accumulated(y, RowCode(ScatterInfo(ix), ReductionInfo(ix)),
                      GatherSlots(ScatterInfo(ix)), ReductionSlots(ReductionInfo(ix)), Product)
            = A!Sum(Stored \cup ElementsOf({c}))
      <3> HIDE DEF ix
      <3> DEFINE D == Stored
                 C == {c}
                 lanes == Product
                 perms == ReductionSlots(ReductionInfo(ix))
      <3>1. C \in SUBSET Chunk /\ OneRowEach(C, ix)
        BY <1>10, <2>2 DEF OneRowEach
      <3>2. D \in SUBSET Element /\ y = A!Sum(D) /\ D \cap ElementsOf(C) = {}
        BY <2>1, <2>2, <2>3
      <3>3. LanesHold(lanes, C)
        BY <1>11 DEF LanesHold
      <3>4. RoundsOfRow(perms, ix) /\ ix \in [Lane -> Nat]
        BY <1>10 DEF RoundsOfRow
      <3> HIDE DEF D, C, lanes, perms
      <3>5. Accumulated(y, RowCode(ScatterInfo(ix), ReductionInfo(ix)),
                        GatherSlots(ScatterInfo(ix)), perms, lanes) = A!Sum(D \cup ElementsOf(C))
        BY <3>1, <3>2, <3>3, <3>4, StoreAdds
      <3> QED
        BY <3>5 DEF C, D, lanes, perms
    <2> QED
      BY <1>1, <1>10, <1>12, <2>4
  <1>15. (y = A!Sum(Stored))'
    BY <1>1, <1>13, <1>14, SumKept DEF arrays
  <1>16. AllAdded'
    BY <1>1, <1>2, <1>4, <1>5, <1>15 DEF AllAdded
  <1> QED
    BY <1>13, <1>16

\* Every lane of every chunk of a range writes one row: the ranges are runs.
LEMMA RangeRow ==
  ASSUME SumInv, Running("range"), iter < loop.count
  PROVE  LET r == RangeLists[at - Len(group_order)][iter + 1] IN
         /\ OrderOf(RowsOf(r[1])) = "OrderEquel"
         /\ \A c \in r[1] .. r[2] - 1 : \A l \in Lane :
              row_ptr[c * Vector + l] = RowsOf(r[1])[l]
  <1> DEFINE n == at - Len(group_order)
             p == iter + 1
             r == RangeLists[n][p]
             k == range_order[n]
  <1>1. IInv /\ StepInv /\ ArraysKnown /\ stage = "kernel"
    BY DEF SumInv, IInv, Running
  <1>2. /\ n \in 1 .. Len(RangeLists) /\ p \in 1 .. Len(RangeLists[n]) /\ r \in Long
        /\ \A c \in r[1] .. r[2] - 1 : c \in Chunk /\ order_type[c] = "OrderEquel"
    BY <1>1, RangePosition
  <1>3. G!IInv /\ OrdersKnown
    BY <1>1, CursorFacts
  <1>4. k \in Key /\ RangeLists[n] = same_write_pattern_map[k]
    BY <1>2, <1>3, RangesFacts
  <1> HIDE DEF n, k
  <1>5. \A c \in r[1] .. r[2] - 1 : write_local[c] = write_local[r[1]]
    BY <1>2, <1>3, <1>4 DEF G!IInv, G!RangesAreRuns
  <1>6. r[1] \in Chunk /\ r[1] \in r[1] .. r[2] - 1
    <2>1. r[1] \in Chunk /\ r[2] \in 1 .. NumChunks /\ r[1] + 1 < r[2]
      BY <1>2 DEF Long
    <2> HIDE DEF r
    <2>2. r[1] \in Int /\ r[2] \in Int
      BY <2>1, GroupingHolds DEF Chunk
    <2> QED
      BY <2>1, <2>2
  <1>7. ASSUME NEW c \in r[1] .. r[2] - 1
        PROVE  /\ OrderOf(RowsOf(c)) = "OrderEquel"
               /\ \A l \in Lane : RowsOf(c)[l] = write_local[c] /\ row_ptr[c * Vector + l] = RowsOf(c)[l]
    <2>1. c \in Chunk /\ order_type[c] = "OrderEquel"
      BY <1>2
    <2>2. /\ RowsOf(c) \in [Lane -> Nat]
          /\ \A l \in Lane : row_ptr[c * Vector + l] = RowsOf(c)[l]
          /\ scatter_info[c] = ScatterInfo(RowsOf(c))
      BY <1>1, <2>1, RowsFacts
    <2>3. order_type[c] = scatter_info[c].order
      BY <1>1, <2>1 DEF StepInv, FeaturesKnown
    <2>4. OrderOf(RowsOf(c)) = "OrderEquel"
      BY <2>1, <2>2, <2>3 DEF ScatterInfo, OrderedInfo
    <2>5. write_local[c] = RowsOf(c)[0]
      <3>1. write_local[c] = scatter_info[c].index[1]
        BY <1>1, <2>1 DEF ArraysKnown
      <3>2. scatter_info[c] = OrderedInfo(RowsOf(c))
        BY <2>2, <2>4 DEF ScatterInfo
      <3>3. OrderedInfo(RowsOf(c)).index[1] = RowsOf(c)[0]
        BY DEF OrderedInfo
      <3> QED
        BY <3>1, <3>2, <3>3
    <2>6. \A l \in Lane : RowsOf(c)[l] = RowsOf(c)[0]
      BY <2>2, <2>4, OneIndex
    <2> QED
      BY <2>2, <2>4, <2>5, <2>6
  <1>8. ASSUME NEW c \in r[1] .. r[2] - 1, NEW l \in Lane
        PROVE  row_ptr[c * Vector + l] = RowsOf(r[1])[l]
    <2>1. row_ptr[c * Vector + l] = write_local[c]
      BY <1>7
    <2>2. RowsOf(r[1])[l] = write_local[r[1]]
      BY <1>6, <1>7
    <2> QED
      BY <1>5, <2>1, <2>2
  <1>9. OrderOf(RowsOf(r[1])) = "OrderEquel"
    BY <1>6, <1>7
  <1> QED
    BY <1>8, <1>9 DEF n

\* A range begins with nothing in its accumulator.
LEMMA BeginRangeAdds ==
  ASSUME SumInv, BeginRange
  PROVE  AllAdded' /\ Stored \subseteq Stored'
  <1> DEFINE r == RangeLists[at - Len(group_order)][iter + 1]
  <1>1. /\ Running("range") /\ stage = "kernel" /\ stage' = "kernel" /\ iter < loop.count
        /\ UNCHANGED <<arrays, grouping, streams, program, y, at, iter, element>>
        /\ inner = 0 /\ inner' = range_num[cursor.range + 1]
        /\ acc' = [l \in Lane |-> EmptyBag]
        /\ cursor'.data = cursor.data
    <2>1. cursor = [data |-> Before(DataWords, ChunksPassed),
                    gather |-> Before(ColumnWords, ChunksPassed),
                    scatter |-> Before(RowWords, RowsPassed),
                    reduction |-> Before(RoundWords, ChunksPassed),
                    range |-> RangesBegun]
      BY CursorFacts DEF SumInv, IInv, BeginRange, Running
    <2>2. cursor'.data = cursor.data
      BY <2>1 DEF BeginRange
    <2> QED
      BY <2>2 DEF BeginRange, Running
  <1>2. IInv /\ StepInv /\ AllAdded
    BY DEF SumInv, IInv
  <1>3. /\ AllChunks' = AllChunks /\ RangeLists' = RangeLists
        /\ group_order' = group_order
    BY <1>1, WordsUnchanged DEF streams
  <1>4. r \in Long /\ at - Len(group_order) \in 1 .. Len(RangeLists)
    BY <1>1, <1>2, RangePosition
  <1>5. r[1] \in Int /\ r[2] \in Int /\ r[1] + 1 < r[2]
    <2> HIDE DEF r
    <2> QED
      BY <1>4, GroupingHolds DEF Long, Chunk
  <1>6. inner' = r[2] - r[1]
    <2>1. same_write_pattern_map[range_order[at - Len(group_order)]] = RangeLists[at - Len(group_order)]
      <3>1. Len(RangeLists) = Len(range_order)
        BY <1>1, <1>2, CursorFacts
      <3> QED
        BY <1>4, <3>1 DEF RangeLists
    <2>2. InPlace(range_num, cursor.range, 1, <<r[2] - r[1]>>)
      BY <1>1, <1>2, <2>1, InStep DEF StreamsInStep
    <2>3. cursor.range \in Nat /\ IsSeq(range_num)
      <3>1. cursor.range \in 0 .. Len(range_num)
        BY <1>1, <1>2, CursorsInside
      <3>2. range_num = [m \in 1 .. Len(Ranges) |-> Ranges[m][2] - Ranges[m][1]]
        BY <1>1, <1>2 DEF StepInv, LoopsMade
      <3>3. Len(Ranges) \in Nat
        BY <1>1, <1>2, CursorFacts, RangesFacts
      <3>4. IsSeq(range_num)
        BY <3>2, <3>3, FunctionIsSeq
      <3>5. ASSUME NEW m, NEW q \in 0 .. m PROVE q \in Nat
        OBVIOUS
      <3> QED
        BY <3>1, <3>4, <3>5
    <2>4. IsSeq(<<r[2] - r[1]>>)
      <3>1. <<r[2] - r[1]>> \in Seq({r[2] - r[1]})
        OBVIOUS
      <3> QED
        BY <3>1 DEF IsSeq
    <2> HIDE DEF r
    <2>5. 1 \in 1 .. 1
      OBVIOUS
    <2>6. range_num[cursor.range + 1] = <<r[2] - r[1]>>[1]
      BY <2>2, <2>3, <2>4, <2>5, FetchedWords
    <2> QED
      BY <1>1, <2>6
  <1>7. HeldChunks = {} /\ HeldChunks' = {}
    <2>1. inner' # 0 /\ r[1] .. r[2] - inner' - 1 = {}
      <3> HIDE DEF r
      <3> QED
        BY <1>5, <1>6
    <2>2. r' = r
      BY <1>1, <1>3
    <2>3. HeldChunks' = r[1] .. r[2] - inner' - 1
      BY <2>1, <2>2 DEF HeldChunks
    <2> QED
      BY <1>1, <2>1, <2>3 DEF HeldChunks
  <1>8. ReadChunks' = ReadChunks
    BY <1>1, <1>3, ReadNoMore
  <1>9. Stored' = Stored
    BY <1>1, <1>7, <1>8 DEF Stored, ElementsOf
  <1>10. (y = A!Sum(Stored))'
    BY <1>1, <1>2, <1>9, SumKept DEF arrays, AllAdded
  <1>11. (\A l \in Lane : acc[l] = SetToBag({A!Term(c * Vector + l) : c \in HeldChunks}))'
    <2>1. \A l \in Lane : {A!Term(c * Vector + l) : c \in HeldChunks}' = {}
      BY <1>7
    <2> QED
      BY <1>1, <2>1 DEF EmptyBag
  <1>12. (stage \notin {"tail", "done"} => element = NumChunks * Vector)'
    BY <1>1, <1>2 DEF AllAdded
  <1> QED
    BY <1>7, <1>9, <1>10, <1>11, <1>12 DEF AllAdded

\* One iteration of the inner loop takes a chunk into the accumulator; the last
\* one adds the elements of the whole range.
LEMMA RangeAdds ==
  ASSUME SumInv, RangeIteration
  PROVE  AllAdded' /\ Stored \subseteq Stored'
  <1> DEFINE r == RangeLists[at - Len(group_order)][iter + 1]
             c == r[2] - inner
             next == HeldChunks \cup {c}
             ix == RowsOf(r[1])
  <1>1. /\ Running("range") /\ stage = "kernel" /\ stage' = "kernel" /\ inner > 0
        /\ UNCHANGED <<arrays, grouping, streams, program, at, element>>
        /\ inner' = inner - 1
        /\ acc' = AddLanes(acc, Product)
        /\ cursor'.data = cursor.data + Vector
        /\ inner > 1 => y' = y /\ iter' = iter
        /\ ~(inner > 1) => y' = Accumulated(y, loop.row,
             Fetch(scatter_new, cursor.scatter, GatherWidth(loop.row)), <<>>, acc')
    <2>1. cursor = [data |-> Before(DataWords, ChunksPassed),
                    gather |-> Before(ColumnWords, ChunksPassed),
                    scatter |-> Before(RowWords, RowsPassed),
                    reduction |-> Before(RoundWords, ChunksPassed),
                    range |-> RangesBegun]
      BY CursorFacts DEF SumInv, IInv, RangeIteration, Running
    <2>2. cursor'.data = cursor.data + Vector
      BY <2>1 DEF RangeIteration
    <2> QED
      BY <2>2 DEF RangeIteration, Running
  <1>2. IInv /\ StepInv /\ ArraysKnown /\ AllAdded
    BY DEF SumInv, IInv
  <1>3. /\ iter < loop.count
        /\ ChunksPassed + 1 \in 1 .. Len(AllChunks) /\ AllChunks[ChunksPassed + 1] = c
        /\ c \in r[1] .. r[2] - 1
    BY <1>1, <1>2, InnerPosition
  <1>4. /\ at - Len(group_order) \in 1 .. Len(RangeLists) /\ r \in Long
        /\ \A d \in r[1] .. r[2] - 1 : Fits(at, d) /\ d \in Chunk
    BY <1>1, <1>2, <1>3, RangePosition
  <1>5. /\ OrderOf(ix) = "OrderEquel"
        /\ \A d \in r[1] .. r[2] - 1 : \A l \in Lane : row_ptr[d * Vector + l] = ix[l]
    BY <1>1, <1>3, RangeRow
  <1>6. /\ r[1] \in Int /\ r[2] \in Int /\ r[1] + 1 < r[2] /\ r[1] \in Chunk
        /\ inner \in Nat /\ inner <= r[2] - r[1]
    <2>1. inner \in Nat /\ inner <= r[2] - r[1]
      BY <1>1, <1>2 DEF StepInv, LoopsInStep
    <2> HIDE DEF r
    <2> QED
      BY <1>4, <2>1, GroupingHolds DEF Long, Chunk
  <1>7. /\ OperandsInPlace(c) /\ RowsInPlace(r[1])
    <2>1. same_write_pattern_map[range_order[at - Len(group_order)]] = RangeLists[at - Len(group_order)]
      <3>1. Len(RangeLists) = Len(range_order)
        BY <1>1, <1>2, CursorFacts
      <3> QED
        BY <1>4, <3>1 DEF RangeLists
    <2>2. inner # 0
      BY <1>1
    <2> QED
      BY <1>1, <1>2, <1>3, <2>1, <2>2, InStep DEF StreamsInStep
  <1>8. HeldChunks = r[1] .. r[2] - inner - 1
    BY <1>1 DEF HeldChunks
  <1>9. next = r[1] .. r[2] - inner /\ next \subseteq r[1] .. r[2] - 1
    <2> HIDE DEF r
    <2>1. next = (r[1] .. r[2] - inner - 1) \cup {r[2] - inner}
      BY <1>8
    <2> HIDE DEF next
    <2> QED
      BY <1>1, <1>6, <2>1
  <1>10. /\ AllChunks' = AllChunks /\ RangeLists' = RangeLists
         /\ group_order' = group_order
    BY <1>1, WordsUnchanged DEF streams
  <1> HIDE DEF next
  <1>11. ReadChunks' = ReadChunks \cup {c} /\ c \in Chunk /\ c \notin ReadChunks
    BY <1>1, <1>2, <1>3, <1>10, ReadOneMore
  <1>12. ReadChunks \subseteq Chunk /\ HeldChunks \subseteq ReadChunks
    BY <1>1, <1>2, ReadFacts DEF AllAdded
  <1>13. next \in SUBSET Chunk /\ HeldChunks \in SUBSET Chunk
    BY <1>4, <1>9, <1>12
  <1>14. \A l \in Lane : acc'[l] = SetToBag(TermsIn(next)[l])
    <2>1. \A l \in Lane : Product[l] = SetToBag({A!Term(c * Vector + l)})
      <3>1. loop.column = ColumnCode(gather_info[c])
        BY <1>3, <1>4 DEF Fits, loop
      <3> HIDE DEF c
      <3> QED
        BY <1>1, <1>2, <1>7, <1>11, <3>1, ProductIsTerms
    <2> SUFFICES ASSUME NEW l \in Lane PROVE acc'[l] = SetToBag(TermsIn(next)[l])
      OBVIOUS
    <2> DEFINE held == {A!Term(d * Vector + l) : d \in HeldChunks}
               new == {A!Term(c * Vector + l)}
    <2>2. acc[l] = SetToBag(held)
      BY <1>1, <1>2, SameBag DEF AllAdded
    <2>3. held \cap new = {}
      <3> SUFFICES ASSUME NEW d \in HeldChunks, A!Term(d * Vector + l) = A!Term(c * Vector + l)
                   PROVE  FALSE
        OBVIOUS
      <3>1. d * Vector + l = c * Vector + l
        BY DEF A!Term
      <3>2. d = c
        BY <1>11, <1>13, <3>1, LanesApart
      <3> QED
        BY <1>11, <1>12, <3>2
    <2>4. held \cup new = TermsIn(next)[l]
      BY DEF TermsIn, next
    <2>5. acc'[l] = acc[l] (+) Product[l]
      BY <1>1 DEF AddLanes
    <2> HIDE DEF held, new
    <2>6. SetToBag(held) (+) SetToBag(new) = SetToBag(held \cup new)
      BY <2>3, BagsApart
    <2>7. Product[l] = SetToBag(new)
      BY <2>1 DEF new
    <2> QED
      BY <2>2, <2>4, <2>5, <2>6, <2>7
  <1>15. TailAdded' = TailAdded
    BY <1>1 DEF TailAdded
  <1>16. /\ Stored = ElementsOf(ReadChunks \ HeldChunks) \cup TailAdded
         /\ Stored' = ElementsOf(ReadChunks' \ HeldChunks') \cup TailAdded'
    BY DEF Stored, TailAdded, ElementsOf
  <1>17. (stage \notin {"tail", "done"} => element = NumChunks * Vector)'
    BY <1>1, <1>2 DEF AllAdded
  <1>18. CASE inner > 1
    <2>1. HeldChunks' = next
      <3>1. inner' # 0 /\ r' = r
        BY <1>1, <1>6, <1>10, <1>18
      <3>2. HeldChunks' = r[1] .. r[2] - inner' - 1
        BY <3>1 DEF HeldChunks
      <3>3. r[2] - inner' - 1 = r[2] - inner
        <4> HIDE DEF r
        <4> QED
          BY <1>1, <1>6
      <3> QED
        BY <1>9, <3>2, <3>3
    <2>2. Stored' = Stored
      <3>1. ReadChunks' \ HeldChunks' = ReadChunks \ HeldChunks
        BY <1>11, <2>1 DEF next
      <3> QED
        BY <1>15, <1>16, <3>1
    <2>3. (y = A!Sum(Stored))'
      BY <1>1, <1>2, <1>18, <2>2, SumKept DEF arrays, AllAdded
    <2>4. (\A l \in Lane : acc[l] = SetToBag({A!Term(d * Vector + l) : d \in HeldChunks}))'
      <3>1. \A l \in Lane : {A!Term(d * Vector + l) : d \in HeldChunks}' = TermsIn(next)[l]
        BY <1>1, <2>1 DEF TermsIn, A!Term, arrays
      <3> QED
        BY <1>14, <3>1
    <2>5. HeldChunks' \subseteq ReadChunks'
      BY <1>11, <1>12, <2>1 DEF next
    <2> QED
      BY <1>17, <2>2, <2>3, <2>4, <2>5, SameBag DEF AllAdded
  <1>19. CASE ~(inner > 1)
    <2>1. inner = 1 /\ inner' = 0
      BY <1>1, <1>6, <1>19
    <2>2. HeldChunks' = {}
      BY <2>1 DEF HeldChunks
    <2>3. Stored' = Stored \cup ElementsOf(next)
      <3>1. ReadChunks' \ HeldChunks' = (ReadChunks \ HeldChunks) \cup next
        BY <1>11, <1>12, <2>2 DEF next
      <3>2. \A C, D : ElementsOf(C \cup D) = ElementsOf(C) \cup ElementsOf(D)
        BY DEF ElementsOf
      <3> QED
        BY <1>15, <1>16, <3>1, <3>2
    <2>4. y' = A!Sum(Stored \cup ElementsOf(next))
      <3>1. /\ RowSlots(r[1]) = GatherSlots(ScatterInfo(ix)) /\ ix \in [Lane -> Nat]
            /\ loop.row = RowCode(ScatterInfo(ix), ReductionInfo(ix))
        <4>1. r[1] \in r[1] .. r[2] - 1
          <5> HIDE DEF r
          <5> QED
            BY <1>6
        <4>2. Fits(at, r[1])
          BY <1>4, <4>1
        <4> HIDE DEF r
        <4> QED
          BY <1>2, <1>6, <4>2, RowsFacts DEF Fits, loop
      <3>2. Fetch(scatter_new, cursor.scatter, GatherWidth(loop.row)) = RowSlots(r[1])
        <4>1. IsSeq(scatter_new) /\ cursor.scatter \in Nat
          BY <1>1, <1>2, StreamsAreSeqs
        <4> HIDE DEF r
        <4>2. IsSeq(RowSlots(r[1]))
          BY <1>2, <1>6, ChunkWords DEF StepInv
        <4>3. InPlace(scatter_new, cursor.scatter, GatherWidth(loop.row), RowSlots(r[1]))
          BY <1>7 DEF RowsInPlace
        <4> QED
          BY <4>1, <4>2, <4>3, FetchedWords
      <3>3. Stored \cap ElementsOf(next) = {}
        <4>1. next \cap (ReadChunks \ HeldChunks) = {}
          BY <1>11 DEF next
        <4> QED
          BY <1>12, <1>13, <4>1, ChunksApart
      <3>4. Stored \in SUBSET Element /\ y = A!Sum(Stored)
        BY <1>2, <1>12, StoredFacts DEF AllAdded
      <3>5. OneRowEach(next, ix)
        BY <1>5, <1>9 DEF OneRowEach
      <3> DEFINE D == Stored
                 lanes == acc'
                 perms == <<>>
      <3>6. /\ D \in SUBSET Element /\ y = A!Sum(D) /\ D \cap ElementsOf(next) = {}
            /\ LanesHold(lanes, next) /\ RoundsOfRow(perms, ix) /\ ix \in [Lane -> Nat]
        BY <1>5, <1>14, <3>1, <3>3, <3>4 DEF LanesHold, RoundsOfRow
      <3> HIDE DEF D, lanes, perms, ix
      <3>7. Accumulated(y, RowCode(ScatterInfo(ix), ReductionInfo(ix)),
                        GatherSlots(ScatterInfo(ix)), perms, lanes) = A!Sum(D \cup ElementsOf(next))
        BY <1>13, <3>5, <3>6, StoreAdds
      <3> QED
        BY <1>1, <1>19, <3>1, <3>2, <3>7 DEF D, lanes, perms
    <2>5. (y = A!Sum(Stored))'
      BY <1>1, <2>3, <2>4, SumKept DEF arrays
    <2> QED
      BY <1>17, <2>1, <2>2, <2>3, <2>5 DEF AllAdded
  <1> QED
    BY <1>18, <1>19

\* A step that reads nothing, outside of a range, leaves the sum alone.
LEMMA NothingAdded ==
  ASSUME AllAdded, UNCHANGED <<row_ptr, column_ptr, y, element>>, inner = 0, inner' = 0,
         ReadChunks' = ReadChunks, stage' \notin {"tail", "done"} => stage \notin {"tail", "done"}
  PROVE  AllAdded' /\ Stored \subseteq Stored'
  <1>1. HeldChunks = {} /\ HeldChunks' = {}
    BY DEF HeldChunks
  <1>2. Stored' = Stored
    BY <1>1 DEF Stored, ElementsOf
  <1>3. (y = A!Sum(Stored))'
    BY <1>2, SumKept DEF AllAdded
  <1>4. (stage \notin {"tail", "done"} => element = NumChunks * Vector)'
    BY DEF AllAdded
  <1> QED
    BY <1>1, <1>2, <1>3, <1>4 DEF AllAdded

\* The step to the next loop reads nothing.
LEMMA NextLoopAdds ==
  ASSUME SumInv, NextLoop
  PROVE  AllAdded' /\ Stored \subseteq Stored'
  <1>1. /\ stage = "kernel" /\ stage' = "kernel" /\ iter = loop.count
        /\ UNCHANGED <<arrays, grouping, streams, y, inner, element, cursor>>
    BY DEF NextLoop
  <1>2. StepInv /\ AllAdded
    BY DEF SumInv, IInv
  <1>3. inner = 0
    <2>1. iter \in Nat
      BY <1>1, <1>2, CursorFacts
    <2>2. ~(iter < loop.count)
      BY <1>1, <2>1
    <2> QED
      BY <1>1, <1>2, <2>2, NoInner
  <1>4. ReadChunks' = ReadChunks
    BY <1>1, WordsUnchanged, ReadNoMore
  <1> QED
    BY <1>1, <1>2, <1>3, <1>4, NothingAdded DEF arrays

\* A step that changes nothing leaves the sum alone.
LEMMA StutterAdds ==
  ASSUME SumInv, UNCHANGED vars
  PROVE  AllAdded' /\ Stored \subseteq Stored'
  <1>1. /\ UNCHANGED <<arrays, grouping, streams>>
        /\ UNCHANGED <<row_ptr, column_ptr, y, stage, group_order, at, iter, inner, acc, element, cursor>>
    BY DEF vars, arrays, streams, machine
  <1>2. AllAdded
    BY DEF SumInv
  <1>3. AllChunks' = AllChunks /\ RangeLists' = RangeLists
    BY <1>1, WordsUnchanged
  <1>4. ReadChunks' = ReadChunks
    BY <1>1, <1>3, ReadNoMore
  <1>5. HeldChunks' = HeldChunks
    BY <1>1, <1>3 DEF HeldChunks
  <1>6. Stored' = Stored
    BY <1>1, <1>4, <1>5 DEF Stored, ElementsOf
  <1>7. (y = A!Sum(Stored))'
    BY <1>1, <1>2, <1>6, SumKept DEF AllAdded
  <1>8. ASSUME NEW l \in Lane
        PROVE  {A!Term(c * Vector + l) : c \in HeldChunks}' = {A!Term(c * Vector + l) : c \in HeldChunks}
    BY <1>1, <1>5 DEF A!Term
  <1>9. (inner > 0 =>
           \A l \in Lane : acc[l] = SetToBag({A!Term(c * Vector + l) : c \in HeldChunks}))'
    BY <1>1, <1>2, <1>8, SameBag DEF AllAdded
  <1> QED
    BY <1>1, <1>2, <1>4, <1>5, <1>6, <1>7, <1>9 DEF AllAdded

\* After the loops nothing is held.
LEMMA NothingHeld ==
  ASSUME StepInv, stage \in {"kernel", "tail", "done"}, at > Len(loops)
  PROVE  inner = 0
  <1>1. at \in 1 .. Len(loops) + 1 /\ Len(loops) \in Nat
    BY CursorFacts
  <1>2. ~Running("range")
    BY <1>1 DEF Running
  <1> QED
    BY <1>2, NoInner

\* The scalar loop adds one element of the tail.
LEMMA TailAdds ==
  ASSUME SumInv, Return \/ TailIteration \/ Finish
  PROVE  AllAdded' /\ Stored \subseteq Stored'
  <1>1. /\ stage \in {"kernel", "tail"} /\ at > Len(loops)
        /\ UNCHANGED <<arrays, grouping, streams, program, inner, cursor>>
        /\ stage' \in {"tail", "done"}
    BY DEF Return, TailIteration, Finish, machine, SumInv, IInv, StepInv, LoopsInStep
  <1>2. IInv /\ StepInv /\ AllAdded /\ ArraysKnown
    BY DEF SumInv, IInv
  <1>3. inner = 0 /\ inner' = 0
    BY <1>1, <1>2, NothingHeld
  <1>4. ReadChunks' = ReadChunks
    BY <1>1, WordsUnchanged, ReadNoMore
  <1>5. CASE Return \/ Finish
    <2>1. UNCHANGED <<row_ptr, column_ptr, y, element>>
      BY <1>5 DEF Return, Finish, arrays, machine
    <2>2. stage' \notin {"tail", "done"} => stage \notin {"tail", "done"}
      BY <1>1
    <2> QED
      BY <1>2, <1>3, <1>4, <2>1, <2>2, NothingAdded
  <1>6. CASE TailIteration
    <2> DEFINE e == element
               rest == TailAdded
               term == A!Term(e)
    <2>1. /\ e \in Element /\ element' = e + 1 /\ stage' = "tail"
          /\ y' = [y EXCEPT ![row_ptr[e]] = @ (+) SetToBag({<<e, column_ptr[e]>>})]
          /\ UNCHANGED <<row_ptr, column_ptr>>
      BY <1>6 DEF TailIteration, arrays
    <2>2. e \in Nat /\ NumChunks * Vector <= e /\ NumChunks * Vector \in Nat
      <3>1. element \in NumChunks * Vector .. Cardinality(Element)
        BY <1>2 DEF StepInv, OutputKept
      <3> DEFINE whole == NumChunks * Vector
                 n == Cardinality(Element)
      <3>2. whole \in Nat /\ e \in whole .. n
        BY <3>1, ElementCount
      <3> HIDE DEF whole, n
      <3>3. e \in Nat /\ whole <= e
        BY <3>2
      <3> QED
        BY <3>2, <3>3 DEF whole
    <2>3. Stored \subseteq Element /\ ReadChunks \subseteq Chunk
      BY <1>1, <1>2, ReadFacts, StoredFacts
    <2>4. TailAdded' = TailAdded \cup {e}
      <3>1. \A f \in Element : f \in Int
        BY ElementCount
      <3>2. \A f \in Element : f < e + 1 <=> f < e \/ f = e
        BY <2>2, <3>1
      <3> QED
        BY <2>1, <2>2, <3>2 DEF TailAdded
    <2>5. HeldChunks = {} /\ HeldChunks' = {}
      BY <1>3 DEF HeldChunks
    <2>6. /\ Stored = ElementsOf(ReadChunks) \cup TailAdded
          /\ Stored' = ElementsOf(ReadChunks) \cup TailAdded'
      BY <1>4, <2>5 DEF Stored, TailAdded, ElementsOf
    <2>7. Stored' = Stored \cup {e}
      BY <2>4, <2>6
    <2>8. e \notin Stored
      <3>1. e \notin TailAdded
        BY <2>2 DEF TailAdded
      <3>2. e \notin ElementsOf(ReadChunks)
        <4> SUFFICES ASSUME NEW c \in ReadChunks, NEW l \in Lane, e = c * Vector + l PROVE FALSE
          BY DEF ElementsOf
        <4> DEFINE f == c * Vector + l
                   whole == NumChunks * Vector
        <4>1. f < whole /\ f \in Nat /\ whole \in Nat /\ whole <= f
          BY <2>2, <2>3, LaneIsElement
        <4> HIDE DEF f, whole
        <4> QED
          BY <4>1
      <3> QED
        BY <2>6, <3>1, <3>2
    <2>9. y' = A!Sum(Stored \cup {e})
      <3>1. y = [r \in Output |-> SetToBag(TermsAt(Stored, r))]
        BY <1>2, SumByRow DEF AllAdded
      <3>2. row_ptr[e] \in Output
        BY <1>2, <2>1 DEF ArraysKnown
      <3> HIDE DEF e
      <3>3. ASSUME NEW r \in Output
            PROVE  y'[r] = SetToBag(TermsAt(Stored \cup {e}, r))
        <4>1. CASE r = row_ptr[e]
          <5>1. TermsAt(Stored \cup {e}, r) = TermsAt(Stored, r) \cup {term}
            BY <4>1 DEF TermsAt
          <5>2. TermsAt(Stored, r) \cap {term} = {}
            BY <2>2, <2>8 DEF TermsAt, A!Term, A!Before
          <5>3. y'[r] = y[r] (+) SetToBag({term})
            BY <2>1, <3>1, <3>2, <4>1 DEF A!Term
          <5>4. y[r] = SetToBag(TermsAt(Stored, r))
            BY <3>1
          <5> HIDE DEF term
          <5>5. SetToBag(TermsAt(Stored, r)) (+) SetToBag({term})
                  = SetToBag(TermsAt(Stored, r) \cup {term})
            BY <5>2, BagsApart
          <5> QED
            BY <5>1, <5>3, <5>4, <5>5
        <4>2. CASE r # row_ptr[e]
          <5>1. TermsAt(Stored \cup {e}, r) = TermsAt(Stored, r)
            BY <4>2 DEF TermsAt
          <5> QED
            BY <2>1, <3>1, <3>2, <4>2, <5>1
        <4> QED
          BY <4>1, <4>2
      <3>4. y' = [r \in Output |-> y'[r]]
        BY <2>1, <3>1
      <3>5. y' = [r \in Output |-> SetToBag(TermsAt(Stored \cup {e}, r))]
        BY <3>3, <3>4
      <3> QED
        BY <3>5, SumByRow
    <2>10. (y = A!Sum(Stored))'
      <3> HIDE DEF e
      <3> QED
        BY <2>1, <2>7, <2>9, SumKept
    <2>11. stage' = "tail" /\ inner' = 0
      BY <1>3, <2>1
    <2>12. /\ HeldChunks' \subseteq ReadChunks'
           /\ (inner > 0 =>
                 \A l \in Lane :
                   acc[l] = SetToBag({A!Term(c * Vector + l) : c \in HeldChunks}))'
           /\ (stage \notin {"tail", "done"} => element = NumChunks * Vector)'
      <3> HIDE DEF e
      <3> QED
        BY <2>5, <2>11
    <2>13. AllAdded'
      BY <2>10, <2>12 DEF AllAdded
    <2> QED
      BY <2>7, <2>13
  <1> QED
    BY <1>5, <1>6

\* Before the kernel runs, nothing is added.
LEMMA CompilerAdds ==
  ASSUME SumInv, GenerateInformation \/ TransformData \/ OptimizationState
  PROVE  AllAdded' /\ Stored \subseteq Stored'
  <1>1. /\ stage \in {"generate", "optimize"}
        /\ UNCHANGED <<row_ptr, column_ptr, y, element, inner, cursor>>
    BY DEF GenerateInformation, TransformData, OptimizationState, arrays, machine
  <1>2. AllAdded /\ inner = 0 /\ cursor.data = 0
    BY <1>1 DEF SumInv, IInv, StepInv, NotStarted
  <1>3. ReadChunks = {}
    BY <1>2, NothingRead
  <1>4. (cursor.data = 0 /\ inner = 0)'
    BY <1>1, <1>2
  <1>5. (cursor.data = 0 /\ inner = 0 => ReadChunks = {} /\ HeldChunks = {})'
    BY NothingRead, PTL
  <1>6. ReadChunks' = ReadChunks
    BY <1>3, <1>4, <1>5
  <1> QED
    BY <1>1, <1>2, <1>4, <1>6, NothingAdded

-----------------------------------------------------------------------------
(***************************************************************************)
(* The index arrays and the orders                                         *)
(***************************************************************************)
\* The chunk and the lane of an element.
LEMMA ChunkAndLane ==
  /\ \A e \in Nat : e < NumChunks * Vector => e \div Vector \in Chunk /\ e % Vector \in Lane
  /\ \A c \in Chunk, l \in Lane :
       (c * Vector + l) \div Vector = c /\ (c * Vector + l) % Vector = l
  <1>1. NumChunks \in Nat
    BY GroupingHolds
  <1>2. CASE Vector = 4
    BY <1>1, <1>2 DEF Chunk, Lane
  <1>3. CASE Vector = 8
    BY <1>1, <1>3 DEF Chunk, Lane
  <1>4. CASE Vector = 16
    BY <1>1, <1>4 DEF Chunk, Lane
  <1> QED
    BY <1>2, <1>3, <1>4, VectorAssumption

\* An element after the whole vectors is one of the tail.
LEMMA TailElement ==
  ASSUME NEW e \in Element, ~(e < NumChunks * Vector)
  PROVE  e - NumChunks * Vector \in DOMAIN TailRow
  <1> DEFINE whole == NumChunks * Vector
             rest == Cardinality(DOMAIN TailRow)
  <1>1. PICK n \in 0 .. Vector - 1 : TailRow \in [0 .. n - 1 -> Nat]
    BY DynVecAssumption
  <1>2. n \in Nat /\ DOMAIN TailRow = 0 .. n - 1
    BY <1>1, VectorAssumption
  <1>3. rest = n
    BY <1>2, FS_Interval
  <1>4. whole \in Nat /\ Element = 0 .. whole + rest - 1
    BY ElementCount DEF Element
  <1>5. ~(e < whole)
    OBVIOUS
  <1> HIDE DEF whole, rest
  <1>6. e - whole \in 0 .. n - 1
    BY <1>2, <1>3, <1>4, <1>5
  <1> QED
    BY <1>2, <1>6 DEF whole

\* What compiler is called with: the features are those of the index arrays.
LEMMA InitArrays == Init => ArraysKnown
  <1> SUFFICES ASSUME Init PROVE ArraysKnown
    OBVIOUS
  <1>1. PICK rows \in [Chunk -> RowShapes], columns \in [Chunk -> ColumnShapes] :
          /\ row_ptr = [e \in Element |->
               IF e < NumChunks * Vector THEN rows[e \div Vector][e % Vector]
                                         ELSE TailRow[e - NumChunks * Vector]]
          /\ column_ptr = [e \in Element |->
               IF e < NumChunks * Vector THEN columns[e \div Vector][e % Vector]
                                         ELSE TailColumn[e - NumChunks * Vector]]
          /\ gather_info = [c \in Chunk |-> GatherInfo(columns[c])]
          /\ scatter_info = [c \in Chunk |-> ScatterInfo(rows[c])]
          /\ reduction_info = [c \in Chunk |-> ReductionInfo(rows[c])]
    BY DEF Init
  <1>2. ASSUME NEW c \in Chunk
        PROVE  rows[c] \in RowShapes /\ columns[c] \in ColumnShapes
    OBVIOUS
  <1>3. ASSUME NEW c \in Chunk, NEW l \in Lane
        PROVE  /\ rows[c][l] \in Output
               /\ columns[c][l] \in Nat
    <2>1. /\ rows[c] \in RowShapes /\ rows[c] \in [Lane -> Nat]
          /\ columns[c] \in [Lane -> Nat]
      BY <1>2, DynVecAssumption
    <2> QED
      BY <2>1 DEF Output
  <1>4. ASSUME NEW e \in DOMAIN TailRow
        PROVE  TailRow[e] \in Output /\ TailColumn[e] \in Nat
    BY DynVecAssumption DEF Output
  <1>5. ASSUME NEW e \in Element
        PROVE  row_ptr[e] \in Output /\ column_ptr[e] \in Nat
    <2>1. CASE e < NumChunks * Vector
      <3>1. e \in Nat
        BY ElementCount
      <3>2. e \div Vector \in Chunk /\ e % Vector \in Lane
        BY <2>1, <3>1, ChunkAndLane
      <3>3. /\ row_ptr[e] = rows[e \div Vector][e % Vector]
            /\ column_ptr[e] = columns[e \div Vector][e % Vector]
        BY <1>1, <2>1
      <3> QED
        BY <1>3, <3>2, <3>3
    <2>2. CASE ~(e < NumChunks * Vector)
      <3>1. e - NumChunks * Vector \in DOMAIN TailRow
        BY <2>2, TailElement
      <3>2. /\ row_ptr[e] = TailRow[e - NumChunks * Vector]
            /\ column_ptr[e] = TailColumn[e - NumChunks * Vector]
        BY <1>1, <2>2
      <3> QED
        BY <1>4, <3>1, <3>2
    <2> QED
      BY <2>1, <2>2
  <1>6. row_ptr \in [Element -> Output] /\ column_ptr \in [Element -> Nat]
    <2>1. DOMAIN row_ptr = Element /\ row_ptr = [e \in Element |-> row_ptr[e]]
      BY <1>1
    <2>2. DOMAIN column_ptr = Element /\ column_ptr = [e \in Element |-> column_ptr[e]]
      BY <1>1
    <2> QED
      BY <1>5, <2>1, <2>2
  <1>7. ASSUME NEW c \in Chunk
        PROVE  RowsOf(c) = rows[c] /\ ColumnsOf(c) = columns[c]
    <2>1. ASSUME NEW l \in Lane
          PROVE  /\ row_ptr[c * Vector + l] = rows[c][l]
                 /\ column_ptr[c * Vector + l] = columns[c][l]
      <3> DEFINE e == c * Vector + l
                 d == e \div Vector
                 m == e % Vector
      <3>1. e \in Element /\ e < NumChunks * Vector
        BY LaneIsElement
      <3>2. d = c /\ m = l
        BY ChunkAndLane
      <3>3. row_ptr[e] = rows[d][m] /\ column_ptr[e] = columns[d][m]
        BY <1>1, <3>1
      <3> HIDE DEF d, m
      <3> QED
        BY <3>2, <3>3
    <2>2. rows[c] \in [Lane -> Nat] /\ columns[c] \in [Lane -> Nat]
      BY <1>2, DynVecAssumption
    <2>3. rows[c] = [l \in Lane |-> rows[c][l]] /\ columns[c] = [l \in Lane |-> columns[c][l]]
      BY <2>2
    <2> QED
      BY <2>1, <2>3 DEF RowsOf, ColumnsOf
  <1>8. write_local = [c \in Chunk |-> scatter_info[c].index[1]]
    BY DEF Init
  <1>9. ASSUME NEW c \in Chunk
        PROVE  /\ RowsOf(c) \in RowShapes
               /\ ColumnsOf(c) \in ColumnShapes
               /\ gather_info[c] = GatherInfo(ColumnsOf(c))
               /\ scatter_info[c] = ScatterInfo(RowsOf(c))
               /\ reduction_info[c] = ReductionInfo(RowsOf(c))
               /\ write_local[c] = scatter_info[c].index[1]
    <2>1. RowsOf(c) = rows[c] /\ ColumnsOf(c) = columns[c]
      BY <1>7
    <2>2. /\ gather_info[c] = GatherInfo(columns[c])
          /\ scatter_info[c] = ScatterInfo(rows[c])
          /\ reduction_info[c] = ReductionInfo(rows[c])
          /\ write_local[c] = scatter_info[c].index[1]
      BY <1>1, <1>8
    <2> QED
      BY <1>2, <2>1, <2>2
  <1> QED
    BY <1>6, <1>9 DEF ArraysKnown

\* No step changes the index arrays or their features.
LEMMA NextArrays ==
  ASSUME [Next]_vars
  PROVE  UNCHANGED arrays /\ UNCHANGED write_local
  <1>1. CASE GenerateInformation
    <2>1. UNCHANGED arrays /\ GP!Next
      BY <1>1, SameNext DEF GenerateInformation
    <2>2. UNCHANGED write_local
      BY <2>1 DEF GP!Next, GP!input,
         GP!CombinSameFeature, GP!CombinSameWritePattern, GP!VisitOther, GP!VisitEqual,
         GP!ExtendRun, GP!CloseRun, GP!FinishKey, GP!Finish
    <2> QED
      BY <2>1, <2>2
  <1>2. CASE ~GenerateInformation
    BY <1>2 DEF Next, TransformData, OptimizationState, GroupIteration, BeginRange,
       RangeIteration, NextLoop, Return, TailIteration, Finish, vars, grouping
  <1> QED
    BY <1>1, <1>2

\* The features stay those of the index arrays.
LEMMA ArraysKept ==
  ASSUME ArraysKnown, [Next]_vars
  PROVE  ArraysKnown'
  <1>1. UNCHANGED <<row_ptr, column_ptr, gather_info, scatter_info, reduction_info, write_local>>
    BY NextArrays DEF arrays
  <1>2. \A c : RowsOf(c)' = RowsOf(c) /\ ColumnsOf(c)' = ColumnsOf(c)
    BY <1>1 DEF RowsOf, ColumnsOf
  <1> QED
    BY <1>1, <1>2 DEF ArraysKnown

\* A sequence of SetToSeqs lists every element.
LEMMA ListsAll ==
  ASSUME NEW S, IsFiniteSet(S), NEW s \in SetToSeqs(S), NEW x \in S
  PROVE  \E n \in 1 .. Len(s) : s[n] = x
  <1> DEFINE size == Cardinality(S)
  <1>1. size \in Nat
    BY FS_CardinalityType
  <1>2. /\ s \in [1 .. size -> S]
        /\ \A p, q \in 1 .. size : p # q => s[p] # s[q]
    BY DEF SetToSeqs
  <1> HIDE DEF size
  <1>3. s \in Injection(1 .. size, S)
    BY <1>2 DEF Injection, IsInjective
  <1>4. Cardinality(1 .. size) = size
    BY <1>1, FS_Interval
  <1>5. s \in Surjection(1 .. size, S)
    BY <1>3, <1>4, FS_Injection DEF size
  <1>6. Len(s) = size
    BY <1>1, <1>2
  <1> QED
    BY <1>5, <1>6 DEF Surjection

\* transform_data meets every key of the two maps.
LEMMA OrdersStay ==
  ASSUME IInv, OrdersComplete, [Next]_vars
  PROVE  OrdersComplete'
  <1>1. CASE TransformData
    <2>1. /\ pc = "done" /\ UNCHANGED grouping
          /\ group_order' \in SetToSeqs(G!Present)
          /\ range_order' \in SetToSeqs({k \in G!Present : same_write_pattern_map[k] # <<>>})
      BY <1>1 DEF TransformData
    <2>2. IsFiniteSet(G!Present)
      BY <2>1, GroupingDone DEF IInv, StepInv
    <2>3. IsFiniteSet({k \in G!Present : same_write_pattern_map[k] # <<>>})
      BY <2>2, FS_Subset
    <2>4. G!Present' = G!Present /\ same_write_pattern_map' = same_write_pattern_map
      BY <2>1 DEF grouping, G!Present, G!Chunk
    <2>5. \A k \in G!Present : \E n \in 1 .. Len(group_order') : group_order'[n] = k
      BY <2>1, <2>2, ListsAll
    <2>6. \A k \in G!Present : same_write_pattern_map[k] # <<>> =>
            \E n \in 1 .. Len(range_order') : range_order'[n] = k
      BY <2>1, <2>3, ListsAll
    <2> QED
      BY <2>4, <2>5, <2>6 DEF OrdersComplete
  <1>2. CASE ~TransformData
    <2> SUFFICES ASSUME Compiled'
                 PROVE  /\ Compiled
                        /\ UNCHANGED <<hash_info, group_order, range_order, same_write_pattern_map>>
      BY DEF OrdersComplete, G!Present, G!Chunk
    <2> QED
      BY <1>2 DEF Next, GenerateInformation, OptimizationState, GroupIteration, BeginRange,
         RangeIteration, NextLoop, Return, TailIteration, Finish, Running,
         grouping, streams, vars, Compiled
  <1> QED
    BY <1>1, <1>2

-----------------------------------------------------------------------------
(***************************************************************************)
(* The sum                                                                 *)
(***************************************************************************)
\* Before the first step no element is in the output.
LEMMA InitStoresNothing ==
  ASSUME Init
  PROVE  Stored = {}
  <1>1. cursor.data = 0 /\ inner = 0 /\ element = NumChunks * Vector
    BY DEF Init
  <1>2. ReadChunks = {}
    BY <1>1, NothingRead
  <1>3. (\A e \in Element : e \in Int) /\ NumChunks * Vector \in Int
    BY ElementCount
  <1> DEFINE whole == NumChunks * Vector
  <1> HIDE DEF whole
  <1>4. {e \in Element : whole <= e /\ e < whole} = {}
    BY <1>3 DEF whole
  <1> QED
    BY <1>1, <1>2, <1>4 DEF Stored, ElementsOf, whole

\* It holds what was there before, and nothing else.
LEMMA InitAdds ==
  ASSUME Init
  PROVE  AllAdded
  <1>1. /\ cursor.data = 0 /\ inner = 0 /\ element = NumChunks * Vector
        /\ y = [r \in Output |-> SetToBag({<<-1, r>>})]
    BY DEF Init
  <1>2. ReadChunks = {} /\ HeldChunks = {}
    BY <1>1, NothingRead
  <1>3. Stored = {}
    BY InitStoresNothing
  <1>4. \A r : TermsAt({}, r) = {<<-1, r>>}
    BY DEF TermsAt, A!Before
  <1>5. y = A!Sum(Stored)
    BY <1>1, <1>3, <1>4, SumByRow
  <1> QED
    BY <1>1, <1>2, <1>5 DEF AllAdded

\* No step takes an element out of the output, or adds one twice.
LEMMA NextAdds ==
  ASSUME SumInv, [Next]_vars
  PROVE  AllAdded' /\ Stored \subseteq Stored'
  <1>1. CASE GenerateInformation \/ TransformData \/ OptimizationState
    BY <1>1, CompilerAdds
  <1>2. CASE GroupIteration
    BY <1>2, GroupAdds
  <1>3. CASE BeginRange
    BY <1>3, BeginRangeAdds
  <1>4. CASE RangeIteration
    BY <1>4, RangeAdds
  <1>5. CASE NextLoop
    BY <1>5, NextLoopAdds
  <1>6. CASE Return \/ TailIteration \/ Finish
    BY <1>6, TailAdds
  <1>7. CASE UNCHANGED vars
    BY <1>7, StutterAdds
  <1> QED
    BY <1>1, <1>2, <1>3, <1>4, <1>5, <1>6, <1>7 DEF Next

\* spmv_dynvec ends behind the last element.
LEMMA TailStays ==
  ASSUME TailRead, [Next]_vars
  PROVE  TailRead'
  BY DEF TailRead, Next, GenerateInformation, TransformData, OptimizationState, GroupIteration,
     BeginRange, RangeIteration, NextLoop, Return, TailIteration, Finish, Running,
     machine, vars, Element

\* In every state the output holds exactly the elements of the chunks that have
\* been read and are not in the accumulator, and those of the tail so far.
THEOREM OutputIsKnown == HashSeparates => (Spec => []SumInv)
  <1> SUFFICES ASSUME HashSeparates PROVE Spec => []SumInv
    OBVIOUS
  <1>1. Init => SumInv
    <2> SUFFICES ASSUME Init PROVE SumInv
      OBVIOUS
    <2>1. IInv
      BY InitStep, InitOnce DEF IInv
    <2>2. OrdersComplete /\ TailRead
      BY DEF Init, OrdersComplete, Compiled, TailRead
    <2> QED
      BY <2>1, <2>2, InitArrays, InitAdds DEF SumInv
  <1>2. SumInv /\ [Next]_vars => SumInv'
    <2> SUFFICES ASSUME SumInv, [Next]_vars PROVE SumInv'
      OBVIOUS
    <2>1. IInv'
      <3>1. StepInv'
        BY NextStep DEF SumInv, IInv
      <3> QED
        BY <3>1, NextOnce DEF SumInv, IInv
    <2> QED
      BY <2>1, ArraysKept, OrdersStay, NextAdds, TailStays DEF SumInv
  <1> QED
    BY <1>1, <1>2, PTL DEF Spec

-----------------------------------------------------------------------------
(***************************************************************************)
(* The refinement                                                          *)
(***************************************************************************)
\* What is in the output are elements.
LEMMA StoredAreElements ==
  ASSUME SumInv
  PROVE  Stored \subseteq Element
  <1>1. CASE stage \in {"kernel", "tail", "done"}
    BY <1>1, ReadFacts, StoredFacts DEF SumInv
  <1>2. CASE stage \in {"generate", "optimize", "exit"}
    <2>1. cursor.data = 0 /\ inner = 0
      BY <1>2 DEF SumInv, IInv, StepInv, NotStarted
    <2> QED
      BY <2>1, NothingRead, StoredFacts
  <1> QED
    BY <1>1, <1>2 DEF SumInv, IInv, StepInv, OutputKept

\* The elements whose terms are in the sum over D are those of D.
LEMMA TermsOfSum ==
  ASSUME NEW D \in SUBSET Element, row_ptr \in [Element -> Output], y = A!Sum(D)
  PROVE  Added = D
  <1>1. \A r \in Output : DOMAIN y[r] = TermsAt(D, r)
    BY SumByRow DEF SetToBag
  <1>2. ~(-1 \in Element)
    BY ElementCount
  <1>3. ASSUME NEW e \in Added
        PROVE  e \in D
    <2>1. PICK r \in Output : \E t \in DOMAIN y[r] : e = t[1]
      BY DEF Added
    <2>2. PICK t \in TermsAt(D, r) : e = t[1]
      BY <1>1, <2>1
    <2>3. e \in Element
      BY DEF Added
    <2> QED
      BY <1>2, <2>2, <2>3 DEF TermsAt, A!Before, A!Term
  <1>4. ASSUME NEW e \in D
        PROVE  e \in Added
    <2> DEFINE r == row_ptr[e]
    <2>1. r \in Output /\ e \in Element
      OBVIOUS
    <2>2. A!Term(e) \in TermsAt(D, r) /\ A!Term(e)[1] = e
      BY DEF TermsAt, A!Term
    <2> HIDE DEF r
    <2>3. A!Term(e) \in DOMAIN y[r]
      BY <1>1, <2>1, <2>2
    <2> QED
      BY <2>1, <2>2, <2>3 DEF Added
  <1> QED
    BY <1>3, <1>4

\* What the output is seen to hold is what the invariant says it holds.
LEMMA AddedIsStored == SumInv => Added = Stored /\ Stored \subseteq Element
  <1> SUFFICES ASSUME SumInv PROVE Added = Stored /\ Stored \subseteq Element
    OBVIOUS
  <1>1. Stored \subseteq Element
    BY StoredAreElements
  <1> QED
    BY <1>1, TermsOfSum DEF SumInv, AllAdded, ArraysKnown

\* The sum of the invariant, row by row.
LEMMA SumOfStored ==
  y = A!Sum(Stored) => y = [r \in Output |-> SetToBag(TermsAt(Stored, r))]
  BY SumByRow

\* Every step adds elements that have not been added, or stutters.
LEMMA StepAdds ==
  ASSUME SumInv, SumInv', [Next]_vars
  PROVE  [A!Add]_(A!vars)
  <1> DEFINE D == Stored
             E == Stored'
  <1>1. UNCHANGED <<row_ptr, column_ptr>>
    BY NextArrays DEF arrays
  <1>2. D \subseteq E
    BY NextAdds
  <1>3. Added = D /\ D \subseteq Element
    BY AddedIsStored
  <1>4. Added' = E /\ E \subseteq Element
    <2>1. (Added = Stored /\ Stored \subseteq Element)'
      BY AddedIsStored, PTL
    <2> QED
      BY <2>1 DEF Element
  <1>5. y = [r \in Output |-> SetToBag(TermsAt(D, r))]
    BY SumByRow DEF SumInv, AllAdded
  <1>6. y' = [r \in Output |-> SetToBag(TermsAt(E, r))]
    <2>1. (y = [r \in Output |-> SetToBag(TermsAt(Stored, r))])'
      <3>1. (y = A!Sum(Stored))'
        BY DEF SumInv, AllAdded
      <3> QED
        BY <3>1, SumOfStored, PTL
    <2>2. \A r : TermsAt(Stored, r)' = TermsAt(E, r)
      BY <1>1 DEF TermsAt, A!Term, A!Before
    <2> QED
      BY <2>1, <2>2 DEF Output
  <1> HIDE DEF D, E
  <1>7. CASE D = E
    BY <1>1, <1>3, <1>4, <1>5, <1>6, <1>7 DEF A!vars
  <1>8. CASE D # E
    <2>1. ASSUME NEW r \in Output
          PROVE  y'[r] = y[r] (+) SetToBag({A!Term(e) : e \in {f \in E \ D : row_ptr[f] = r}})
      <3> DEFINE old == TermsAt(D, r)
                 new == {A!Term(e) : e \in {f \in E \ D : row_ptr[f] = r}}
      <3>1. TermsAt(E, r) = old \cup new
        BY <1>2 DEF TermsAt
      <3>2. old \cap new = {}
        <4>1. ~(-1 \in Element)
          BY ElementCount
        <4> QED
          BY <1>4, <4>1 DEF TermsAt, A!Term, A!Before
      <3>3. y[r] = SetToBag(old) /\ y'[r] = SetToBag(old \cup new)
        BY <1>5, <1>6, <3>1
      <3> HIDE DEF old, new
      <3>4. SetToBag(old) (+) SetToBag(new) = SetToBag(old \cup new)
        BY <3>2, BagsApart
      <3> QED
        BY <3>3, <3>4 DEF new
    <2>2. y' = [r \in Output |->
                  y[r] (+) SetToBag({A!Term(e) : e \in {f \in E \ D : row_ptr[f] = r}})]
      BY <1>6, <2>1
    <2>3. y' = [r \in Output |->
                  A!(+)(y[r], A!SetToBag({A!Term(e) : e \in {f \in E \ D : row_ptr[f] = r}}))]
      BY <2>2, SameBag, SamePlus
    <2> QED
      BY <1>1, <1>2, <1>3, <1>4, <1>8, <2>3 DEF A!Add
  <1> QED
    BY <1>7, <1>8

\* Every store of the kernel adds whole elements, each once, with its own operand
\* and to its own row, and loses nothing.
THEOREM KernelAddsEveryElementOnce == HashSeparates => (Spec => AddsEveryElementOnce)
  <1> SUFFICES ASSUME HashSeparates PROVE Spec => AddsEveryElementOnce
    OBVIOUS
  <1>1. Spec => []SumInv
    BY OutputIsKnown
  <1>2. Init /\ SumInv => A!Init
    <2> SUFFICES ASSUME Init, SumInv PROVE A!Init
      OBVIOUS
    <2>1. Stored = {}
      BY InitStoresNothing
    <2> QED
      BY <2>1, AddedIsStored DEF A!Init, SumInv, AllAdded, ArraysKnown
  <1>3. SumInv /\ SumInv' /\ [Next]_vars => [A!Add]_(A!vars)
    BY StepAdds
  <1> QED
    BY <1>1, <1>2, <1>3, PTL DEF Spec, AddsEveryElementOnce, A!Spec

-----------------------------------------------------------------------------
(***************************************************************************)
(* The result                                                              *)
(***************************************************************************)
\* A member of a part is in the flattened sequence.
LEMMA PartInFlat ==
  ASSUME NEW T, NEW seqs \in Seq(Seq(T)), NEW k \in 1 .. Len(seqs), NEW p \in 1 .. Len(seqs[k])
  PROVE  \E x \in 1 .. Len(FlattenSeq(seqs)) : FlattenSeq(seqs)[x] = seqs[k][p]
  <1> DEFINE flat == FlattenSeq(seqs)
             lo == Before(seqs, k - 1)
             hi == Before(seqs, k)
             len == Len(seqs[k])
             n == Len(flat)
  <1>1. k - 1 \in 0 .. Len(seqs) /\ k \in 0 .. Len(seqs) /\ seqs[k] \in Seq(T)
    OBVIOUS
  <1>2. /\ flat \in Seq(T)
        /\ lo \in 0 .. n /\ hi \in 0 .. n
        /\ hi = lo + len /\ flat[lo + p] = seqs[k][p]
    BY <1>1, FlattenFacts
  <1>3. n \in Nat /\ len \in Nat /\ p \in 1 .. len
    BY <1>1, <1>2
  <1> HIDE DEF flat, lo, hi, len, n
  <1>4. lo + p \in 1 .. n
    BY <1>2, <1>3
  <1> QED
    BY <1>2, <1>4 DEF flat, n

\* Every chunk is in a loop.
LEMMA EveryChunkLaid ==
  ASSUME IInv, OrdersComplete, Compiled, NEW c \in Chunk
  PROVE  \E n \in 1 .. Len(AllChunks) : AllChunks[n] = c
  <1>1. G!IInv /\ OrdersKnown /\ pc = "done"
    BY CompiledFacts DEF IInv, OrdersKnown
  <1> DEFINE k == hash_info[c]
             groups == Len(GroupChunks)
             flat == FlattenSeq(RangeChunks)
             rest == Len(flat)
  <1>2. c \in G!Chunk /\ k \in G!Present /\ k \in Key
    <2>1. c \in G!Chunk
      BY DEF G!Chunk, Chunk
    <2> QED
      BY <1>1, <2>1, GroupingDone DEF G!Present
  <1>3. G!InGroup(k, c) \/ G!InRange(k, c)
    <2>1. G!Placed(k)
      BY <1>1, <1>2, GroupingHolds DEF G!IInv, G!KeysOutsideRun, G!InsideRun
    <2> QED
      BY <1>2, <2>1 DEF G!Placed, G!ExactlyOneOf
  <1>4. /\ \E n \in 1 .. Len(group_order) : group_order[n] = k
        /\ same_write_pattern_map[k] # <<>> =>
             \E n \in 1 .. Len(range_order) : range_order[n] = k
    BY <1>2 DEF OrdersComplete
  <1>5. /\ AllChunks \in Seq(Chunk) /\ Len(AllChunks) = groups + rest
        /\ \A n \in 1 .. groups : AllChunks[n] = GroupChunks[n]
        /\ \A n \in 1 .. rest : AllChunks[groups + n] = flat[n]
    BY <1>1, ChunksFacts
  <1>6. GroupChunks \in Seq(Chunk) /\ groups \in Nat
    BY <1>1, GroupsFacts
  <1>7. Ranges \in Seq(Long)
    BY <1>1, RangesFacts
  <1>8. flat \in Seq(Chunk) /\ rest \in Nat
    BY <1>7, RangeChunksFacts
  <1>9. CASE G!InGroup(k, c)
    <2>1. PICK p \in 1 .. Len(same_feature_map[k]) : same_feature_map[k][p] = c
      BY <1>9 DEF G!InGroup
    <2>2. PICK n \in 1 .. Len(group_order) : group_order[n] = k
      BY <1>4
    <2>3. /\ Groups \in Seq(Seq(Chunk)) /\ n \in 1 .. Len(Groups)
          /\ Groups[n] = same_feature_map[k] /\ GroupChunks = FlattenSeq(Groups)
      BY <1>1, <2>2, GroupsFacts
    <2>4. p \in 1 .. Len(Groups[n]) /\ Groups[n][p] = c
      BY <2>1, <2>3
    <2>5. \E x \in 1 .. Len(FlattenSeq(Groups)) : FlattenSeq(Groups)[x] = Groups[n][p]
      <3>1. Groups \in Seq(Seq(Chunk)) /\ n \in 1 .. Len(Groups) /\ p \in 1 .. Len(Groups[n])
        BY <2>3, <2>4
      <3> HIDE DEF k, groups, flat, rest
      <3> QED
        BY <3>1, PartInFlat, Zenon
    <2>6. PICK x \in 1 .. groups : GroupChunks[x] = c
      BY <2>3, <2>4, <2>5
    <2> HIDE DEF groups, rest
    <2>7. x \in 1 .. Len(AllChunks)
      BY <1>5, <1>6, <1>8
    <2> QED
      BY <1>5, <2>6, <2>7
  <1>10. CASE G!InRange(k, c)
    <2>1. PICK r \in 1 .. Len(same_write_pattern_map[k]) :
            /\ same_write_pattern_map[k][r][1] <= c
            /\ c < same_write_pattern_map[k][r][2]
      BY <1>10 DEF G!InRange
    <2>2. same_write_pattern_map[k] # <<>>
      BY <2>1
    <2>3. PICK n \in 1 .. Len(range_order) : range_order[n] = k
      BY <1>4, <2>2
    <2>4. /\ RangeLists \in Seq(Seq(Long)) /\ n \in 1 .. Len(RangeLists)
          /\ RangeLists[n] = same_write_pattern_map[k] /\ Ranges = FlattenSeq(RangeLists)
      BY <1>1, <2>3, RangesFacts
    <2>5. r \in 1 .. Len(RangeLists[n])
      BY <2>1, <2>4
    <2>6. \E x \in 1 .. Len(FlattenSeq(RangeLists)) :
            FlattenSeq(RangeLists)[x] = RangeLists[n][r]
      <3>1. /\ RangeLists \in Seq(Seq(Long)) /\ n \in 1 .. Len(RangeLists)
            /\ r \in 1 .. Len(RangeLists[n])
        BY <2>4, <2>5
      <3> HIDE DEF k, groups, flat, rest
      <3> QED
        BY <3>1, PartInFlat, Zenon
    <2>7. PICK x \in 1 .. Len(Ranges) : Ranges[x] = same_write_pattern_map[k][r]
      BY <2>4, <2>6
    <2> DEFINE lo == Ranges[x][1]
               hi == Ranges[x][2]
    <2>8. /\ lo \in Chunk /\ lo \in Int /\ hi \in Int /\ c \in Int
           /\ lo <= c /\ c < hi
      <3>1. lo \in Chunk /\ hi \in Int
        BY <1>7, RangeChunksFacts
      <3>2. \A d \in Chunk : d \in Int
        BY DEF Chunk
      <3>3. lo <= c /\ c < hi
        BY <2>1, <2>7
      <3> HIDE DEF lo, hi
      <3> QED
        BY <3>1, <3>2, <3>3
    <2>9. /\ RangeChunks \in Seq(Seq(Chunk)) /\ x \in 1 .. Len(RangeChunks)
          /\ Len(RangeChunks[x]) = hi - lo
          /\ \A p \in 1 .. hi - lo : RangeChunks[x][p] = lo + p - 1
      BY <1>7, RangeChunksFacts
    <2> DEFINE p == c - lo + 1
    <2> HIDE DEF lo, hi
    <2>10. p \in 1 .. hi - lo /\ lo + p - 1 = c
      BY <2>8
    <2>11. p \in 1 .. Len(RangeChunks[x]) /\ RangeChunks[x][p] = c
      BY <2>9, <2>10
    <2> HIDE DEF p
    <2>12. PICK z \in 1 .. rest : flat[z] = c
      BY <2>9, <2>11, PartInFlat
    <2> HIDE DEF groups, flat, rest
    <2>13. groups + z \in 1 .. Len(AllChunks)
      BY <1>5, <1>6, <1>8
    <2> QED
      BY <1>5, <2>12, <2>13
  <1> QED
    BY <1>3, <1>9, <1>10

\* At the end every element is in the output.
LEMMA AllStored ==
  ASSUME SumInv, stage = "done"
  PROVE  Stored = Element
  <1>1. StepInv /\ IInv /\ OrdersComplete /\ Compiled
    BY DEF SumInv, IInv, Compiled
  <1>2. at > Len(loops)
    BY <1>1 DEF StepInv, LoopsInStep
  <1>3. HeldChunks = {}
    BY <1>1, <1>2, NothingHeld DEF HeldChunks
  <1>4. ReadChunks = FirstChunks(Len(AllChunks))
    <2>1. ChunksPassed = Len(AllChunks)
      BY <1>1, <1>2, PassedFacts
    <2> QED
      BY <1>1, <2>1, ReadFacts
  <1>5. Chunk \subseteq ReadChunks
    BY <1>1, <1>4, EveryChunkLaid DEF FirstChunks
  <1> DEFINE whole == NumChunks * Vector
             size == Cardinality(Element)
  <1>6. whole \in Nat /\ size \in Nat /\ Element = 0 .. size - 1
    BY ElementCount
  <1>7. element \notin Element /\ element \in whole .. size
    BY <1>1 DEF SumInv, TailRead, StepInv, OutputKept
  <1>8. ASSUME NEW e \in Element
        PROVE  e \in Stored
    <2>1. CASE e < whole
      <3> DEFINE c == e \div Vector
                 l == e % Vector
      <3>1. e \in Nat
        BY <1>6
      <3>2. c \in Chunk /\ l \in Lane
        BY <2>1, <3>1, ChunkAndLane
      <3>3. e = c * Vector + l
        <4>1. CASE Vector = 4
          BY <3>1, <4>1
        <4>2. CASE Vector = 8
          BY <3>1, <4>2
        <4>3. CASE Vector = 16
          BY <3>1, <4>3
        <4> QED
          BY <4>1, <4>2, <4>3, VectorAssumption
      <3> HIDE DEF c, l
      <3> QED
        BY <1>3, <1>5, <3>2, <3>3 DEF Stored, ElementsOf
    <2>2. CASE ~(e < whole)
      <3>1. whole <= e /\ e < element
        <4> HIDE DEF whole, size
        <4> QED
          BY <1>6, <1>7, <2>2
      <3> QED
        BY <3>1 DEF Stored
    <2> QED
      BY <2>1, <2>2
  <1> QED
    BY <1>8, StoredAreElements

\* After the call the output is the sum over all elements, whatever the matrix,
\* the features and the order of the two maps, if chunks of one hash can share
\* a loop.
THEOREM OutputIsTheSum == HashSeparates => (Spec => []ResultCorrect)
  <1> SUFFICES ASSUME HashSeparates PROVE Spec => []ResultCorrect
    OBVIOUS
  <1>1. SumInv => ResultCorrect
    BY AllStored DEF ResultCorrect, SumInv, AllAdded
  <1> QED
    BY <1>1, OutputIsKnown, PTL
=============================================================================
