--------------------------- MODULE GroupingProofs ---------------------------
(***************************************************************************)
(* Proofs about Grouping, for every number of chunks, every set of feature *)
(* hashes and every set of output locations.                               *)
(***************************************************************************)
EXTENDS Grouping, TLAPS

\* What appending one element does to a sequence.
LEMMA AppendFacts ==
  ASSUME NEW S, NEW s \in Seq(S), NEW e \in S
  PROVE  /\ Append(s, e) \in Seq(S)
         /\ Len(Append(s, e)) = Len(s) + 1
         /\ Len(s) \in Nat
         /\ \A p \in 1 .. Len(s) : Append(s, e)[p] = s[p]
         /\ Append(s, e)[Len(s) + 1] = e
  OBVIOUS

\* The elements of a sequence are in its range set.
LEMMA ElementFacts ==
  ASSUME NEW S, NEW s \in Seq(S)
  PROVE  /\ Len(s) \in Nat
         /\ \A p \in 1 .. Len(s) : s[p] \in S
  OBVIOUS

\* The invariant holds before the first chunk is grouped.
LEMMA InitIInv == Init => IInv
  <1> SUFFICES ASSUME Init PROVE IInv
    OBVIOUS
  <1> USE GroupingAssumption DEF Init
  <1>1. TypeOK
    <2>1. \A k \in Key : <<>> \in Seq(Chunk)
      OBVIOUS
    <2>2. \A k \in Key : <<>> \in Seq(Chunk \X (1 .. NumChunks))
      OBVIOUS
    <2>3. order_type \in [Chunk -> OrderType]
      OBVIOUS
    <2> QED
      BY <2>1, <2>2, <2>3 DEF TypeOK
  <1>2. KeyFixesOrder
    BY DEF KeyFixesOrder
  <1>3. GroupsIncreasing
    BY DEF GroupsIncreasing, Increasing
  <1>4. RangesAreRuns
    BY DEF RangesAreRuns
  <1>5. Appending
    BY DEF Appending, InGroup, Chunk
  <1>6. KeysOutsideRun
    BY DEF KeysOutsideRun
  <1>7. InsideRun
    BY DEF InsideRun
  <1> QED
    BY <1>1, <1>2, <1>3, <1>4, <1>5, <1>6, <1>7 DEF IInv

\* Appending chunk i to the index vector of its key.
LEMMA CombinSameFeatureStep ==
  ASSUME IInv, CombinSameFeature
  PROVE  IInv'
  <1> DEFINE h == hash_info[i]
             old == same_feature_map[h]
  <1> USE GroupingAssumption
  <1>1. /\ TypeOK /\ KeyFixesOrder /\ GroupsIncreasing /\ RangesAreRuns
        /\ Appending /\ InsideRun
    BY DEF IInv
  <1>2. /\ i \in Chunk
        /\ h \in Key
        /\ old \in Seq(Chunk)
        /\ Append(old, i) \in Seq(Chunk)
        /\ same_feature_map' = [same_feature_map EXCEPT ![h] = Append(old, i)]
        /\ same_feature_map \in [Key -> Seq(Chunk)]
    BY <1>1 DEF CombinSameFeature, TypeOK, Chunk
  <1>3. /\ same_feature_map'[h] = Append(old, i)
        /\ \A k \in Key : k # h => same_feature_map'[k] = same_feature_map[k]
        /\ same_feature_map' \in [Key -> Seq(Chunk)]
    BY <1>2
  <1>4. /\ Len(Append(old, i)) = Len(old) + 1
        /\ Len(old) \in Nat
        /\ \A p \in 1 .. Len(old) : Append(old, i)[p] = old[p] /\ old[p] \in Chunk
        /\ Append(old, i)[Len(old) + 1] = i
    BY <1>2, AppendFacts, ElementFacts
  <1>5. /\ pc = "feature" /\ pc' = "feature" /\ key = NoKey /\ i' = i + 1
        /\ UNCHANGED <<hash_info, order_type, write_local, scatter_num,
                       same_write_pattern_map, todo, key, begin, j,
                       new_index_vec>>
    BY <1>1 DEF CombinSameFeature, InsideRun, input, scan
  <1>6. TypeOK'
    BY <1>1, <1>3, <1>5 DEF TypeOK, CombinSameFeature, Chunk
  <1>7. KeyFixesOrder'
    BY <1>1, <1>5 DEF KeyFixesOrder
  <1>8. GroupsIncreasing'
    <2>1. \A p \in 1 .. Len(old) : old[p] < i
      BY <1>1, <1>2, <1>4, <1>5 DEF Appending, InGroup
    <2>2. Increasing(old)
      BY <1>1, <1>2 DEF GroupsIncreasing
    <2>3. Increasing(Append(old, i))
      BY <1>4, <2>1, <2>2 DEF Increasing
    <2> QED
      BY <1>1, <1>3, <2>3 DEF GroupsIncreasing
  <1>9. RangesAreRuns'
    BY <1>1, <1>5 DEF RangesAreRuns
  <1>10. Appending'
    <2>1. ASSUME NEW k \in Key, NEW c \in Chunk
          PROVE  InGroup(k, c)' <=> c < i' /\ hash_info'[c] = k
      <3>1. InGroup(k, c) <=> c < i /\ hash_info[c] = k
        BY <1>1, <1>5 DEF Appending
      <3>2. CASE k # h
        <4>1. InGroup(k, c)' <=> InGroup(k, c)
          BY <1>3, <3>2 DEF InGroup
        <4> QED
          BY <1>2, <1>5, <3>1, <3>2, <4>1 DEF Chunk
      <3>3. CASE k = h
        <4>1. /\ InGroup(k, c)' <=> \E p \in 1 .. Len(old) + 1 : Append(old, i)[p] = c
              /\ InGroup(k, c) <=> \E p \in 1 .. Len(old) : old[p] = c
          BY <1>3, <1>4, <3>3 DEF InGroup
        <4>2. \A p \in 1 .. Len(old) + 1 : p \in 1 .. Len(old) \/ p = Len(old) + 1
          BY <1>4
        <4>3. InGroup(k, c)' <=> InGroup(k, c) \/ c = i
          BY <1>4, <4>1, <4>2
        <4> QED
          BY <1>2, <1>5, <3>1, <3>3, <4>3 DEF Chunk
      <3> QED
        BY <3>2, <3>3
    <2> QED
      BY <1>1, <1>5, <2>1 DEF Appending
  <1>11. KeysOutsideRun'
    BY <1>5 DEF KeysOutsideRun
  <1>12. InsideRun'
    BY <1>5 DEF InsideRun
  <1> QED
    BY <1>6, <1>7, <1>8, <1>9, <1>10, <1>11, <1>12 DEF IInv

\* A key no run has touched is placed: all its chunks are in its group.
LEMMA UnvisitedIsPlaced ==
  ASSUME NEW k \in Key, Unvisited(k)
  PROVE  Placed(k)
  <1>1. \A c \in Chunk : ~InRange(k, c)
    BY DEF Unvisited, InRange
  <1>2. RangesApart(k)
    BY DEF Unvisited, RangesApart
  <1> QED
    BY <1>1, <1>2 DEF Unvisited, Placed, ExactlyOneOf

\* From appending to visiting the keys, or straight to the end.
LEMMA CombinSameWritePatternStep ==
  ASSUME IInv, CombinSameWritePattern
  PROVE  IInv'
  <1> USE GroupingAssumption
  <1>1. /\ TypeOK /\ KeyFixesOrder /\ GroupsIncreasing /\ RangesAreRuns
        /\ Appending /\ InsideRun
    BY DEF IInv
  <1>2. /\ pc = "feature" /\ i = NumChunks /\ key = NoKey /\ todo = {}
        /\ UNCHANGED <<hash_info, order_type, write_local, scatter_num, i,
                       same_feature_map, same_write_pattern_map, key, begin, j,
                       new_index_vec>>
        /\ \/ pc' = "keys" /\ todo' = Present
           \/ pc' = "done" /\ todo' = {}
    BY <1>1 DEF CombinSameWritePattern, Appending, InsideRun, input
  <1>3. TypeOK'
    BY <1>1, <1>2 DEF TypeOK, Present
  <1>4. KeyFixesOrder' /\ GroupsIncreasing' /\ RangesAreRuns'
    BY <1>1, <1>2 DEF KeyFixesOrder, GroupsIncreasing, RangesAreRuns
  <1>5. Appending' /\ InsideRun'
    BY <1>2 DEF Appending, InsideRun
  <1>6. KeysOutsideRun'
    <2>1. \A k \in Key : Unvisited(k)
      BY <1>1, <1>2 DEF Appending, Unvisited, Chunk
    <2>2. \A k \in Key : Placed(k)
      BY <2>1, UnvisitedIsPlaced
    <2>3. \A k \in Key : Unvisited(k)' /\ Placed(k)'
      BY <1>2, <2>1, <2>2
         DEF Unvisited, Placed, InGroup, InRange, RangesApart, ExactlyOneOf
    <2> QED
      BY <1>2, <2>3 DEF KeysOutsideRun, Present
  <1> QED
    BY <1>3, <1>4, <1>5, <1>6 DEF IInv
\* A key in todo has a chunk, so its index vector has a leader, and the leader
\* has the order type of every chunk of the key.
LEMMA LeaderSpeaksForKey ==
  ASSUME TypeOK, KeyFixesOrder, NEW k \in Present, Unvisited(k)
  PROVE  /\ Len(same_feature_map[k]) \in Nat \ {0}
         /\ \A c \in Chunk : hash_info[c] = k => order_type[c] = LeaderOrder(k)
  <1>1. k \in Key /\ same_feature_map[k] \in Seq(Chunk)
    BY DEF TypeOK, Present
  <1>2. PICK c \in Chunk : hash_info[c] = k
    BY DEF Present
  <1>3. PICK p \in 1 .. Len(same_feature_map[k]) : same_feature_map[k][p] = c
    BY <1>2 DEF Unvisited, InGroup
  <1>4. Len(same_feature_map[k]) \in Nat \ {0}
    BY <1>1, <1>3
  <1>5. same_feature_map[k][1] \in Chunk /\ InGroup(k, same_feature_map[k][1])
    BY <1>1, <1>4 DEF InGroup
  <1>6. hash_info[same_feature_map[k][1]] = k
    BY <1>5 DEF Unvisited
  <1> QED
    BY <1>4, <1>5, <1>6 DEF KeyFixesOrder, LeaderOrder

\* A key that is left alone.
LEMMA VisitOtherStep ==
  ASSUME IInv, NEW k \in todo, VisitOther(k)
  PROVE  IInv'
  <1>1. /\ TypeOK /\ KeyFixesOrder /\ GroupsIncreasing /\ RangesAreRuns
        /\ KeysOutsideRun /\ InsideRun
    BY DEF IInv
  <1>2. /\ pc = "keys" /\ key = NoKey /\ k \in Key
        /\ i = NumChunks /\ todo \subseteq Present /\ Unvisited(k)
        /\ todo' = todo \ {k}
        /\ UNCHANGED <<hash_info, order_type, write_local, scatter_num, pc, i,
                       same_feature_map, same_write_pattern_map, key, begin, j,
                       new_index_vec>>
    BY <1>1, GroupingAssumption
       DEF VisitOther, KeysOutsideRun, InsideRun, TypeOK, input
  <1>3. TypeOK' /\ KeyFixesOrder' /\ GroupsIncreasing' /\ RangesAreRuns'
    BY <1>1, <1>2 DEF TypeOK, KeyFixesOrder, GroupsIncreasing, RangesAreRuns
  <1>4. Appending' /\ InsideRun'
    BY <1>2 DEF Appending, InsideRun
  <1>5. KeysOutsideRun'
    <2>1. Placed(k)
      BY <1>2, UnvisitedIsPlaced
    <2>2. ASSUME NEW q \in Key
          PROVE  IF q \in todo' THEN Unvisited(q)' ELSE Placed(q)'
      <3>1. IF q \in todo' THEN Unvisited(q) ELSE Placed(q)
        BY <1>1, <1>2, <2>1, GroupingAssumption DEF KeysOutsideRun
      <3> QED
        BY <1>2, <3>1
           DEF Unvisited, Placed, InGroup, InRange, RangesApart, ExactlyOneOf
    <2> QED
      BY <1>2, <2>2 DEF KeysOutsideRun, Present
  <1> QED
    BY <1>3, <1>4, <1>5 DEF IInv

\* The scan of a key starts with nothing scanned and a run of one chunk.
LEMMA VisitEqualStep ==
  ASSUME IInv, NEW k \in todo, VisitEqual(k)
  PROVE  IInv'
  <1>1. /\ TypeOK /\ KeyFixesOrder /\ GroupsIncreasing /\ RangesAreRuns
        /\ KeysOutsideRun /\ InsideRun
    BY DEF IInv
  <1>2. /\ pc = "keys" /\ pc' = "run" /\ key = NoKey /\ k \in Key
        /\ i = NumChunks /\ todo \subseteq Present /\ Unvisited(k)
        /\ LeaderOrder(k) = "OrderEquel"
        /\ key' = k /\ begin' = 1 /\ j' = 2 /\ new_index_vec' = <<>>
        /\ UNCHANGED <<hash_info, order_type, write_local, scatter_num, i,
                       same_feature_map, same_write_pattern_map, todo>>
    BY <1>1, GroupingAssumption
       DEF VisitEqual, KeysOutsideRun, InsideRun, TypeOK, input
  <1>3. TypeOK'
    BY <1>1, <1>2 DEF TypeOK
  <1>4. KeyFixesOrder' /\ GroupsIncreasing' /\ RangesAreRuns'
    BY <1>1, <1>2 DEF KeyFixesOrder, GroupsIncreasing, RangesAreRuns
  <1>5. Appending'
    BY <1>2 DEF Appending
  <1>6. KeysOutsideRun'
    <2>1. ASSUME NEW q \in Key \ {k}
          PROVE  IF q \in todo' THEN Unvisited(q)' ELSE Placed(q)'
      <3>1. IF q \in todo THEN Unvisited(q) ELSE Placed(q)
        BY <1>1, <1>2, GroupingAssumption DEF KeysOutsideRun
      <3> QED
        BY <1>2, <3>1
           DEF Unvisited, Placed, InGroup, InRange, RangesApart, ExactlyOneOf
    <2> QED
      BY <1>2, <2>1 DEF KeysOutsideRun, Present
  <1>7. InsideRun'
    <2> DEFINE v == same_feature_map[k]
    <2>1. /\ Len(v) \in Nat \ {0}
          /\ \A c \in Chunk : hash_info[c] = k => order_type[c] = "OrderEquel"
      BY <1>1, <1>2, LeaderSpeaksForKey
    <2>2. v \in Seq(Chunk) /\ index_vec' = v /\ v[1] \in Chunk
      BY <1>1, <1>2, <2>1 DEF TypeOK, index_vec
    <2>3. RunSoFar'
      BY <1>2, <2>1, <2>2 DEF RunSoFar, Chunk
    <2>4. KeyIntact'
      BY <1>2, <2>1 DEF KeyIntact, Unvisited, InGroup
    <2>5. \A c \in Chunk : ~Scanned(c)' /\ ~Kept(c)' /\ ~InRange(key, c)'
      BY <1>2 DEF Scanned, Kept, InRange, Unvisited
    <2>6. Increasing(new_index_vec)' /\ RangesApart(key)'
      BY <1>2 DEF Increasing, RangesApart, Unvisited
    <2> QED
      BY <1>2, <2>3, <2>4, <2>5, <2>6 DEF InsideRun, ScannedOnce
  <1> QED
    BY <1>3, <1>4, <1>5, <1>6, <1>7 DEF IInv

\* One more chunk joins the run.
LEMMA ExtendRunStep ==
  ASSUME IInv, ExtendRun
  PROVE  IInv'
  <1>1. /\ TypeOK /\ KeyFixesOrder /\ GroupsIncreasing /\ RangesAreRuns
        /\ KeysOutsideRun /\ InsideRun
    BY DEF IInv
  <1>2. /\ pc = "run" /\ begin <= Len(index_vec) /\ ContinuesRun
        /\ key \in Key /\ j' = j + 1 /\ index_vec' = index_vec
        /\ UNCHANGED <<hash_info, order_type, write_local, scatter_num, pc, i,
                       same_feature_map, same_write_pattern_map, todo, key,
                       begin, new_index_vec>>
    BY <1>1 DEF ExtendRun, InsideRun, TypeOK, input, index_vec
  <1>3. TypeOK'
    BY <1>1, <1>2 DEF TypeOK
  <1>4. KeyFixesOrder' /\ GroupsIncreasing' /\ RangesAreRuns'
    BY <1>1, <1>2 DEF KeyFixesOrder, GroupsIncreasing, RangesAreRuns
  <1>5. Appending'
    BY <1>2 DEF Appending
  <1>6. KeysOutsideRun'
    BY <1>1, <1>2
       DEF KeysOutsideRun, Present, Unvisited, Placed, InGroup, InRange,
           RangesApart, ExactlyOneOf
  <1>7. InsideRun'
    <2> DEFINE v == index_vec
    <2>1. /\ v \in Seq(Chunk) /\ begin \in Nat /\ j \in Nat /\ Len(v) \in Nat
          /\ RunSoFar /\ KeyIntact /\ ScannedOnce
      BY <1>1, <1>2 DEF TypeOK, index_vec, InsideRun
    <2>2. /\ begin \in 1 .. Len(v) /\ begin < j /\ j <= Len(v)
          /\ \A p \in begin .. j - 1 :
               /\ v[p] = v[begin] + (p - begin)
               /\ write_local[v[p]] = write_local[v[begin]]
          /\ v[begin] \in Int
          /\ v[j] = v[j - 1] + 1
          /\ write_local[v[j]] = write_local[v[begin]]
      BY <1>2, <2>1, GroupingAssumption DEF RunSoFar, ContinuesRun, Chunk
    <2>3. j - 1 \in begin .. j - 1 /\ (j + 1) - 1 = j
      BY <2>1, <2>2
    <2>4. v[j] = v[begin] + (j - begin)
      <3>1. v[j - 1] = v[begin] + ((j - 1) - begin)
        BY <2>2, <2>3
      <3>2. v[begin] \in Int /\ j \in Int /\ begin \in Int /\ v[j] = v[j - 1] + 1
        BY <2>1, <2>2
      <3> HIDE DEF v
      <3> QED
        BY <3>1, <3>2
    <2>5. ASSUME NEW p \in begin .. j
          PROVE  /\ v[p] = v[begin] + (p - begin)
                 /\ write_local[v[p]] = write_local[v[begin]]
      <3>1. p \in begin .. j - 1 \/ p = j
        BY <2>1
      <3> QED
        BY <2>2, <2>4, <3>1
    <2>6. RunSoFar'
      BY <1>2, <2>1, <2>2, <2>3, <2>5 DEF RunSoFar
    <2>7. KeyIntact'
      BY <1>2, <2>1 DEF KeyIntact, InGroup
    <2>8. ScannedOnce'
      BY <1>2, <2>1
         DEF ScannedOnce, Scanned, Kept, InRange, RangesApart, Increasing,
             ExactlyOneOf
    <2> QED
      BY <1>1, <1>2, <2>6, <2>7, <2>8 DEF InsideRun
  <1> QED
    BY <1>3, <1>4, <1>5, <1>6, <1>7 DEF IInv
\* The run that ends at j - 1, seen from the chunks: it is the interval from
\* its first chunk to its last, and it lies above everything scanned before.
InRun(c) == \E p \in begin .. j - 1 : index_vec[p] = c

\* What the run being measured is, and where.
LEMMA RunFacts ==
  ASSUME IInv, pc = "run", begin <= Len(index_vec)
  PROVE  /\ key \in Key /\ index_vec \in Seq(Chunk)
         /\ Len(index_vec) \in Nat /\ j \in Nat
         /\ begin \in 1 .. Len(index_vec) /\ begin < j /\ j - 1 \in begin .. Len(index_vec)
         /\ index_vec[begin] \in Chunk /\ index_vec[j - 1] \in Chunk
         /\ index_vec[j - 1] = index_vec[begin] + ((j - 1) - begin)
         /\ \A c \in Chunk :
              /\ InRun(c) <=> index_vec[begin] <= c /\ c < index_vec[j - 1] + 1
              /\ InRun(c) => /\ hash_info[c] = key
                             /\ order_type[c] = "OrderEquel"
                             /\ write_local[c] = write_local[index_vec[begin]]
              /\ Scanned(c) => c < index_vec[begin]
  <1> DEFINE v == index_vec
  <1>1. TypeOK /\ GroupsIncreasing /\ InsideRun
    BY DEF IInv
  <1>2. /\ key \in Key /\ v \in Seq(Chunk) /\ Len(v) \in Nat /\ j \in Nat
        /\ Increasing(v) /\ RunSoFar /\ KeyIntact
    BY <1>1 DEF TypeOK, InsideRun, GroupsIncreasing, index_vec
  <1>3. /\ begin \in 1 .. Len(v) /\ begin < j /\ j - 1 \in begin .. Len(v)
        /\ \A p \in begin .. j - 1 :
             /\ v[p] = v[begin] + (p - begin)
             /\ write_local[v[p]] = write_local[v[begin]]
    BY <1>2 DEF RunSoFar
  <1>4. \A p \in 1 .. Len(v) : v[p] \in Chunk
    BY <1>2, ElementFacts
  <1>5. /\ v[begin] \in Chunk /\ v[j - 1] \in Chunk
        /\ v[j - 1] = v[begin] + ((j - 1) - begin)
    BY <1>2, <1>3, <1>4
  <1>6. ASSUME NEW c \in Chunk
        PROVE  InRun(c) <=> v[begin] <= c /\ c < v[j - 1] + 1
    <2>1. ASSUME NEW p \in begin .. j - 1, v[p] = c
          PROVE  v[begin] <= c /\ c < v[j - 1] + 1
      <3>1. c = v[begin] + (p - begin) /\ p \in Int /\ begin <= p /\ p <= j - 1
        BY <1>2, <1>3, <2>1
      <3>2. v[begin] \in Int /\ begin \in Int /\ j \in Int
        BY <1>2, <1>3, <1>5, GroupingAssumption DEF Chunk
      <3> HIDE DEF v
      <3> QED
        BY <1>5, <3>1, <3>2
    <2>2. ASSUME v[begin] <= c, c < v[j - 1] + 1
          PROVE  \E p \in begin .. j - 1 : v[p] = c
      <3>1. v[begin] \in Int /\ begin \in Int /\ j \in Int /\ c \in Int
        BY <1>2, <1>3, <1>5, GroupingAssumption DEF Chunk
      <3> DEFINE p == begin + (c - v[begin])
      <3>2. p \in begin .. j - 1 /\ c = v[begin] + (p - begin)
        <4> HIDE DEF v
        <4> QED
          BY <1>5, <2>2, <3>1
      <3> QED
        BY <1>3, <3>2
    <2> QED
      BY <2>1, <2>2 DEF InRun
  <1>7. ASSUME NEW c \in Chunk, InRun(c)
        PROVE  /\ hash_info[c] = key
               /\ order_type[c] = "OrderEquel"
               /\ write_local[c] = write_local[v[begin]]
    <2>1. PICK p \in begin .. j - 1 : v[p] = c
      BY <1>7 DEF InRun
    <2>2. InGroup(key, c)
      BY <1>2, <1>3, <2>1 DEF InGroup, index_vec
    <2> QED
      BY <1>2, <1>3, <2>1, <2>2 DEF KeyIntact
  <1>8. ASSUME NEW c \in Chunk, Scanned(c)
        PROVE  c < v[begin]
    BY <1>2, <1>3, <1>8 DEF Scanned, Increasing
  <1> QED
    BY <1>2, <1>3, <1>5, <1>6, <1>7, <1>8

\* What every way of closing a run leaves in place.
LEMMA CloseRunFrame ==
  ASSUME IInv, CloseRun
  PROVE  /\ pc = "run" /\ pc' = "run" /\ key' = key /\ begin' = j /\ j' = j + 1
         /\ index_vec' = index_vec /\ begin <= Len(index_vec)
         /\ KeyFixesOrder' /\ GroupsIncreasing' /\ Appending' /\ KeysOutsideRun'
         /\ RunSoFar' /\ KeyIntact'
         /\ \A c \in Chunk : Scanned(c)' <=> Scanned(c) \/ InRun(c)
  <1>1. /\ TypeOK /\ KeyFixesOrder /\ GroupsIncreasing /\ KeysOutsideRun /\ InsideRun
    BY DEF IInv
  <1>2. /\ pc = "run" /\ begin <= Len(index_vec)
        /\ index_vec' = index_vec /\ begin' = j /\ j' = j + 1
        /\ UNCHANGED <<hash_info, order_type, write_local, scatter_num, pc, i,
                       same_feature_map, todo, key>>
        /\ \A k \in Key \ {key} :
             same_write_pattern_map'[k] = same_write_pattern_map[k]
    BY <1>1 DEF CloseRun, TypeOK, input, index_vec
  <1>3. KeyFixesOrder' /\ GroupsIncreasing' /\ Appending'
    BY <1>1, <1>2 DEF KeyFixesOrder, GroupsIncreasing, Appending
  <1>4. KeysOutsideRun'
    <2>1. ASSUME NEW k \in Key \ {key}
          PROVE  IF k \in todo' THEN Unvisited(k)' ELSE Placed(k)'
      <3>1. IF k \in todo THEN Unvisited(k) ELSE Placed(k)
        BY <1>1, <1>2 DEF KeysOutsideRun
      <3>2. same_write_pattern_map'[k] = same_write_pattern_map[k]
        BY <1>2
      <3> QED
        BY <1>2, <3>1, <3>2
           DEF Unvisited, Placed, InGroup, InRange, RangesApart, ExactlyOneOf
    <2> QED
      BY <1>1, <1>2, <2>1 DEF KeysOutsideRun, Present
  <1>5. KeyIntact'
    BY <1>1, <1>2 DEF InsideRun, KeyIntact, InGroup
  <1>6. /\ index_vec \in Seq(Chunk) /\ Len(index_vec) \in Nat /\ j \in Nat
        /\ begin \in 1 .. Len(index_vec) /\ begin < j /\ j <= Len(index_vec) + 1
    BY <1>2, RunFacts
  <1>7. RunSoFar'
    <2>1. ASSUME j <= Len(index_vec)
          PROVE  \A p \in j .. (j + 1) - 1 :
                   /\ index_vec[p] = index_vec[j] + (p - j)
                   /\ write_local[index_vec[p]] = write_local[index_vec[j]]
      <3>1. index_vec[j] \in Int
        <4>1. index_vec[j] \in Chunk
          BY <1>6, <2>1, ElementFacts
        <4> QED
          BY <4>1, GroupingAssumption DEF Chunk
      <3>2. \A p \in j .. (j + 1) - 1 : p = j
        BY <1>6
      <3> QED
        BY <1>6, <3>1, <3>2
    <2> QED
      BY <1>2, <1>6, <2>1 DEF RunSoFar
  <1>8. ASSUME NEW c \in Chunk
        PROVE  Scanned(c)' <=> Scanned(c) \/ InRun(c)
    <2>1. Scanned(c)' <=> \E p \in 1 .. Len(index_vec) : p < j /\ index_vec[p] = c
      BY <1>2 DEF Scanned
    <2> QED
      BY <1>6, <2>1 DEF Scanned, InRun
  <1> QED
    BY <1>2, <1>3, <1>4, <1>5, <1>7, <1>8

\* A run of one chunk: the chunk is kept.
LEMMA CloseSingleStep ==
  ASSUME IInv, CloseRun, j - begin = 1
  PROVE  IInv'
  <1> DEFINE first == index_vec[begin]
             kept == new_index_vec
  <1>1. /\ TypeOK /\ RangesAreRuns /\ InsideRun
    BY DEF IInv
  <1>2. /\ new_index_vec' = Append(kept, first)
        /\ UNCHANGED <<hash_info, order_type, write_local, scatter_num, i,
                       same_feature_map, same_write_pattern_map, todo>>
    BY DEF CloseRun, input
  <1>3. /\ first \in Chunk /\ kept \in Seq(Chunk) /\ key \in todo
        /\ ScannedOnce /\ pc = "run" /\ begin \in Nat /\ j \in Nat
    BY <1>1, CloseRunFrame, RunFacts DEF InsideRun, TypeOK
  <1>4. /\ Append(kept, first) \in Seq(Chunk)
        /\ Len(Append(kept, first)) = Len(kept) + 1
        /\ Len(kept) \in Nat
        /\ \A q \in 1 .. Len(kept) :
             Append(kept, first)[q] = kept[q] /\ kept[q] \in Chunk
        /\ Append(kept, first)[Len(kept) + 1] = first
    BY <1>3, AppendFacts, ElementFacts
  <1>5. TypeOK'
    <2>1. pc' = "run" /\ key' = key /\ begin' \in Nat /\ j' \in Nat
      BY <1>3, CloseRunFrame
    <2> QED
      BY <1>1, <1>2, <1>4, <2>1 DEF TypeOK
  <1>6. RangesAreRuns'
    BY <1>1, <1>2 DEF RangesAreRuns
  <1>7. \A c \in Chunk : InRun(c) <=> c = first
    <2>1. index_vec[j - 1] = first
      BY <1>3
    <2> QED
      BY <1>3, <2>1, CloseRunFrame, RunFacts, GroupingAssumption DEF Chunk
  <1>8. \A c \in Chunk : Kept(c)' <=> Kept(c) \/ c = first
    <2>1. \A q \in 1 .. Len(kept) + 1 : q \in 1 .. Len(kept) \/ q = Len(kept) + 1
      BY <1>4
    <2>2. \A c \in Chunk :
            Kept(c)' <=> \E q \in 1 .. Len(kept) + 1 : Append(kept, first)[q] = c
      BY <1>2, <1>4 DEF Kept
    <2> QED
      BY <1>4, <2>1, <2>2 DEF Kept
  <1>9. ScannedOnce'
    <2>1. \A q \in 1 .. Len(kept) : kept[q] < first
      <3>1. \A q \in 1 .. Len(kept) : Kept(kept[q])
        BY DEF Kept
      <3> QED
        BY <1>3, <1>4, <3>1, CloseRunFrame, RunFacts DEF ScannedOnce
    <2>2. Increasing(new_index_vec)'
      BY <1>2, <1>3, <1>4, <2>1 DEF ScannedOnce, Increasing
    <2>3. RangesApart(key)'
      BY <1>2, <1>3, CloseRunFrame DEF ScannedOnce, RangesApart
    <2>4. \A c \in Chunk : InRange(key, c)' <=> InRange(key, c)
      BY <1>2, CloseRunFrame DEF InRange
    <2>5. ~Scanned(first)
      BY <1>3, CloseRunFrame, RunFacts, GroupingAssumption DEF Chunk
    <2>6. \A c \in Chunk : Scanned(c)' <=> Scanned(c) \/ c = first
      BY <1>7, CloseRunFrame
    <2> QED
      BY <1>3, <1>8, <2>2, <2>3, <2>4, <2>5, <2>6
         DEF ScannedOnce, ExactlyOneOf
  <1>10. InsideRun'
    BY <1>2, <1>3, <1>9, CloseRunFrame DEF InsideRun
  <1> QED
    BY <1>5, <1>6, <1>10, CloseRunFrame DEF IInv

\* A run of two or more chunks: it becomes the last range of the key.
LEMMA CloseRangeStep ==
  ASSUME IInv, CloseRun, j - begin # 1
  PROVE  IInv'
  <1> DEFINE first == index_vec[begin]
             past == index_vec[j - 1] + 1
             ranges == same_write_pattern_map[key]
  <1> USE GroupingAssumption
  <1>1. /\ TypeOK /\ RangesAreRuns /\ InsideRun
    BY DEF IInv
  <1>2. /\ same_write_pattern_map' =
             [same_write_pattern_map EXCEPT ![key] = Append(ranges, <<first, past>>)]
        /\ UNCHANGED <<hash_info, order_type, write_local, scatter_num, i,
                       same_feature_map, todo, new_index_vec>>
    BY DEF CloseRun, input, RangeOfRun
  <1>3. /\ first \in Chunk /\ past \in 1 .. NumChunks /\ first + 1 < past
        /\ key \in Key /\ key \in todo /\ ScannedOnce /\ pc = "run"
        /\ begin \in Nat /\ j \in Nat
    <2>1. /\ index_vec[j - 1] = first + ((j - 1) - begin)
          /\ first \in Chunk /\ index_vec[j - 1] \in Chunk
          /\ begin \in Nat /\ j \in Nat /\ begin < j /\ key \in Key
      BY CloseRunFrame, RunFacts, <1>1 DEF TypeOK
    <2>2. past \in 1 .. NumChunks
      BY <2>1 DEF Chunk
    <2>3. first + 1 < past
      <3>1. first \in Int /\ begin \in Int /\ j \in Int
        BY <2>1 DEF Chunk
      <3> QED
        BY <2>1, <3>1
    <2> QED
      BY <1>1, <2>1, <2>2, <2>3, CloseRunFrame DEF InsideRun
  <1>4. /\ ranges \in Seq(Chunk \X (1 .. NumChunks))
        /\ <<first, past>> \in Chunk \X (1 .. NumChunks)
        /\ same_write_pattern_map'[key] = Append(ranges, <<first, past>>)
        /\ \A k \in Key \ {key} :
             same_write_pattern_map'[k] = same_write_pattern_map[k]
    BY <1>1, <1>2, <1>3 DEF TypeOK
  <1>5. /\ Append(ranges, <<first, past>>) \in Seq(Chunk \X (1 .. NumChunks))
        /\ Len(Append(ranges, <<first, past>>)) = Len(ranges) + 1
        /\ Len(ranges) \in Nat
        /\ \A r \in 1 .. Len(ranges) :
             /\ Append(ranges, <<first, past>>)[r] = ranges[r]
             /\ ranges[r] \in Chunk \X (1 .. NumChunks)
        /\ Append(ranges, <<first, past>>)[Len(ranges) + 1] = <<first, past>>
        /\ \A r \in 1 .. Len(ranges) + 1 : r \in 1 .. Len(ranges) \/ r = Len(ranges) + 1
    <2>1. Len(ranges) \in Nat
      BY <1>4, ElementFacts
    <2> HIDE DEF first, past, ranges
    <2> QED
      BY <1>4, <2>1, AppendFacts, ElementFacts
  <1>6. TypeOK'
    <2>1. pc' = "run" /\ key' = key /\ begin' \in Nat /\ j' \in Nat
      BY <1>3, CloseRunFrame
    <2>2. same_write_pattern_map' \in [Key -> Seq(Chunk \X (1 .. NumChunks))]
      BY <1>1, <1>2, <1>5 DEF TypeOK
    <2> QED
      BY <1>1, <1>2, <2>1, <2>2 DEF TypeOK
  <1>7. \A c \in Chunk : InRun(c) <=> first <= c /\ c < past
    BY CloseRunFrame, RunFacts
  <1>8. \A c \in Chunk : InRange(key, c)' <=> InRange(key, c) \/ InRun(c)
    <2>1. ASSUME NEW c \in Chunk
          PROVE  InRange(key, c)' <=>
                   \E r \in 1 .. Len(ranges) + 1 :
                     /\ Append(ranges, <<first, past>>)[r][1] <= c
                     /\ c < Append(ranges, <<first, past>>)[r][2]
      BY <1>4, <1>5, CloseRunFrame DEF InRange
    <2>2. ASSUME NEW c \in Chunk
          PROVE  InRange(key, c) <=>
                   \E r \in 1 .. Len(ranges) : ranges[r][1] <= c /\ c < ranges[r][2]
      BY DEF InRange
    <2>3. ASSUME NEW c \in Chunk
          PROVE  (\E r \in 1 .. Len(ranges) + 1 :
                     /\ Append(ranges, <<first, past>>)[r][1] <= c
                     /\ c < Append(ranges, <<first, past>>)[r][2])
                 <=> \/ \E r \in 1 .. Len(ranges) : ranges[r][1] <= c /\ c < ranges[r][2]
                     \/ first <= c /\ c < past
      <3> HIDE DEF first, past, ranges
      <3>1. /\ <<first, past>>[1] = first /\ <<first, past>>[2] = past
            /\ Len(ranges) + 1 \in 1 .. Len(ranges) + 1
            /\ \A r \in 1 .. Len(ranges) : r \in 1 .. Len(ranges) + 1
        BY <1>5
      <3> QED
        BY <1>5, <3>1
    <2> QED
      BY <1>7, <2>1, <2>2, <2>3
  <1>9. \A r \in 1 .. Len(ranges) : ranges[r][2] <= first
    <2> SUFFICES ASSUME NEW r \in 1 .. Len(ranges) PROVE ranges[r][2] <= first
      OBVIOUS
    <2>1. /\ ranges[r][1] \in Chunk /\ ranges[r][2] \in 1 .. NumChunks
          /\ ranges[r][1] + 1 < ranges[r][2]
      BY <1>1, <1>3, <1>5 DEF RangesAreRuns
    <2>2. /\ ranges[r][2] - 1 \in Chunk
          /\ ranges[r][1] <= ranges[r][2] - 1 /\ ranges[r][2] - 1 < ranges[r][2]
      BY <2>1 DEF Chunk
    <2>3. InRange(key, ranges[r][2] - 1)
      BY <2>2 DEF InRange
    <2>4. Scanned(ranges[r][2] - 1)
      BY <1>3, <2>2, <2>3 DEF ScannedOnce
    <2>5. ranges[r][2] - 1 < first
      BY <2>2, <2>4, CloseRunFrame, RunFacts
    <2>6. first \in Int /\ ranges[r][2] \in Int
      BY <1>3, <2>1 DEF Chunk
    <2> HIDE DEF first, ranges
    <2> QED
      BY <2>5, <2>6
  <1>10. RangesAreRuns'
    <2>1. ASSUME NEW k \in Key \ {key}
          PROVE  \A r \in 1 .. Len(same_write_pattern_map'[k]) :
                   LET range == same_write_pattern_map'[k][r] IN
                     /\ range[1] + 1 < range[2]
                     /\ \A c \in range[1] .. range[2] - 1 :
                          /\ hash_info'[c] = k
                          /\ order_type'[c] = "OrderEquel"
                          /\ write_local'[c] = write_local'[range[1]]
      BY <1>1, <1>2, <1>4 DEF RangesAreRuns
    <2>2. ASSUME NEW c \in first .. past - 1
          PROVE  /\ hash_info[c] = key
                 /\ order_type[c] = "OrderEquel"
                 /\ write_local[c] = write_local[first]
      <3>1. c \in Chunk /\ first <= c /\ c < past
        BY <1>3, <2>2 DEF Chunk
      <3> QED
        BY <1>7, <3>1, CloseRunFrame, RunFacts
    <2>3. \A r \in 1 .. Len(ranges) + 1 :
            LET range == Append(ranges, <<first, past>>)[r] IN
              /\ range[1] + 1 < range[2]
              /\ \A c \in range[1] .. range[2] - 1 :
                   /\ hash_info[c] = key
                   /\ order_type[c] = "OrderEquel"
                   /\ write_local[c] = write_local[range[1]]
      BY <1>1, <1>3, <1>5, <2>2 DEF RangesAreRuns
    <2> QED
      BY <1>2, <1>4, <1>5, <2>1, <2>3 DEF RangesAreRuns
  <1>11. ScannedOnce'
    <2>1. Increasing(new_index_vec)'
      BY <1>2, <1>3 DEF ScannedOnce, Increasing
    <2>2. RangesApart(key)'
      <3>1. \A r, s \in 1 .. Len(ranges) + 1 :
              r < s => Append(ranges, <<first, past>>)[r][2]
                         <= Append(ranges, <<first, past>>)[s][1]
        BY <1>3, <1>5, <1>9, SMTT(30) DEF ScannedOnce, RangesApart
      <3> QED
        BY <1>4, <1>5, <3>1, CloseRunFrame, ZenonT(30) DEF RangesApart
    <2>3. \A c \in Chunk : Kept(c)' <=> Kept(c)
      BY <1>2 DEF Kept
    <2>4. ASSUME NEW c \in Chunk, InRun(c), Scanned(c)
          PROVE  FALSE
      <3>1. first <= c /\ c < first
        BY <1>7, <2>4, CloseRunFrame, RunFacts
      <3>2. first \in Int /\ c \in Int
        BY <1>3 DEF Chunk
      <3> HIDE DEF first
      <3> QED
        BY <3>1, <3>2
    <2> QED
      BY <1>3, <1>8, <2>1, <2>2, <2>3, <2>4, CloseRunFrame
         DEF ScannedOnce, ExactlyOneOf
  <1>12. InsideRun'
    BY <1>2, <1>3, <1>11, CloseRunFrame DEF InsideRun
  <1> QED
    BY <1>6, <1>10, <1>12, CloseRunFrame DEF IInv

\* When the scan has passed the last position, the key is placed.
LEMMA FinishKeyStep ==
  ASSUME IInv, FinishKey
  PROVE  IInv'
  <1> USE GroupingAssumption
  <1>1. /\ TypeOK /\ KeyFixesOrder /\ GroupsIncreasing /\ RangesAreRuns
        /\ KeysOutsideRun /\ InsideRun
    BY DEF IInv
  <1>2. /\ pc = "run" /\ pc' = "keys" /\ key' = NoKey /\ begin > Len(index_vec)
        /\ key \in Key /\ key \in todo /\ todo' = todo \ {key}
        /\ new_index_vec \in Seq(Chunk)
        /\ same_feature_map'[key] = new_index_vec
        /\ same_feature_map' \in [Key -> Seq(Chunk)]
        /\ \A k \in Key \ {key} : same_feature_map'[k] = same_feature_map[k]
        /\ UNCHANGED <<hash_info, order_type, write_local, scatter_num, i,
                       same_write_pattern_map, begin, j, new_index_vec>>
    BY <1>1 DEF FinishKey, InsideRun, TypeOK, input
  <1>3. TypeOK'
    BY <1>1, <1>2 DEF TypeOK
  <1>4. KeyFixesOrder' /\ RangesAreRuns'
    BY <1>1, <1>2 DEF KeyFixesOrder, RangesAreRuns
  <1>5. GroupsIncreasing'
    <2>1. Increasing(new_index_vec)
      BY <1>1, <1>2 DEF InsideRun, ScannedOnce
    <2> QED
      BY <1>1, <1>2, <2>1 DEF GroupsIncreasing, Increasing
  <1>6. Appending' /\ InsideRun'
    BY <1>2 DEF Appending, InsideRun
  <1>7. KeysOutsideRun'
    <2>1. ASSUME NEW k \in Key, k = key
          PROVE  Placed(k)'
      <3>1. /\ RunSoFar /\ KeyIntact /\ ScannedOnce
        BY <1>1, <1>2 DEF InsideRun
      <3>2. index_vec \in Seq(Chunk) /\ Len(index_vec) \in Nat
        BY <1>1, <1>2, ElementFacts DEF TypeOK, index_vec
      <3>3. \A p \in 1 .. Len(index_vec) : p < begin
        BY <1>1, <1>2, <3>2 DEF TypeOK
      <3>4. \A c \in Chunk : Scanned(c) <=> hash_info[c] = key
        BY <3>1, <3>3 DEF Scanned, KeyIntact, InGroup, index_vec
      <3>5. \A c \in Chunk : InGroup(k, c)' <=> Kept(c)
        BY <1>2, <2>1 DEF Kept, InGroup
      <3>6. \A c \in Chunk : InRange(k, c)' <=> InRange(key, c)
        BY <1>2, <2>1 DEF InRange
      <3>7. RangesApart(k)'
        BY <1>2, <2>1, <3>1 DEF ScannedOnce, RangesApart
      <3> QED
        BY <1>2, <2>1, <3>1, <3>4, <3>5, <3>6, <3>7
           DEF Placed, ScannedOnce, ExactlyOneOf
    <2>2. ASSUME NEW k \in Key
          PROVE  IF k \in todo' THEN Unvisited(k)' ELSE Placed(k)'
      <3>1. CASE k = key
        BY <1>2, <2>1, <3>1
      <3>2. CASE k # key
        <4>1. IF k \in todo THEN Unvisited(k) ELSE Placed(k)
          BY <1>1, <1>2, <3>2 DEF KeysOutsideRun
        <4>2. /\ same_feature_map'[k] = same_feature_map[k]
              /\ same_write_pattern_map'[k] = same_write_pattern_map[k]
          BY <1>2, <3>2
        <4> QED
          BY <1>2, <3>2, <4>1, <4>2
             DEF Unvisited, Placed, InGroup, InRange, RangesApart, ExactlyOneOf
      <3> QED
        BY <3>1, <3>2
    <2> QED
      BY <1>1, <1>2, <2>2 DEF KeysOutsideRun, Present
  <1> QED
    BY <1>3, <1>4, <1>5, <1>6, <1>7 DEF IInv

\* Leaving the loop over the keys, and steps that change nothing.
LEMMA FinishStep ==
  ASSUME IInv, Finish \/ UNCHANGED vars
  PROVE  IInv'
  <1>1. /\ UNCHANGED <<hash_info, order_type, write_local, scatter_num, i,
                       same_feature_map, same_write_pattern_map, todo, key, begin,
                       j, new_index_vec>>
        /\ pc' = pc \/ (pc = "keys" /\ pc' = "done" /\ todo = {})
    BY DEF Finish, vars, input, scan
  <1>2. TypeOK'
    BY <1>1 DEF IInv, TypeOK
  <1>3. KeyFixesOrder' /\ GroupsIncreasing' /\ RangesAreRuns'
    BY <1>1 DEF IInv, KeyFixesOrder, GroupsIncreasing, RangesAreRuns
  <1>4. Appending' /\ KeysOutsideRun'
    BY <1>1 DEF IInv, Appending, KeysOutsideRun, Present, Unvisited, Placed,
                InGroup, InRange, RangesApart, ExactlyOneOf
  <1>5. InsideRun'
    BY <1>1 DEF IInv, InsideRun, RunSoFar, KeyIntact, ScannedOnce, Scanned, Kept,
                index_vec, InGroup, InRange, RangesApart, Increasing, ExactlyOneOf
  <1> QED
    BY <1>2, <1>3, <1>4, <1>5 DEF IInv

\* Every step keeps the inductive invariant.  (Module DynVecProofs cites this
\* for the grouping steps of a whole compilation.)
LEMMA NextIInv ==
  ASSUME IInv, [Next]_vars
  PROVE  IInv'
  <1>1. CASE CombinSameFeature
    BY <1>1, CombinSameFeatureStep
  <1>2. CASE CombinSameWritePattern
    BY <1>2, CombinSameWritePatternStep
  <1>3. ASSUME NEW k \in todo, VisitOther(k)
        PROVE  IInv'
    BY <1>3, VisitOtherStep
  <1>4. ASSUME NEW k \in todo, VisitEqual(k)
        PROVE  IInv'
    BY <1>4, VisitEqualStep
  <1>5. CASE ExtendRun
    BY <1>5, ExtendRunStep
  <1>6. CASE CloseRun
    BY <1>6, CloseSingleStep, CloseRangeStep
  <1>7. CASE FinishKey
    BY <1>7, FinishKeyStep
  <1>8. CASE Finish \/ UNCHANGED vars
    BY <1>8, FinishStep
  <1> QED
    BY <1>1, <1>2, <1>3, <1>4, <1>5, <1>6, <1>7, <1>8 DEF Next

\* The inductive invariant: in every reachable state the chunks of a key are
\* all in its group, or all placed, or split by the scan of that key.
THEOREM InvariantHolds == Spec => []IInv
  BY InitIInv, NextIInv, PTL DEF Spec

\* Every index and every end of a range stays inside the table of chunks.
THEOREM TypeCorrect == Spec => []TypeOK
  <1>1. IInv => TypeOK
    BY DEF IInv
  <1> QED
    BY <1>1, InvariantHolds, PTL

\* Index vectors are increasing at every moment.
THEOREM GroupsStayIncreasing == Spec => []GroupsIncreasing
  <1>1. IInv => GroupsIncreasing
    BY DEF IInv
  <1> QED
    BY <1>1, InvariantHolds, PTL

\* When the functions return, no chunk is lost and none is in two places.
THEOREM EveryChunkExactlyOnce == Spec => []ExactlyOnce
  <1>1. IInv => ExactlyOnce
    BY GroupingAssumption DEF IInv, KeysOutsideRun, InsideRun, ExactlyOnce
  <1> QED
    BY <1>1, InvariantHolds, PTL

\* Every range is a run of chunks of one key that write one location.
THEOREM EveryRangeIsARun == Spec => []RangesAreRuns
  <1>1. IInv => RangesAreRuns
    BY DEF IInv
  <1> QED
    BY <1>1, InvariantHolds, PTL

-----------------------------------------------------------------------------
(***************************************************************************)
(* The result of grouping is the reference: for every number of chunks,    *)
(* every set of hashes and of locations and every order of the map, the    *)
(* ranges are exactly the maximal runs of two or more chunks.              *)
(***************************************************************************)
\* Nothing is cut before the first chunk is grouped.
LEMMA InitWhole == Init => WholeInv
BY DEF Init, WholeInv, RangesWhole, OnlyScatterRuns, VisitedAlone, RunAlone

\* The steps that leave groups and ranges alone, and are outside a key.
LEMMA OutsideStep ==
  ASSUME IInv, WholeInv,
         CombinSameFeature \/ CombinSameWritePattern \/ Finish \/ UNCHANGED vars
  PROVE  WholeInv'
  <1>1. TypeOK /\ Appending /\ KeysOutsideRun /\ InsideRun
    BY DEF IInv
  <1>2. UNCHANGED <<hash_info, order_type, write_local, scatter_num,
                    same_write_pattern_map, key, begin, j, new_index_vec>>
    BY DEF CombinSameFeature, CombinSameWritePattern, Finish, vars, input, scan
  <1>3. RangesWhole'
    BY <1>2 DEF WholeInv, RangesWhole, Starts, Ends
  <1>4. OnlyScatterRuns'
    BY <1>2 DEF WholeInv, OnlyScatterRuns, CombinSameFeature,
                CombinSameWritePattern, Finish, vars
  <1>5. VisitedAlone'
    <2>1. CASE CombinSameFeature
      BY <2>1 DEF CombinSameFeature, VisitedAlone
    <2>2. CASE CombinSameWritePattern
      <3>1. /\ pc = "feature" /\ i = NumChunks
            /\ same_feature_map' = same_feature_map
            /\ scatter_num = 1 => todo' = Present
        BY <2>2 DEF CombinSameWritePattern
      <3>2. \A k \in Key, c \in Chunk : InGroup(k, c)' => k \in Present
        BY <1>1, <3>1 DEF Appending, InGroup, Present
      <3> QED
        BY <1>2, <3>1, <3>2 DEF VisitedAlone
    <2>3. CASE Finish
      BY <1>2, <2>3 DEF Finish, scan, WholeInv, VisitedAlone, InGroup, Alone,
                        Starts, Ends
    <2>4. CASE UNCHANGED vars
      BY <1>2, <2>4 DEF vars, scan, WholeInv, VisitedAlone, InGroup, Alone,
                        Starts, Ends
    <2> QED
      BY <2>1, <2>2, <2>3, <2>4
  <1>6. RunAlone'
    <2>1. pc' = "run" => pc = "run" /\ same_feature_map' = same_feature_map
      BY DEF CombinSameFeature, CombinSameWritePattern, Finish, vars
    <2> QED
      BY <1>2, <2>1 DEF WholeInv, RunAlone, index_vec, Kept, Alone, Starts, Ends
  <1> QED
    BY <1>3, <1>4, <1>5, <1>6 DEF WholeInv

\* A key that is passed over has no chunk of order OrderEquel.
LEMMA OtherStep ==
  ASSUME IInv, WholeInv, NEW k \in todo, VisitOther(k)
  PROVE  WholeInv'
  <1>1. TypeOK /\ KeyFixesOrder /\ KeysOutsideRun /\ InsideRun
    BY DEF IInv
  <1>2. /\ UNCHANGED <<hash_info, order_type, write_local, scatter_num, pc,
                       same_feature_map, same_write_pattern_map, key, begin, j,
                       new_index_vec>>
        /\ pc = "keys" /\ todo' = todo \ {k} /\ LeaderOrder(k) # "OrderEquel"
    BY DEF VisitOther, input
  <1>3. key = NoKey /\ k \in Present /\ k \in Key /\ k # key
    BY <1>1, <1>2, GroupingAssumption DEF InsideRun, KeysOutsideRun, TypeOK
  <1>4. Unvisited(k)
    BY <1>1, <1>2, <1>3 DEF KeysOutsideRun
  <1>5. \A c \in Chunk : InGroup(k, c) => order_type[c] # "OrderEquel"
    BY <1>1, <1>2, <1>3, <1>4, LeaderSpeaksForKey DEF Unvisited
  <1>6. VisitedAlone'
    <2> SUFFICES ASSUME scatter_num = 1,
                        NEW h \in Key \ (todo' \cup {key'}), NEW c \in Chunk,
                        InGroup(h, c), order_type[c] = "OrderEquel"
                 PROVE  Alone(h, c)
      BY <1>2 DEF VisitedAlone, InGroup, Alone, Starts, Ends
    <2>1. h # k
      BY <1>5
    <2> QED
      BY <1>2, <2>1 DEF WholeInv, VisitedAlone
  <1> QED
    BY <1>2, <1>6 DEF WholeInv, RangesWhole, OnlyScatterRuns, RunAlone, Starts,
                      Ends

\* The first chunk of an index vector begins a run: a chunk of the key before
\* it would be in the vector before it.
LEMMA EqualStep ==
  ASSUME IInv, IInv', WholeInv, NEW k \in todo, VisitEqual(k)
  PROVE  WholeInv'
  <1>1. TypeOK /\ GroupsIncreasing /\ InsideRun /\ InsideRun'
    BY DEF IInv
  <1>2. /\ UNCHANGED <<hash_info, order_type, write_local, scatter_num,
                       same_feature_map, same_write_pattern_map, todo>>
        /\ pc = "keys" /\ pc' = "run" /\ key' = k /\ begin' = 1
        /\ new_index_vec' = <<>> /\ key = NoKey /\ k \in Key
    BY <1>1 DEF VisitEqual, input, InsideRun, TypeOK
  <1>3. VisitedAlone'
    BY <1>2, GroupingAssumption DEF WholeInv, VisitedAlone, InGroup, Alone, Starts,
                                    Ends
  <1>4. OnlyScatterRuns'
    BY <1>2 DEF WholeInv, OnlyScatterRuns
  <1>5. RangesWhole'
    BY <1>2 DEF WholeInv, RangesWhole, Starts, Ends
  <1>6. RunAlone'
    <2> DEFINE v == same_feature_map[k]
    <2>1. /\ v \in Seq(Chunk) /\ Len(v) \in Nat /\ Increasing(v)
          /\ \A p \in 1 .. Len(v) : v[p] \in Chunk
      BY <1>1, <1>2, ElementFacts DEF TypeOK, GroupsIncreasing
    <2>2. \A c \in Chunk : hash_info[c] = k => \E p \in 1 .. Len(v) : v[p] = c
      BY <1>1, <1>2 DEF InsideRun, KeyIntact, InGroup
    <2>3. ASSUME 1 <= Len(v)
          PROVE  Starts(k, v[1])
      <3> SUFFICES ASSUME v[1] > 0, hash_info[v[1] - 1] = k
                   PROVE  FALSE
        BY DEF Starts
      <3>1. v[1] \in Chunk
        BY <2>1, <2>3
      <3>2. v[1] - 1 \in Chunk /\ v[1] \in Int
        BY <3>1, GroupingAssumption DEF Chunk
      <3>3. PICK p \in 1 .. Len(v) : v[p] = v[1] - 1
        BY <2>2, <3>2
      <3>4. v[p] < v[1]
        BY <3>2, <3>3
      <3>5. p # 1
        BY <3>2, <3>4
      <3>6. v[1] < v[p]
        BY <2>1, <2>3, <3>5 DEF Increasing
      <3> HIDE DEF v
      <3> QED
        BY <3>2, <3>3, <3>6
    <2>4. index_vec' = v
      BY <1>2 DEF index_vec
    <2>5. \A c : ~Kept(c)'
      BY <1>2 DEF Kept
    <2>6. begin' <= Len(index_vec)' => Starts(key, index_vec[begin])'
      BY <1>2, <2>3, <2>4 DEF Starts
    <2> QED
      BY <2>5, <2>6 DEF RunAlone
  <1> QED
    BY <1>3, <1>4, <1>5, <1>6 DEF WholeInv

\* The scan goes on: neither the run's first chunk nor what is kept changes.
LEMMA ExtendStep ==
  ASSUME IInv, WholeInv, ExtendRun
  PROVE  WholeInv'
  <1>1. UNCHANGED <<hash_info, order_type, write_local, scatter_num, pc,
                    same_feature_map, same_write_pattern_map, todo, key, begin,
                    new_index_vec>>
    BY DEF ExtendRun, input
  <1> QED
    BY <1>1 DEF WholeInv, RangesWhole, OnlyScatterRuns, VisitedAlone, RunAlone,
                InGroup, Alone, Starts, Ends, Kept, index_vec

-----------------------------------------------------------------------------
\* Where the scan stops, the run ends, and the next one starts: the index
\* vector holds all chunks of its key, in order.
LEMMA RunIsWhole ==
  ASSUME IInv, WholeInv, pc = "run", begin <= Len(index_vec), ~ContinuesRun
  PROVE  /\ Starts(key, index_vec[begin])
         /\ Ends(key, index_vec[j - 1] + 1)
         /\ j <= Len(index_vec) => Starts(key, index_vec[j])
  <1> DEFINE v == index_vec
             last == v[j - 1]
  <1>1. /\ key \in Key /\ v \in Seq(Chunk) /\ Len(v) \in Nat /\ j \in Nat
        /\ begin \in 1 .. Len(v) /\ j - 1 \in begin .. Len(v)
        /\ last \in Chunk
        /\ InRun(last)
        /\ write_local[last] = write_local[v[begin]]
    BY RunFacts DEF InRun
  <1>2. Increasing(v) /\ \A p \in 1 .. Len(v) : v[p] \in Chunk
    BY <1>1, ElementFacts DEF IInv, GroupsIncreasing, index_vec
  <1>3. \A c \in Chunk : hash_info[c] = key => \E p \in 1 .. Len(v) : v[p] = c
    BY DEF IInv, InsideRun, KeyIntact, InGroup, index_vec
  <1>4. j - 1 \in 1 .. Len(v) /\ (j <= Len(v) => j \in 1 .. Len(v))
    BY <1>1
  <1>5. ASSUME NEW p \in 1 .. Len(v)
        PROVE  /\ v[p] < last => p < j - 1
               /\ v[p] > last => j <= p
    <2>1. v[p] \in Int /\ last \in Int
      BY <1>1, <1>2, GroupingAssumption DEF Chunk
    <2>2. p < j - 1 => v[p] < last
      BY <1>2, <1>4 DEF Increasing
    <2>3. j - 1 < p => last < v[p]
      BY <1>2, <1>4 DEF Increasing
    <2>4. p = j - 1 => v[p] = last
      OBVIOUS
    <2>5. p \in Int /\ j \in Int
      BY <1>1
    <2> HIDE DEF v, last
    <2> QED
      BY <2>1, <2>2, <2>3, <2>4, <2>5
  <1>6. Starts(key, v[begin])
    BY DEF WholeInv, RunAlone
  <1>7. Ends(key, last + 1)
    <2>0. SUFFICES ASSUME last + 1 < NumChunks, hash_info[last + 1] = key,
                          write_local[last + 1] = write_local[(last + 1) - 1]
                   PROVE  FALSE
      BY DEF Ends
    <2>1. last + 1 \in Chunk /\ (last + 1) - 1 = last /\ last \in Int
      <3>1. last \in Chunk
        BY <1>1
      <3> HIDE DEF v, last
      <3> QED
        BY <2>0, <3>1, GroupingAssumption DEF Chunk
    <2>2. PICK p \in 1 .. Len(v) : v[p] = last + 1
      BY <1>3, <2>0, <2>1
    <2>3. v[p] > last
      BY <2>1, <2>2
    <2>4. j <= p
      BY <1>5, <2>3
    <2>5. j \in 1 .. Len(v) /\ j <= Len(v)
      BY <1>1, <2>2, <2>4
    <2>6. v[j] \in Int
      BY <1>2, <2>5, GroupingAssumption DEF Chunk
    <2>7. v[j] > last
      BY <1>2, <1>4, <2>5, <1>1 DEF Increasing
    <2>8. j < p => v[j] < v[p]
      BY <1>2, <2>5 DEF Increasing
    <2>9. v[j] = last + 1
      <3>1. j \in Int /\ p \in Int
        BY <1>1
      <3>2. j = p \/ j < p
        BY <2>4, <3>1
      <3> HIDE DEF v, last
      <3> QED
        BY <2>1, <2>2, <2>6, <2>7, <2>8, <3>2
    <2>10. write_local[v[j]] = write_local[v[begin]]
      BY <1>1, <2>0, <2>1, <2>9
    <2> QED
      BY <2>5, <2>9, <2>10 DEF ContinuesRun
  <1>8. ASSUME j <= Len(v)
        PROVE  Starts(key, v[j])
    <2> SUFFICES ASSUME v[j] > 0, hash_info[v[j] - 1] = key,
                        write_local[v[j] - 1] = write_local[v[j]]
                 PROVE  FALSE
      BY DEF Starts
    <2>1. v[j] \in Chunk /\ v[j] \in Int
      BY <1>2, <1>4, <1>8, GroupingAssumption DEF Chunk
    <2>2. v[j] - 1 \in Chunk
      BY <2>1, GroupingAssumption DEF Chunk
    <2>3. PICK p \in 1 .. Len(v) : v[p] = v[j] - 1
      BY <1>3, <2>2
    <2>4. last \in Int /\ last < v[j]
      <3>1. j - 1 \in 1 .. Len(v) /\ j \in 1 .. Len(v) /\ j - 1 < j
        BY <1>1, <1>4, <1>8
      <3>2. last < v[j]
        BY <1>2, <3>1 DEF Increasing
      <3>3. last \in Chunk
        BY <1>1
      <3> HIDE DEF v, last
      <3> QED
        BY <3>2, <3>3, GroupingAssumption DEF Chunk
    <2>5. ~(j <= p)
      <3>1. j < p => v[j] < v[p]
        BY <1>2, <1>4, <1>8 DEF Increasing
      <3>2. j = p => v[j] = v[p]
        OBVIOUS
      <3>3. j \in Int /\ p \in Int
        BY <1>1
      <3> HIDE DEF v, last
      <3> QED
        BY <2>1, <2>3, <3>1, <3>2, <3>3
    <2>6. ~(v[p] > last)
      BY <1>5, <2>5
    <2>7. v[j] = last + 1
      <3> HIDE DEF v, last
      <3> QED
        BY <2>1, <2>3, <2>4, <2>6
    <2>8. write_local[v[j]] = write_local[v[begin]]
      <3>1. v[j] - 1 = last
        BY <2>4, <2>7
      <3> QED
        BY <1>1, <3>1
    <2> QED
      BY <1>8, <2>7, <2>8 DEF ContinuesRun
  <1> QED
    BY <1>6, <1>7, <1>8

\* Closing a run adds a range, or a chunk on its own, that nothing extends.
LEMMA CloseStep ==
  ASSUME IInv, WholeInv, CloseRun
  PROVE  WholeInv'
  <1> DEFINE v == index_vec
  <1>1. /\ TypeOK
        /\ UNCHANGED <<hash_info, order_type, write_local, scatter_num, pc,
                       same_feature_map, todo, key>>
        /\ pc = "run" /\ begin <= Len(v) /\ ~ContinuesRun /\ begin' = j
        /\ index_vec' = v
    BY DEF IInv, CloseRun, input, index_vec
  <1>2. /\ Starts(key, v[begin]) /\ Ends(key, v[j - 1] + 1)
        /\ j <= Len(v) => Starts(key, v[j])
    BY <1>1, RunIsWhole
  <1>3. VisitedAlone' /\ scatter_num = 1
    BY <1>1 DEF WholeInv, VisitedAlone, InGroup, Alone, Starts, Ends,
                OnlyScatterRuns
  <1>4. OnlyScatterRuns'
    BY <1>1, <1>3 DEF OnlyScatterRuns
  <1>5. begin' <= Len(index_vec)' => Starts(key, index_vec[begin])'
    BY <1>1, <1>2 DEF Starts
  <1>6. \A c \in Chunk : Alone(key, c)' <=> Alone(key, c)
    BY <1>1 DEF Alone, Starts, Ends
  <1>7. CASE j - begin = 1
    <2>1. /\ new_index_vec' = Append(new_index_vec, v[begin])
          /\ same_write_pattern_map' = same_write_pattern_map
      BY <1>7 DEF CloseRun
    <2>2. new_index_vec \in Seq(Chunk) /\ v[begin] \in Chunk /\ j - 1 = begin
      BY <1>1, <1>7, RunFacts DEF TypeOK
    <2>3. Alone(key, v[begin])
      BY <1>2, <2>2 DEF Alone
    <2>4. ASSUME NEW c \in Chunk, Kept(c)'
          PROVE  c = v[begin] \/ Kept(c)
      <3>1. PICK q \in 1 .. Len(new_index_vec) + 1 :
              Append(new_index_vec, v[begin])[q] = c
        BY <2>1, <2>2, <2>4, AppendFacts DEF Kept
      <3>2. q = Len(new_index_vec) + 1 \/ q \in 1 .. Len(new_index_vec)
        BY <2>2, AppendFacts
      <3> QED
        BY <2>2, <3>1, <3>2, AppendFacts DEF Kept
    <2>5. RunAlone'
      BY <1>1, <1>5, <1>6, <2>3, <2>4 DEF WholeInv, RunAlone
    <2>6. RangesWhole'
      BY <1>1, <2>1 DEF WholeInv, RangesWhole, Starts, Ends
    <2> QED
      BY <1>3, <1>4, <2>5, <2>6 DEF WholeInv
  <1>8. CASE j - begin # 1
    <2> DEFINE old == same_write_pattern_map[key]
    <2>1. /\ new_index_vec' = new_index_vec
          /\ same_write_pattern_map' =
               [same_write_pattern_map EXCEPT ![key] = Append(@, RangeOfRun)]
      BY <1>8 DEF CloseRun
    <2>2. RunAlone'
      BY <1>1, <1>5, <1>6, <2>1 DEF WholeInv, RunAlone, Kept
    <2>3. /\ old \in Seq(Chunk \X (1 .. NumChunks)) /\ key \in Key
          /\ RangeOfRun = <<v[begin], v[j - 1] + 1>>
      BY <1>1, RunFacts DEF TypeOK, RangeOfRun
    <2>4. /\ same_write_pattern_map'[key] = Append(old, RangeOfRun)
          /\ \A k \in Key \ {key} :
               same_write_pattern_map'[k] = same_write_pattern_map[k]
      BY <1>1, <2>1, <2>3 DEF TypeOK
    <2>5. RangeOfRun \in Chunk \X (1 .. NumChunks)
      <3>1. v[begin] \in Chunk /\ v[j - 1] \in Chunk
        BY <1>1, RunFacts
      <3>2. v[j - 1] + 1 \in 1 .. NumChunks
        BY <3>1, GroupingAssumption DEF Chunk
      <3> QED
        BY <2>3, <3>1, <3>2
    <2>6. ASSUME NEW k \in Key, NEW r \in 1 .. Len(same_write_pattern_map'[k])
          PROVE  /\ Starts(k, same_write_pattern_map'[k][r][1])
                 /\ Ends(k, same_write_pattern_map'[k][r][2])
      <3>1. CASE k # key
        BY <2>4, <2>6, <3>1 DEF WholeInv, RangesWhole
      <3>2. CASE k = key /\ r = Len(old) + 1
        <4>1. same_write_pattern_map'[k][r] = RangeOfRun
          BY <2>3, <2>4, <2>5, <3>2, AppendFacts
        <4> QED
          BY <1>2, <2>3, <3>2, <4>1
      <3>3. CASE k = key /\ r \in 1 .. Len(old)
        <4>1. Append(old, RangeOfRun)[r] = old[r]
          <5> HIDE DEF old
          <5> QED
            BY <2>3, <2>5, <3>3, AppendFacts
        <4>2. same_write_pattern_map'[k][r] = old[r]
          BY <2>4, <3>3, <4>1
        <4> QED
          BY <2>3, <3>3, <4>2 DEF WholeInv, RangesWhole
      <3>4. k = key => r \in 1 .. Len(old) + 1
        BY <2>3, <2>4, <2>5, AppendFacts
      <3>5. Len(old) \in Nat
        BY <2>3, ElementFacts
      <3> QED
        BY <3>1, <3>2, <3>3, <3>4, <3>5
    <2>7. RangesWhole'
      BY <1>1, <2>6 DEF RangesWhole, Starts, Ends
    <2> QED
      BY <1>3, <1>4, <2>2, <2>7 DEF WholeInv
  <1> QED
    BY <1>7, <1>8

\* The chunks kept become the group of the key.
LEMMA FinishKeyWhole ==
  ASSUME IInv, WholeInv, FinishKey
  PROVE  WholeInv'
  <1>1. /\ UNCHANGED <<hash_info, order_type, write_local, scatter_num,
                       same_write_pattern_map, new_index_vec>>
        /\ pc = "run" /\ pc' = "keys" /\ key' = NoKey /\ todo' = todo \ {key}
        /\ same_feature_map' = [same_feature_map EXCEPT ![key] = new_index_vec]
        /\ key \in Key /\ TypeOK
    BY DEF FinishKey, input, IInv, InsideRun, TypeOK
  <1>2. /\ same_feature_map'[key] = new_index_vec
        /\ \A k \in Key \ {key} : same_feature_map'[k] = same_feature_map[k]
    BY <1>1 DEF TypeOK
  <1>3. VisitedAlone'
    <2> SUFFICES ASSUME scatter_num = 1,
                        NEW h \in Key \ (todo' \cup {key'}), NEW c \in Chunk,
                        InGroup(h, c)', order_type[c] = "OrderEquel"
                 PROVE  Alone(h, c)
      BY <1>1 DEF VisitedAlone, Alone, Starts, Ends
    <2>1. CASE h = key
      BY <1>1, <1>2, <2>1 DEF WholeInv, RunAlone, InGroup, Kept
    <2>2. CASE h # key
      BY <1>1, <1>2, <2>2 DEF WholeInv, VisitedAlone, InGroup
    <2> QED
      BY <2>1, <2>2
  <1>4. RangesWhole' /\ OnlyScatterRuns' /\ RunAlone'
    BY <1>1 DEF WholeInv, RangesWhole, OnlyScatterRuns, RunAlone, Starts, Ends
  <1> QED
    BY <1>3, <1>4 DEF WholeInv

\* No run is cut short: every range is bounded on both sides by chunks of
\* another key or location, and so is every chunk left alone.
THEOREM RunsStayWhole == Spec => []WholeInv
  <1>1. ASSUME IInv, IInv', WholeInv, [Next]_vars
        PROVE  WholeInv'
    <2>1. CASE CombinSameFeature \/ CombinSameWritePattern \/ Finish \/ UNCHANGED vars
      BY <1>1, <2>1, OutsideStep
    <2>2. ASSUME NEW k \in todo, VisitOther(k)
          PROVE  WholeInv'
      BY <1>1, <2>2, OtherStep
    <2>3. ASSUME NEW k \in todo, VisitEqual(k)
          PROVE  WholeInv'
      BY <1>1, <2>3, EqualStep
    <2>4. CASE ExtendRun
      BY <1>1, <2>4, ExtendStep
    <2>5. CASE CloseRun
      BY <1>1, <2>5, CloseStep
    <2>6. CASE FinishKey
      BY <1>1, <2>6, FinishKeyWhole
    <2> QED
      BY <1>1, <2>1, <2>2, <2>3, <2>4, <2>5, <2>6 DEF Next
  <1> QED
    BY <1>1, InitWhole, InvariantHolds, PTL DEF Spec

-----------------------------------------------------------------------------
\* For an interval that is one run, to be maximal is to be bounded on both
\* sides.
LEMMA MaximalIsBounded ==
  ASSUME NEW k \in Key, NEW lo \in Chunk, NEW hi \in 1 .. NumChunks, lo < hi,
         OneRun(k, lo, hi)
  PROVE  MaximalRun(k, lo, hi) <=> Starts(k, lo) /\ Ends(k, hi)
  <1>1. lo \in Int /\ hi \in Int /\ lo >= 0 /\ NumChunks \in Int
    BY GroupingAssumption DEF Chunk
  <1>2. \A c \in lo .. hi - 1 : hash_info[c] = k /\ write_local[c] = write_local[lo]
    BY DEF OneRun
  <1>3. lo \in lo .. hi - 1 /\ hi - 1 \in lo .. hi - 1
    BY <1>1
  <1>4. OneRun(k, lo - 1, hi) <=>
          hash_info[lo - 1] = k /\ write_local[lo - 1] = write_local[lo]
    <2>1. \A c : c \in (lo - 1) .. hi - 1 <=> c = lo - 1 \/ c \in lo .. hi - 1
      BY <1>1
    <2> QED
      BY <1>2, <1>3, <2>1 DEF OneRun
  <1>5. OneRun(k, lo, hi + 1) <=>
          hash_info[hi] = k /\ write_local[hi] = write_local[hi - 1]
    <2>1. \A c : c \in lo .. (hi + 1) - 1 <=> c = hi \/ c \in lo .. hi - 1
      BY <1>1
    <2>2. write_local[hi - 1] = write_local[lo]
      BY <1>2, <1>3
    <2> QED
      BY <1>2, <2>1, <2>2 DEF OneRun
  <1> QED
    BY <1>4, <1>5 DEF MaximalRun, Starts, Ends

\* A bounded run holds every run of its key that it meets.
LEMMA BoundedHolds ==
  ASSUME NEW k \in Key, NEW c \in Chunk,
         NEW lo \in Chunk, NEW hi \in 1 .. NumChunks,
         NEW low \in Chunk, NEW high \in 1 .. NumChunks,
         OneRun(k, low, high), Starts(k, lo), Ends(k, hi),
         lo <= c, c < hi, low <= c, c < high
  PROVE  lo <= low /\ high <= hi
  <1>1. /\ lo \in Int /\ hi \in Int /\ low \in Int /\ high \in Int /\ c \in Int
        /\ low >= 0 /\ high <= NumChunks /\ NumChunks \in Int
    BY GroupingAssumption DEF Chunk
  <1>2. \A d \in low .. high - 1 : hash_info[d] = k /\ write_local[d] = write_local[low]
    BY DEF OneRun
  <1>3. ~(low < lo)
    <2> SUFFICES ASSUME low < lo PROVE FALSE
      OBVIOUS
    <2>1. lo - 1 \in low .. high - 1 /\ lo \in low .. high - 1 /\ lo > 0
      BY <1>1
    <2> QED
      BY <1>2, <2>1 DEF Starts
  <1>4. ~(hi < high)
    <2> SUFFICES ASSUME hi < high PROVE FALSE
      OBVIOUS
    <2>1. hi - 1 \in low .. high - 1 /\ hi \in low .. high - 1 /\ hi < NumChunks
      BY <1>1
    <2> QED
      BY <1>2, <2>1 DEF Ends
  <1> QED
    BY <1>1, <1>3, <1>4

\* What is known of every key when the functions return.
LEMMA AtTheEnd ==
  ASSUME IInv, WholeInv, pc = "done", NEW k \in Key
  PROVE  /\ Placed(k)
         /\ \A r \in 1 .. Len(same_write_pattern_map[k]) :
              LET s == same_write_pattern_map[k][r] IN
              /\ s \in Chunk \X (1 .. NumChunks)
              /\ s[1] + 1 < s[2]
              /\ OneRun(k, s[1], s[2])
              /\ order_type[s[1]] = "OrderEquel"
              /\ Starts(k, s[1]) /\ Ends(k, s[2])
              /\ scatter_num = 1
         /\ scatter_num = 1 =>
              \A c \in Chunk :
                InGroup(k, c) /\ order_type[c] = "OrderEquel" => Alone(k, c)
  <1>1. TypeOK /\ RangesAreRuns /\ KeysOutsideRun /\ InsideRun
    BY DEF IInv
  <1>2. key = NoKey /\ todo = {} /\ k # key
    BY <1>1, GroupingAssumption DEF KeysOutsideRun, InsideRun
  <1>3. Placed(k)
    BY <1>1, <1>2 DEF KeysOutsideRun
  <1>4. ASSUME NEW r \in 1 .. Len(same_write_pattern_map[k])
        PROVE  LET s == same_write_pattern_map[k][r] IN
               /\ s \in Chunk \X (1 .. NumChunks)
               /\ s[1] + 1 < s[2]
               /\ OneRun(k, s[1], s[2])
               /\ order_type[s[1]] = "OrderEquel"
               /\ Starts(k, s[1]) /\ Ends(k, s[2])
               /\ scatter_num = 1
    <2> DEFINE s == same_write_pattern_map[k][r]
    <2>1. s \in Chunk \X (1 .. NumChunks)
      BY <1>1, ElementFacts DEF TypeOK
    <2>2. /\ s[1] + 1 < s[2]
          /\ \A c \in s[1] .. s[2] - 1 :
               /\ hash_info[c] = k
               /\ order_type[c] = "OrderEquel"
               /\ write_local[c] = write_local[s[1]]
      BY <1>1 DEF RangesAreRuns
    <2>3. s[1] \in s[1] .. s[2] - 1
      <3>1. s[1] \in Int /\ s[2] \in Int
        BY <2>1, GroupingAssumption DEF Chunk
      <3> HIDE DEF s
      <3> QED
        BY <2>2, <3>1
    <2>4. Starts(k, s[1]) /\ Ends(k, s[2])
      BY DEF WholeInv, RangesWhole
    <2>5. scatter_num = 1
      BY DEF WholeInv, OnlyScatterRuns
    <2> QED
      BY <2>1, <2>2, <2>3, <2>4, <2>5 DEF OneRun
  <1>5. scatter_num = 1 =>
          \A c \in Chunk :
            InGroup(k, c) /\ order_type[c] = "OrderEquel" => Alone(k, c)
    BY <1>2 DEF WholeInv, VisitedAlone
  <1> QED
    BY <1>3, <1>4, <1>5

\* A range of the result is a range of the reference.
LEMMA RangeIsReference ==
  ASSUME IInv, WholeInv, pc = "done", NEW k \in Key,
         NEW r \in 1 .. Len(same_write_pattern_map[k])
  PROVE  same_write_pattern_map[k][r] \in ReferenceRanges(k)
  <1> DEFINE s == same_write_pattern_map[k][r]
  <1>1. /\ s \in Chunk \X (1 .. NumChunks) /\ s[1] + 1 < s[2]
        /\ OneRun(k, s[1], s[2]) /\ order_type[s[1]] = "OrderEquel"
        /\ Starts(k, s[1]) /\ Ends(k, s[2]) /\ scatter_num = 1
    BY AtTheEnd
  <1>2. s[1] \in Chunk /\ s[2] \in 1 .. NumChunks /\ s[1] < s[2]
    <2>1. s[1] \in Chunk /\ s[2] \in 1 .. NumChunks
      BY <1>1
    <2>2. s[1] \in Int /\ s[2] \in Int
      BY <2>1, GroupingAssumption DEF Chunk
    <2> HIDE DEF s
    <2> QED
      BY <1>1, <2>1, <2>2
  <1>3. MaximalRun(k, s[1], s[2])
    <2> HIDE DEF s
    <2> QED
      BY <1>1, <1>2, MaximalIsBounded
  <1> QED
    BY <1>1, <1>3 DEF ReferenceRanges

\* A range of the reference is a range of the result: its first chunk is not
\* alone, hence it is in a range, and bounded runs that meet are equal.
LEMMA ReferenceIsRange ==
  ASSUME IInv, WholeInv, pc = "done", NEW k \in Key, NEW t \in ReferenceRanges(k)
  PROVE  \E r \in 1 .. Len(same_write_pattern_map[k]) :
           same_write_pattern_map[k][r] = t
  <1>1. /\ t \in Chunk \X (1 .. NumChunks) /\ scatter_num = 1 /\ t[1] + 1 < t[2]
        /\ order_type[t[1]] = "OrderEquel" /\ MaximalRun(k, t[1], t[2])
    BY DEF ReferenceRanges
  <1>2. PICK lo \in Chunk, hi \in 1 .. NumChunks : t = <<lo, hi>>
    BY <1>1
  <1>3. /\ lo + 1 < hi /\ order_type[lo] = "OrderEquel" /\ MaximalRun(k, lo, hi)
        /\ OneRun(k, lo, hi) /\ lo \in Int /\ hi \in Int /\ hi <= NumChunks
        /\ NumChunks \in Int
    BY <1>1, <1>2, GroupingAssumption DEF MaximalRun, Chunk
  <1>4. Starts(k, lo) /\ Ends(k, hi)
    BY <1>3, MaximalIsBounded
  <1>5. /\ lo \in lo .. hi - 1 /\ lo + 1 \in lo .. hi - 1
        /\ lo + 1 < NumChunks /\ (lo + 1) - 1 = lo
    BY <1>3
  <1>6. hash_info[lo] = k
    BY <1>3, <1>5 DEF OneRun
  <1>7. ~InGroup(k, lo)
    <2>1. ~Ends(k, lo + 1)
      BY <1>3, <1>5 DEF OneRun, Ends
    <2> QED
      BY <1>1, <1>3, <2>1, AtTheEnd DEF Alone
  <1>8. InRange(k, lo)
    BY <1>6, <1>7, AtTheEnd DEF Placed, ExactlyOneOf
  <1>9. PICK r \in 1 .. Len(same_write_pattern_map[k]) :
          /\ same_write_pattern_map[k][r][1] <= lo
          /\ lo < same_write_pattern_map[k][r][2]
    BY <1>8 DEF InRange
  <1>10. PICK low \in Chunk, high \in 1 .. NumChunks :
           /\ same_write_pattern_map[k][r] = <<low, high>>
           /\ OneRun(k, low, high) /\ Starts(k, low) /\ Ends(k, high)
           /\ low <= lo /\ lo < high
    <2> DEFINE s == same_write_pattern_map[k][r]
    <2>1. /\ s \in Chunk \X (1 .. NumChunks)
          /\ OneRun(k, s[1], s[2]) /\ Starts(k, s[1]) /\ Ends(k, s[2])
      BY AtTheEnd
    <2>2. s = <<s[1], s[2]>> /\ s[1] \in Chunk /\ s[2] \in 1 .. NumChunks
      BY <2>1
    <2> QED
      BY <1>9, <2>1, <2>2
  <1>11. lo <= low /\ high <= hi
    BY <1>3, <1>4, <1>5, <1>10, BoundedHolds
  <1>12. low <= lo /\ hi <= high
    <2>1. lo <= lo /\ lo < hi /\ lo \in Chunk /\ hi \in 1 .. NumChunks
      BY <1>3
    <2>2. OneRun(k, lo, hi)
      BY <1>3
    <2> QED
      BY <1>10, <2>1, <2>2, BoundedHolds
  <1>13. low = lo /\ high = hi
    BY <1>3, <1>11, <1>12, GroupingAssumption DEF Chunk
  <1> QED
    BY <1>2, <1>10, <1>13

\* What the two functions return is the reference, whatever the order in which
\* the map is iterated: the ranges are the maximal runs, and the groups hold
\* the chunks outside them.
THEOREM ResultIsReference == Spec => []MatchesReference
  <1>1. ASSUME IInv, WholeInv, pc = "done", NEW k \in Key
        PROVE  {same_write_pattern_map[k][r] : r \in 1 .. Len(same_write_pattern_map[k])}
                 = ReferenceRanges(k)
    BY <1>1, RangeIsReference, ReferenceIsRange
  <1>2. ASSUME IInv, WholeInv, pc = "done", NEW k \in Key, NEW c \in Chunk
        PROVE  InRange(k, c) <=> \E r \in ReferenceRanges(k) : c \in r[1] .. r[2] - 1
    <2>1. InRange(k, c) <=> \E s \in ReferenceRanges(k) : s[1] <= c /\ c < s[2]
      BY <1>2, <1>1 DEF InRange
    <2>2. \A s \in ReferenceRanges(k) :
            c \in s[1] .. s[2] - 1 <=> s[1] <= c /\ c < s[2]
      <3> TAKE s \in ReferenceRanges(k)
      <3>1. s[1] \in Chunk /\ s[2] \in 1 .. NumChunks
        BY DEF ReferenceRanges
      <3> QED
        BY <3>1, GroupingAssumption DEF Chunk
    <2> QED
      BY <2>1, <2>2
  <1>3. ASSUME IInv, WholeInv, pc = "done", NEW k \in Key
        PROVE  {same_feature_map[k][p] : p \in 1 .. Len(same_feature_map[k])}
                 = ReferenceGroup(k)
    <2>1. \A p \in 1 .. Len(same_feature_map[k]) : same_feature_map[k][p] \in Chunk
      BY <1>3, ElementFacts DEF IInv, TypeOK
    <2>2. \A c \in Chunk : InGroup(k, c) <=> hash_info[c] = k /\ ~InRange(k, c)
      BY <1>3, AtTheEnd DEF Placed, ExactlyOneOf
    <2>3. \A c \in Chunk : InGroup(k, c) <=> c \in ReferenceGroup(k)
      BY <1>3, <1>2, <2>2 DEF ReferenceGroup
    <2> QED
      BY <2>1, <2>3 DEF InGroup, ReferenceGroup
  <1>4. IInv /\ WholeInv => MatchesReference
    BY <1>1, <1>3 DEF MatchesReference
  <1> QED
    BY <1>4, InvariantHolds, RunsStayWhole, PTL
=============================================================================
