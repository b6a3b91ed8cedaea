---------------------------- MODULE DynVecProofs ----------------------------
(***************************************************************************)
(* The words that get_feature_hash takes in determine all that a loop      *)
(* takes over from a chunk.  And the loops of a compiled kernel read the   *)
(* words of their own chunks, for every number of chunks, every shape and  *)
(* every order of the two maps.                                            *)
(***************************************************************************)
EXTENDS DynVec, LaneProofs

GP == INSTANCE GroupingProofs WITH Local <- Output

-----------------------------------------------------------------------------
(***************************************************************************)
(* The chunks of a range                                                   *)
(***************************************************************************)
-----------------------------------------------------------------------------
(***************************************************************************)
(* What is laid out for one chunk, and what a loop takes for it            *)
(***************************************************************************)
\* The numbers from lo up to, and without, hi.
LEMMA BetweenFacts ==
  ASSUME NEW lo \in Int, NEW hi \in Int, lo <= hi
  PROVE  /\ IsSeq(Between(lo, hi))
         /\ Len(Between(lo, hi)) = hi - lo
         /\ \A n \in 1 .. hi - lo : Between(lo, hi)[n] = lo + n - 1
  <1>1. /\ Between(lo, hi) = [n \in 1 .. hi - lo |-> Between(lo, hi)[n]]
        /\ \A n \in 1 .. hi - lo : Between(lo, hi)[n] = lo + n - 1
    BY DEF Between
  <1>2. hi - lo \in Nat
    OBVIOUS
  <1> QED
    BY <1>1, <1>2, FunctionIsSeq

-----------------------------------------------------------------------------
(***************************************************************************)
(* The words of a feature                                                  *)
(***************************************************************************)
\* The words of a chunk fix all that a loop is made from.
LEMMA WordsFixCodes ==
  ASSUME NEW r, NEW s, NEW c \in [Lane -> Nat], NEW d \in [Lane -> Nat],
         Words(GatherInfo(c), ScatterInfo(r), ReductionInfo(r))
           = Words(GatherInfo(d), ScatterInfo(s), ReductionInfo(s))
  PROVE  /\ ColumnCode(GatherInfo(c)) = ColumnCode(GatherInfo(d))
         /\ RowCode(ScatterInfo(r), ReductionInfo(r)) = RowCode(ScatterInfo(s), ReductionInfo(s))
  <1>1. /\ FeatureWord(GatherInfo(c)) = FeatureWord(GatherInfo(d))
        /\ FeatureWord(ScatterInfo(r)) = FeatureWord(ScatterInfo(s))
        /\ FeatureWord(ReductionInfo(r)) = FeatureWord(ReductionInfo(s))
    BY DEF Words
  <1>2. GatherInfo(c).order = GatherInfo(d).order /\ GatherInfo(c).mask = GatherInfo(d).mask
    BY <1>1, ColumnIsFeature, WordIsFeature
  <1>3. ScatterInfo(r).order = ScatterInfo(s).order /\ ScatterInfo(r).mask = ScatterInfo(s).mask
    BY <1>1, RowIsFeature, WordIsFeature
  <1>4. ReductionInfo(r).order = ReductionInfo(s).order /\ ReductionInfo(r).mask = ReductionInfo(s).mask
    BY <1>1, RoundsAreFeature, WordIsFeature
  <1>5. \A ix : /\ ReductionInfo(ix).order = OrderOf(ix)
                /\ OrderOf(ix) # "DisOrder" => Len(ReductionInfo(ix).rounds) = 0
    BY DEF ReductionInfo
  <1>6. Len(ReductionInfo(r).rounds) = Len(ReductionInfo(s).rounds)
    <2>1. CASE OrderOf(r) = "DisOrder"
      <3>1. OrderOf(s) = "DisOrder"
        BY <1>4, <1>5, <2>1
      <3> QED
        BY <1>4, <2>1, <3>1, RoundCount
    <2>2. CASE OrderOf(r) # "DisOrder"
      <3>1. OrderOf(s) # "DisOrder"
        BY <1>4, <1>5, <2>2
      <3> QED
        BY <1>5, <2>2, <3>1
    <2> QED
      BY <2>1, <2>2
  <1> QED
    BY <1>2, <1>3, <1>6 DEF ColumnCode, RowCode

\* A hash that keeps the words of the chunks apart keeps their loops apart:
\* order type and mask can be read off the words, and the number of rounds of a
\* reduction is its mask.  So get_feature_hash may only go wrong by mixing two
\* lists of words (tools_set.cpp).
THEOREM WordsSeparate == NoCollision => HashSeparates
  <1> SUFFICES ASSUME NoCollision,
                      NEW r \in RowShapes, NEW s \in RowShapes,
                      NEW c \in ColumnShapes, NEW d \in ColumnShapes,
                      HashOfShapes(r, c) = HashOfShapes(s, d)
               PROVE  /\ ColumnCode(GatherInfo(c)) = ColumnCode(GatherInfo(d))
                      /\ RowCode(ScatterInfo(r), ReductionInfo(r))
                           = RowCode(ScatterInfo(s), ReductionInfo(s))
    BY DEF HashSeparates
  <1>1. WordsOfShapes(r, c) = WordsOfShapes(s, d)
    BY DEF NoCollision
  <1>2. c \in [Lane -> Nat] /\ d \in [Lane -> Nat]
    BY DynVecAssumption
  <1> QED
    BY <1>1, <1>2, WordsFixCodes DEF WordsOfShapes

-----------------------------------------------------------------------------
(***************************************************************************)
(* generate_information is module Grouping                                 *)
(***************************************************************************)
LEMMA SameNext == G!Next <=> GP!Next
  BY DEF G!Next, GP!Next, G!Chunk, GP!Chunk, G!Present, GP!Present,
     G!CombinSameFeature, GP!CombinSameFeature,
     G!CombinSameWritePattern, GP!CombinSameWritePattern, G!VisitOther, GP!VisitOther,
     G!VisitEqual, GP!VisitEqual, G!ExtendRun, GP!ExtendRun, G!CloseRun, GP!CloseRun,
     G!FinishKey, GP!FinishKey, G!Finish, GP!Finish, G!index_vec, GP!index_vec,
     G!LeaderOrder, GP!LeaderOrder, G!ContinuesRun, GP!ContinuesRun,
     G!RangeOfRun, GP!RangeOfRun, G!input, GP!input, G!scan, GP!scan

\* Its inductive invariant is the one that GroupingProofs proves.
LEMMA SameIInv == G!IInv <=> GP!IInv
  <1>1. G!TypeOK <=> GP!TypeOK
    BY DEF G!TypeOK, GP!TypeOK, G!Chunk, GP!Chunk, G!OrderType, GP!OrderType
  <1>2. G!KeyFixesOrder <=> GP!KeyFixesOrder
    BY DEF G!KeyFixesOrder, GP!KeyFixesOrder, G!Chunk, GP!Chunk
  <1>3. G!GroupsIncreasing <=> GP!GroupsIncreasing
    BY DEF G!GroupsIncreasing, GP!GroupsIncreasing, G!Increasing, GP!Increasing
  <1>4. G!RangesAreRuns <=> GP!RangesAreRuns
    BY DEF G!RangesAreRuns, GP!RangesAreRuns
  <1>5. G!Appending <=> GP!Appending
    BY DEF G!Appending, GP!Appending, G!InGroup, GP!InGroup, G!Chunk, GP!Chunk
  <1>6. G!KeysOutsideRun <=> GP!KeysOutsideRun
    BY DEF G!KeysOutsideRun, GP!KeysOutsideRun, G!Unvisited, GP!Unvisited, G!Placed, GP!Placed,
       G!RangesApart, GP!RangesApart, G!InGroup, GP!InGroup, G!InRange, GP!InRange,
       G!ExactlyOneOf, GP!ExactlyOneOf, G!Present, GP!Present, G!Chunk, GP!Chunk
  <1>7. G!InsideRun <=> GP!InsideRun
    BY DEF G!InsideRun, GP!InsideRun, G!RunSoFar, GP!RunSoFar, G!KeyIntact, GP!KeyIntact,
       G!ScannedOnce, GP!ScannedOnce, G!Scanned, GP!Scanned, G!Kept, GP!Kept,
       G!Increasing, GP!Increasing, G!RangesApart, GP!RangesApart, G!InGroup, GP!InGroup,
       G!InRange, GP!InRange, G!ExactlyOneOf, GP!ExactlyOneOf,
       G!index_vec, GP!index_vec, G!Chunk, GP!Chunk
  <1> QED
    BY <1>1, <1>2, <1>3, <1>4, <1>5, <1>6, <1>7 DEF G!IInv, GP!IInv

\* What module Grouping assumes of its constants holds here.
LEMMA GroupingHolds == NumChunks \in Nat /\ NoKey \notin Key
  BY DynVecAssumption

\* A step of generate_information, or none, keeps its invariant and its input.
LEMMA GroupingStep ==
  ASSUME G!IInv, G!Next \/ UNCHANGED grouping
  PROVE  G!IInv' /\ UNCHANGED <<hash_info, order_type>>
  <1>1. GP!IInv
    BY SameIInv
  <1>2. GP!Next \/ UNCHANGED GP!vars
    BY SameNext DEF grouping, GP!vars, GP!input, GP!scan
  <1>3. GP!IInv'
    BY <1>1, <1>2, GroupingHolds, GP!NextIInv
  <1>4. G!IInv'
    BY <1>3, SameIInv, PTL
  <1>5. UNCHANGED <<hash_info, order_type>>
    BY <1>2 DEF GP!vars, GP!Next, GP!input,
       GP!CombinSameFeature, GP!CombinSameWritePattern, GP!VisitOther, GP!VisitEqual,
       GP!ExtendRun, GP!CloseRun, GP!FinishKey, GP!Finish
  <1> QED
    BY <1>4, <1>5

\* The ranges of two chunks or more.
Long == {r \in Chunk \X (1 .. NumChunks) : r[1] + 1 < r[2]}

\* What generate_information has computed when it returns: every entry of the
\* two maps holds chunks of its own key, and every range is long.
LEMMA GroupingDone ==
  ASSUME G!IInv, pc = "done"
  PROVE  /\ G!Present \subseteq Key
         /\ IsFiniteSet(G!Present)
         /\ \A k \in Key :
              /\ same_feature_map[k] \in Seq(Chunk)
              /\ \A p \in 1 .. Len(same_feature_map[k]) : hash_info[same_feature_map[k][p]] = k
              /\ same_write_pattern_map[k] \in Seq(Long)
              /\ \A p \in 1 .. Len(same_write_pattern_map[k]) :
                   LET r == same_write_pattern_map[k][p] IN
                   \A c \in r[1] .. r[2] - 1 :
                     c \in Chunk /\ hash_info[c] = k /\ order_type[c] = "OrderEquel"
  <1>1. /\ G!TypeOK /\ G!RangesAreRuns
        /\ \A k \in Key : G!Placed(k)
    BY GroupingHolds DEF G!IInv, G!InsideRun, G!KeysOutsideRun
  <1>2. G!Chunk = Chunk
    BY DEF G!Chunk, Chunk
  <1>3. G!Present \subseteq Key /\ IsFiniteSet(G!Present)
    <2>1. G!Present \subseteq Key
      BY <1>1 DEF G!Present, G!TypeOK
    <2>2. IsFiniteSet(Chunk)
      BY GroupingHolds, FS_Interval DEF Chunk
    <2>3. hash_info \in Surjection(Chunk, G!Present)
      BY <1>1, <1>2 DEF G!Present, G!TypeOK, Surjection
    <2>4. IsFiniteSet(G!Present)
      BY <2>2, <2>3, FS_Surjection
    <2> QED
      BY <2>1, <2>4
  <1>4. ASSUME NEW k \in Key
        PROVE  /\ same_feature_map[k] \in Seq(Chunk)
               /\ \A p \in 1 .. Len(same_feature_map[k]) : hash_info[same_feature_map[k][p]] = k
    <2>1. same_feature_map[k] \in Seq(Chunk)
      BY <1>1, <1>2 DEF G!TypeOK
    <2>2. ASSUME NEW p \in 1 .. Len(same_feature_map[k])
          PROVE  hash_info[same_feature_map[k][p]] = k
      <3>1. same_feature_map[k][p] \in Chunk /\ G!InGroup(k, same_feature_map[k][p])
        BY <2>1 DEF G!InGroup
      <3> QED
        BY <1>1, <1>2, <3>1 DEF G!Placed
    <2> QED
      BY <2>1, <2>2
  <1>5. ASSUME NEW k \in Key
        PROVE  /\ same_write_pattern_map[k] \in Seq(Long)
               /\ \A p \in 1 .. Len(same_write_pattern_map[k]) :
                    LET r == same_write_pattern_map[k][p] IN
                    \A c \in r[1] .. r[2] - 1 :
                      c \in Chunk /\ hash_info[c] = k /\ order_type[c] = "OrderEquel"
    <2> DEFINE ranges == same_write_pattern_map[k]
    <2>1. ranges \in Seq(Chunk \X (1 .. NumChunks))
      BY <1>1, <1>2 DEF G!TypeOK
    <2>2. \A p \in 1 .. Len(ranges) :
            /\ ranges[p][1] + 1 < ranges[p][2]
            /\ \A c \in ranges[p][1] .. ranges[p][2] - 1 :
                 hash_info[c] = k /\ order_type[c] = "OrderEquel"
      BY <1>1 DEF G!RangesAreRuns
    <2> HIDE DEF ranges
    <2>3. \A p \in 1 .. Len(ranges) :
            /\ ranges[p] \in Long
            /\ \A c \in ranges[p][1] .. ranges[p][2] - 1 : c \in Chunk
      BY <2>1, <2>2, GroupingHolds DEF Long, Chunk
    <2>4. ranges \in Seq(Long)
      BY <2>1, <2>3
    <2> QED
      BY <2>2, <2>3, <2>4 DEF ranges
  <1> QED
    BY <1>3, <1>4, <1>5

-----------------------------------------------------------------------------
(***************************************************************************)
(* The chunks in the order of the loops                                    *)
(***************************************************************************)
\* An order of a finite set is a sequence of its elements.
LEMMA OrderIsSeq ==
  ASSUME NEW S, IsFiniteSet(S), NEW order \in SetToSeqs(S)
  PROVE  order \in Seq(S)
  <1>1. Cardinality(S) \in Nat
    BY FS_CardinalityType
  <1>2. order \in [1 .. Cardinality(S) -> S]
    BY DEF SetToSeqs
  <1> QED
    BY <1>1, <1>2

OrdersKnown ==
  pc = "done" /\ group_order \in Seq(G!Present) /\ range_order \in Seq(G!Present)

\* The chunks of the n-th group have the n-th key of the first map.
LEMMA GroupsFacts ==
  ASSUME G!IInv, OrdersKnown
  PROVE  /\ Groups \in Seq(Seq(Chunk)) /\ Len(Groups) = Len(group_order)
         /\ \A n \in 1 .. Len(Groups) :
              /\ group_order[n] \in Key
              /\ Groups[n] = same_feature_map[group_order[n]]
              /\ \A p \in 1 .. Len(Groups[n]) : hash_info[Groups[n][p]] = group_order[n]
         /\ GroupChunks = FlattenSeq(Groups) /\ GroupChunks \in Seq(Chunk)
  <1>1. \A n \in 1 .. Len(group_order) : group_order[n] \in Key
    BY GroupingDone DEF OrdersKnown
  <1>2. Len(group_order) \in Nat
    BY DEF OrdersKnown
  <1>3. /\ Groups = [n \in 1 .. Len(group_order) |-> Groups[n]]
        /\ \A n \in 1 .. Len(group_order) : Groups[n] = same_feature_map[group_order[n]]
    BY DEF Groups
  <1>4. \A n \in 1 .. Len(group_order) :
          /\ Groups[n] \in Seq(Chunk)
          /\ \A p \in 1 .. Len(Groups[n]) : hash_info[Groups[n][p]] = group_order[n]
    BY <1>1, <1>3, GroupingDone DEF OrdersKnown
  <1>5. Groups \in Seq(Seq(Chunk)) /\ Len(Groups) = Len(group_order)
    BY <1>2, <1>3, <1>4
  <1>6. GroupChunks = FlattenSeq(Groups)
    BY DEF GroupChunks, ChunksOfGroups, Groups
  <1>7. GroupChunks \in Seq(Chunk)
    BY <1>5, <1>6, FlattenFacts
  <1> QED
    BY <1>1, <1>3, <1>4, <1>5, <1>6, <1>7

\* The chunks of the n-th list of ranges have the n-th key of the second map, and
\* write one location.
LEMMA RangesFacts ==
  ASSUME G!IInv, OrdersKnown
  PROVE  /\ RangeLists \in Seq(Seq(Long)) /\ Len(RangeLists) = Len(range_order)
         /\ \A n \in 1 .. Len(RangeLists) :
              /\ range_order[n] \in Key
              /\ RangeLists[n] = same_write_pattern_map[range_order[n]]
              /\ \A p \in 1 .. Len(RangeLists[n]) :
                   \A c \in RangeLists[n][p][1] .. RangeLists[n][p][2] - 1 :
                     c \in Chunk /\ hash_info[c] = range_order[n] /\ order_type[c] = "OrderEquel"
         /\ Ranges = FlattenSeq(RangeLists) /\ Ranges \in Seq(Long)
  <1>1. \A n \in 1 .. Len(range_order) : range_order[n] \in Key
    BY GroupingDone DEF OrdersKnown
  <1>2. Len(range_order) \in Nat
    BY DEF OrdersKnown
  <1>3. /\ RangeLists = [n \in 1 .. Len(range_order) |-> RangeLists[n]]
        /\ \A n \in 1 .. Len(range_order) : RangeLists[n] = same_write_pattern_map[range_order[n]]
    BY DEF RangeLists
  <1>4. \A n \in 1 .. Len(range_order) :
          /\ RangeLists[n] \in Seq(Long)
          /\ \A p \in 1 .. Len(RangeLists[n]) :
               \A c \in RangeLists[n][p][1] .. RangeLists[n][p][2] - 1 :
                 c \in Chunk /\ hash_info[c] = range_order[n] /\ order_type[c] = "OrderEquel"
    BY <1>1, <1>3, GroupingDone DEF OrdersKnown
  <1>5. RangeLists \in Seq(Seq(Long)) /\ Len(RangeLists) = Len(range_order)
    BY <1>2, <1>3, <1>4
  <1>6. Ranges = FlattenSeq(RangeLists)
    BY DEF Ranges, RangesOf, RangeLists
  <1>7. Ranges \in Seq(Long)
    BY <1>5, <1>6, FlattenFacts
  <1> QED
    BY <1>1, <1>3, <1>4, <1>5, <1>6, <1>7

\* A range stands for its chunks.
LEMMA RangeChunksFacts ==
  ASSUME Ranges \in Seq(Long)
  PROVE  /\ RangeChunks \in Seq(Seq(Chunk)) /\ Len(RangeChunks) = Len(Ranges)
         /\ \A n \in 1 .. Len(Ranges) :
              /\ Ranges[n][1] \in Chunk /\ Ranges[n][2] \in Int
              /\ Ranges[n][1] + 1 < Ranges[n][2]
              /\ Len(RangeChunks[n]) = Ranges[n][2] - Ranges[n][1]
              /\ \A p \in 1 .. Ranges[n][2] - Ranges[n][1] :
                   RangeChunks[n][p] = Ranges[n][1] + p - 1
         /\ ChunksOfRanges(Ranges) = FlattenSeq(RangeChunks)
         /\ FlattenSeq(RangeChunks) \in Seq(Chunk)
         /\ FirstsOfRanges(Ranges) \in Seq(Chunk)
         /\ Len(FirstsOfRanges(Ranges)) = Len(Ranges)
         /\ \A n \in 1 .. Len(Ranges) : FirstsOfRanges(Ranges)[n] = Ranges[n][1]
  <1>1. Len(Ranges) \in Nat /\ \A n \in 1 .. Len(Ranges) : Ranges[n] \in Long
    OBVIOUS
  <1>2. /\ RangeChunks = [n \in 1 .. Len(Ranges) |-> RangeChunks[n]]
        /\ \A n \in 1 .. Len(Ranges) : RangeChunks[n] = Between(Ranges[n][1], Ranges[n][2])
    BY DEF RangeChunks
  <1>3. ASSUME NEW n \in 1 .. Len(Ranges)
        PROVE  /\ Ranges[n][1] \in Chunk /\ Ranges[n][2] \in Int
               /\ Ranges[n][1] + 1 < Ranges[n][2]
               /\ RangeChunks[n] \in Seq(Chunk)
               /\ Len(RangeChunks[n]) = Ranges[n][2] - Ranges[n][1]
               /\ \A p \in 1 .. Ranges[n][2] - Ranges[n][1] :
                    RangeChunks[n][p] = Ranges[n][1] + p - 1
    <2> DEFINE lo == Ranges[n][1]
               hi == Ranges[n][2]
    <2>1. lo \in Chunk /\ hi \in 1 .. NumChunks /\ lo + 1 < hi
      BY <1>1 DEF Long
    <2>2. RangeChunks[n] = Between(lo, hi)
      BY <1>2
    <2> HIDE DEF lo, hi
    <2>3. lo \in Int /\ hi \in Int /\ lo <= hi /\ lo >= 0 /\ hi <= NumChunks
      BY <2>1, GroupingHolds DEF Chunk
    <2>4. /\ IsSeq(Between(lo, hi))
          /\ Len(Between(lo, hi)) = hi - lo
          /\ \A p \in 1 .. hi - lo : Between(lo, hi)[p] = lo + p - 1
      BY <2>3, BetweenFacts
    <2>5. PICK T : Between(lo, hi) \in Seq(T)
      BY <2>4 DEF IsSeq
    <2>6. \A p \in 1 .. hi - lo : lo + p - 1 \in Chunk
      BY <2>3, GroupingHolds DEF Chunk
    <2>7. Between(lo, hi) \in Seq(Chunk)
      BY <2>4, <2>5, <2>6
    <2> QED
      BY <2>1, <2>2, <2>3, <2>4, <2>7 DEF lo, hi
  <1>4. RangeChunks \in Seq(Seq(Chunk)) /\ Len(RangeChunks) = Len(Ranges)
    BY <1>1, <1>2, <1>3
  <1>5. ChunksOfRanges(Ranges) = FlattenSeq(RangeChunks)
    BY DEF ChunksOfRanges, RangeChunks
  <1>6. FlattenSeq(RangeChunks) \in Seq(Chunk)
    BY <1>4, FlattenFacts
  <1>7. /\ FirstsOfRanges(Ranges) \in Seq(Chunk)
        /\ Len(FirstsOfRanges(Ranges)) = Len(Ranges)
        /\ \A n \in 1 .. Len(Ranges) : FirstsOfRanges(Ranges)[n] = Ranges[n][1]
    BY <1>1, <1>3 DEF FirstsOfRanges
  <1> QED
    BY <1>3, <1>4, <1>5, <1>6, <1>7

\* The chunks of the groups come first, then those of the ranges.
LEMMA ChunksFacts ==
  ASSUME G!IInv, OrdersKnown
  PROVE  /\ AllChunks \in Seq(Chunk)
         /\ Len(AllChunks) = Len(GroupChunks) + Len(FlattenSeq(RangeChunks))
         /\ \A n \in 1 .. Len(GroupChunks) : AllChunks[n] = GroupChunks[n]
         /\ \A n \in 1 .. Len(FlattenSeq(RangeChunks)) :
              AllChunks[Len(GroupChunks) + n] = FlattenSeq(RangeChunks)[n]
         /\ RowChunks \in Seq(Chunk)
         /\ Len(RowChunks) = Len(GroupChunks) + Len(Ranges)
         /\ \A n \in 1 .. Len(GroupChunks) : RowChunks[n] = GroupChunks[n]
         /\ \A n \in 1 .. Len(Ranges) : RowChunks[Len(GroupChunks) + n] = Ranges[n][1]
  <1>1. GroupChunks \in Seq(Chunk)
    BY GroupsFacts
  <1>2. Ranges \in Seq(Long)
    BY RangesFacts
  <1> DEFINE rest == FlattenSeq(RangeChunks)
             firsts == FirstsOfRanges(Ranges)
  <1>3. /\ rest \in Seq(Chunk) /\ ChunksOfRanges(Ranges) = rest
        /\ firsts \in Seq(Chunk) /\ Len(firsts) = Len(Ranges)
        /\ \A n \in 1 .. Len(Ranges) : firsts[n] = Ranges[n][1]
    BY <1>2, RangeChunksFacts
  <1>4. AllChunks = GroupChunks \o rest /\ RowChunks = GroupChunks \o firsts
    BY <1>3 DEF AllChunks, RowChunks
  <1> HIDE DEF rest, firsts
  <1>5. /\ AllChunks \in Seq(Chunk)
        /\ Len(AllChunks) = Len(GroupChunks) + Len(rest)
        /\ \A n \in 1 .. Len(GroupChunks) : AllChunks[n] = GroupChunks[n]
        /\ \A n \in 1 .. Len(rest) : AllChunks[Len(GroupChunks) + n] = rest[n]
    BY <1>1, <1>3, <1>4
  <1>6. /\ RowChunks \in Seq(Chunk)
        /\ Len(RowChunks) = Len(GroupChunks) + Len(firsts)
        /\ \A n \in 1 .. Len(GroupChunks) : RowChunks[n] = GroupChunks[n]
        /\ \A n \in 1 .. Len(firsts) : RowChunks[Len(GroupChunks) + n] = firsts[n]
    BY <1>1, <1>3, <1>4
  <1> QED
    BY <1>3, <1>5, <1>6 DEF rest

-----------------------------------------------------------------------------
(***************************************************************************)
(* The words of the chunks                                                 *)
(***************************************************************************)
\* The words of one chunk are as many as a loop that fits it takes.
LEMMA ChunkWords ==
  ASSUME FeaturesKnown, NEW c \in Chunk
  PROVE  /\ IsSeq(DataSlots(c)) /\ Len(DataSlots(c)) = Vector
         /\ IsSeq(ColumnSlots(c))
         /\ Len(ColumnSlots(c)) = GatherWidth(ColumnCode(gather_info[c]))
         /\ IsSeq(RowSlots(c))
         /\ Len(RowSlots(c)) = GatherWidth(RowCode(scatter_info[c], reduction_info[c]))
         /\ IsSeq(RoundSlots(c))
         /\ Len(RoundSlots(c)) = ReductionWidth(RowCode(scatter_info[c], reduction_info[c]))
         /\ order_type[c] = "OrderEquel" => Len(RoundSlots(c)) = 0
  <1>1. PICK r \in RowShapes, s \in ColumnShapes :
          /\ gather_info[c] = GatherInfo(s)
          /\ scatter_info[c] = ScatterInfo(r)
          /\ reduction_info[c] = ReductionInfo(r)
    BY DEF FeaturesKnown
  <1>2. IsSeq(DataSlots(c)) /\ Len(DataSlots(c)) = Vector
    <2> DEFINE lo == c * Vector
               hi == (c + 1) * Vector
    <2>1. lo \in Int /\ hi \in Int /\ lo <= hi /\ hi - lo = Vector
      BY VectorAssumption, GroupingHolds DEF Chunk
    <2> HIDE DEF lo, hi
    <2>2. IsSeq(Between(lo, hi)) /\ Len(Between(lo, hi)) = Vector
      BY <2>1, BetweenFacts
    <2> QED
      BY <2>2 DEF lo, hi, DataSlots
  <1>3. /\ IsSeq(ColumnSlots(c))
        /\ Len(ColumnSlots(c)) = GatherWidth(ColumnCode(gather_info[c]))
    BY <1>1, ColumnFits DEF ColumnSlots
  <1>4. /\ IsSeq(RowSlots(c))
        /\ Len(RowSlots(c)) = GatherWidth(RowCode(scatter_info[c], reduction_info[c]))
    BY <1>1, RowFits DEF RowSlots
  <1>5. /\ IsSeq(RoundSlots(c))
        /\ Len(RoundSlots(c)) = ReductionWidth(RowCode(scatter_info[c], reduction_info[c]))
    BY <1>1, RoundsFit DEF RoundSlots
  <1>6. order_type[c] = OrderOf(r)
    BY <1>1 DEF FeaturesKnown, ScatterInfo, OrderedInfo
  <1>7. order_type[c] = "OrderEquel" => Len(RoundSlots(c)) = 0
    BY <1>1, <1>6, RoundsFit DEF RoundSlots
  <1> QED
    BY <1>2, <1>3, <1>4, <1>5, <1>7

\* There are words for every chunk, and row words for every chunk and range.
LEMMA WordsFacts ==
  ASSUME G!IInv, OrdersKnown, FeaturesKnown
  PROVE  /\ AreSeqs(DataWords) /\ Len(DataWords) = Len(AllChunks)
         /\ AreSeqs(ColumnWords) /\ Len(ColumnWords) = Len(AllChunks)
         /\ AreSeqs(RowWords) /\ Len(RowWords) = Len(RowChunks)
         /\ AreSeqs(RoundWords) /\ Len(RoundWords) = Len(AllChunks)
  <1>1. /\ Len(AllChunks) \in Nat /\ \A n \in 1 .. Len(AllChunks) : AllChunks[n] \in Chunk
        /\ Len(RowChunks) \in Nat /\ \A n \in 1 .. Len(RowChunks) : RowChunks[n] \in Chunk
    BY ChunksFacts
  <1>2. /\ DataWords = [n \in 1 .. Len(AllChunks) |-> DataWords[n]]
        /\ \A n \in 1 .. Len(AllChunks) : DataWords[n] = DataSlots(AllChunks[n])
    BY DEF DataWords
  <1>3. /\ ColumnWords = [n \in 1 .. Len(AllChunks) |-> ColumnWords[n]]
        /\ \A n \in 1 .. Len(AllChunks) : ColumnWords[n] = ColumnSlots(AllChunks[n])
    BY DEF ColumnWords
  <1>4. /\ RowWords = [n \in 1 .. Len(RowChunks) |-> RowWords[n]]
        /\ \A n \in 1 .. Len(RowChunks) : RowWords[n] = RowSlots(RowChunks[n])
    BY DEF RowWords
  <1>5. /\ RoundWords = [n \in 1 .. Len(AllChunks) |-> RoundWords[n]]
        /\ \A n \in 1 .. Len(AllChunks) : RoundWords[n] = RoundSlots(AllChunks[n])
    BY DEF RoundWords
  <1>6. /\ \A n \in 1 .. Len(AllChunks) : IsSeq(DataWords[n])
        /\ \A n \in 1 .. Len(AllChunks) : IsSeq(ColumnWords[n])
        /\ \A n \in 1 .. Len(RowChunks) : IsSeq(RowWords[n])
        /\ \A n \in 1 .. Len(AllChunks) : IsSeq(RoundWords[n])
    BY <1>1, <1>2, <1>3, <1>4, <1>5, ChunkWords
  <1>7. AreSeqs(DataWords) /\ Len(DataWords) = Len(AllChunks)
    BY <1>1, <1>2, <1>6, PartsAreSeqs
  <1>8. AreSeqs(ColumnWords) /\ Len(ColumnWords) = Len(AllChunks)
    BY <1>1, <1>3, <1>6, PartsAreSeqs
  <1>9. AreSeqs(RowWords) /\ Len(RowWords) = Len(RowChunks)
    BY <1>1, <1>4, <1>6, PartsAreSeqs
  <1>10. AreSeqs(RoundWords) /\ Len(RoundWords) = Len(AllChunks)
    BY <1>1, <1>5, <1>6, PartsAreSeqs
  <1> QED
    BY <1>7, <1>8, <1>9, <1>10

\* The words of the n-th chunk lie between what the first n - 1 chunks and what
\* the first n chunks take.
LEMMA WordsAt ==
  ASSUME G!IInv, OrdersKnown, FeaturesKnown,
         NEW n \in 1 .. Len(AllChunks), NEW c, c = AllChunks[n]
  PROVE  /\ InPlace(FlattenSeq(DataWords), Before(DataWords, n - 1), Vector, DataSlots(c))
         /\ Before(DataWords, n) = Before(DataWords, n - 1) + Vector
         /\ LET width == GatherWidth(ColumnCode(gather_info[c])) IN
            /\ InPlace(FlattenSeq(ColumnWords), Before(ColumnWords, n - 1), width, ColumnSlots(c))
            /\ Before(ColumnWords, n) = Before(ColumnWords, n - 1) + width
         /\ LET width == ReductionWidth(RowCode(scatter_info[c], reduction_info[c])) IN
            /\ InPlace(FlattenSeq(RoundWords), Before(RoundWords, n - 1), width, RoundSlots(c))
            /\ Before(RoundWords, n) = Before(RoundWords, n - 1) + width
         /\ order_type[c] = "OrderEquel" => Before(RoundWords, n) = Before(RoundWords, n - 1)
  <1>1. c \in Chunk
    BY ChunksFacts
  <1>2. /\ DataWords[n] = DataSlots(c)
        /\ ColumnWords[n] = ColumnSlots(c)
        /\ RoundWords[n] = RoundSlots(c)
    BY DEF DataWords, ColumnWords, RoundWords
  <1>3. /\ InPlace(FlattenSeq(DataWords), Before(DataWords, n - 1), Len(DataSlots(c)), DataSlots(c))
        /\ Before(DataWords, n) = Before(DataWords, n - 1) + Len(DataSlots(c))
    BY <1>2, WordsFacts, PartInPlace
  <1>4. /\ InPlace(FlattenSeq(ColumnWords), Before(ColumnWords, n - 1), Len(ColumnSlots(c)),
                   ColumnSlots(c))
        /\ Before(ColumnWords, n) = Before(ColumnWords, n - 1) + Len(ColumnSlots(c))
    BY <1>2, WordsFacts, PartInPlace
  <1>5. /\ InPlace(FlattenSeq(RoundWords), Before(RoundWords, n - 1), Len(RoundSlots(c)),
                   RoundSlots(c))
        /\ Before(RoundWords, n) = Before(RoundWords, n - 1) + Len(RoundSlots(c))
    BY <1>2, WordsFacts, PartInPlace
  <1>6. order_type[c] = "OrderEquel" => Before(RoundWords, n) = Before(RoundWords, n - 1)
    <2>1. Before(RoundWords, n - 1) \in Nat
      <3>1. AreSeqs(RoundWords) /\ n - 1 \in 0 .. Len(RoundWords)
        BY WordsFacts, ChunksFacts
      <3>2. PICK T : RoundWords \in Seq(Seq(T))
        BY <3>1 DEF AreSeqs
      <3>3. FlattenSeq(RoundWords) \in Seq(T)
        BY <3>2, FlattenFacts
      <3> QED
        BY <3>1, <3>2, <3>3, FlattenFacts
    <2> QED
      BY <1>1, <1>5, <2>1, ChunkWords
  <1> QED
    BY <1>1, <1>3, <1>4, <1>5, <1>6, ChunkWords

\* The same for the row index, which has one entry for a range.
LEMMA RowWordsAt ==
  ASSUME G!IInv, OrdersKnown, FeaturesKnown,
         NEW n \in 1 .. Len(RowChunks), NEW c, c = RowChunks[n]
  PROVE  LET width == GatherWidth(RowCode(scatter_info[c], reduction_info[c])) IN
         /\ InPlace(FlattenSeq(RowWords), Before(RowWords, n - 1), width, RowSlots(c))
         /\ Before(RowWords, n) = Before(RowWords, n - 1) + width
  <1>1. c \in Chunk
    BY ChunksFacts
  <1>2. RowWords[n] = RowSlots(c)
    BY DEF RowWords
  <1>3. /\ InPlace(FlattenSeq(RowWords), Before(RowWords, n - 1), Len(RowSlots(c)), RowSlots(c))
        /\ Before(RowWords, n) = Before(RowWords, n - 1) + Len(RowSlots(c))
    BY <1>2, WordsFacts, PartInPlace
  <1> QED
    BY <1>1, <1>3, ChunkWords

-----------------------------------------------------------------------------
(***************************************************************************)
(* Which chunk an iteration is for                                         *)
(***************************************************************************)
LEMMA CompiledFacts ==
  ASSUME StepInv, Compiled
  PROVE  G!IInv /\ OrdersKnown /\ FeaturesKnown
  BY DEF StepInv, StreamsLaid, OrdersKnown

\* An iteration of the loop of a group.
LEMMA GroupPosition ==
  ASSUME StepInv, Running("group"), iter < loop.count
  PROVE  LET c == Groups[at][iter + 1] IN
         /\ at \in 1 .. Len(Groups) /\ iter + 1 \in 1 .. Len(Groups[at])
         /\ Fits(at, c)
         /\ ChunksPassed \in Nat
         /\ ChunksPassed + 1 \in 1 .. Len(AllChunks) /\ AllChunks[ChunksPassed + 1] = c
         /\ RowsPassed = ChunksPassed
         /\ ChunksPassed + 1 \in 1 .. Len(RowChunks) /\ RowChunks[ChunksPassed + 1] = c
  <1>1. stage = "kernel" /\ at <= Len(loops) /\ loops[at].kind = "group" /\ iter < loops[at].count
    BY DEF Running, loop
  <1>2. G!IInv /\ OrdersKnown /\ FeaturesKnown
    BY <1>1, CompiledFacts DEF Compiled
  <1>3. /\ Len(loops) = Len(group_order) + Len(range_order)
        /\ at \in 1 .. Len(loops) + 1 /\ iter \in Nat
        /\ Len(group_order) \in Nat /\ Len(range_order) \in Nat
    BY <1>1, <1>2 DEF StepInv, LoopsMade, LoopsInStep, OrdersKnown
  <1>4. at \in 1 .. Len(group_order)
    <2> SUFFICES ASSUME at > Len(group_order) PROVE FALSE
      BY <1>3
    <2> DEFINE n == at - Len(group_order)
    <2>1. n \in 1 .. Len(range_order) /\ Len(group_order) + n = at
      BY <1>1, <1>3
    <2> HIDE DEF n
    <2>2. loops[Len(group_order) + n].kind = "range"
      BY <1>1, <2>1 DEF StepInv, LoopsMade
    <2> QED
      BY <1>1, <2>1, <2>2
  <1>5. loops[at].count = Len(Groups[at]) /\ \A p \in 1 .. Len(Groups[at]) : Fits(at, Groups[at][p])
    BY <1>1, <1>4 DEF StepInv, LoopsMade
  <1>6. /\ Groups \in Seq(Seq(Chunk)) /\ Len(Groups) = Len(group_order)
        /\ GroupChunks = FlattenSeq(Groups) /\ GroupChunks \in Seq(Chunk)
    BY <1>2, GroupsFacts
  <1>7. Groups[at] \in Seq(Chunk) /\ at \in 1 .. Len(Groups)
    BY <1>4, <1>6
  <1>8. iter + 1 \in 1 .. Len(Groups[at])
    BY <1>1, <1>3, <1>5, <1>7
  <1>9. ChunksPassed = Before(Groups, at - 1) + iter /\ RowsPassed = ChunksPassed
    BY <1>4 DEF ChunksPassed, RowsPassed
  <1>10. /\ GroupChunks[Before(Groups, at - 1) + (iter + 1)] = Groups[at][iter + 1]
         /\ Before(Groups, at - 1) + Len(Groups[at]) <= Len(GroupChunks)
         /\ Before(Groups, at - 1) \in Nat
    <2>1. at - 1 \in 0 .. Len(Groups) /\ at \in 0 .. Len(Groups)
      BY <1>6, <1>7
    <2>2. /\ Before(Groups, at - 1) \in 0 .. Len(FlattenSeq(Groups))
          /\ Before(Groups, at) \in 0 .. Len(FlattenSeq(Groups))
          /\ Before(Groups, at) = Before(Groups, at - 1) + Len(Groups[at])
          /\ FlattenSeq(Groups)[Before(Groups, at - 1) + (iter + 1)] = Groups[at][iter + 1]
      BY <1>6, <1>7, <1>8, <2>1, FlattenFacts
    <2>3. Len(FlattenSeq(Groups)) \in Nat
      BY <1>6
    <2> QED
      BY <1>6, <2>2, <2>3
  <1>11. ChunksPassed + 1 = Before(Groups, at - 1) + (iter + 1) /\ ChunksPassed \in Nat
    BY <1>3, <1>9, <1>10
  <1>12. ChunksPassed + 1 \in 1 .. Len(GroupChunks) /\ Len(GroupChunks) \in Nat
    BY <1>6, <1>7, <1>8, <1>10, <1>11
  <1>13. /\ Len(AllChunks) >= Len(GroupChunks) /\ Len(RowChunks) >= Len(GroupChunks)
         /\ Len(AllChunks) \in Nat /\ Len(RowChunks) \in Nat
         /\ AllChunks[ChunksPassed + 1] = GroupChunks[ChunksPassed + 1]
         /\ RowChunks[ChunksPassed + 1] = GroupChunks[ChunksPassed + 1]
    <2>1. /\ Len(AllChunks) = Len(GroupChunks) + Len(FlattenSeq(RangeChunks))
          /\ Len(RowChunks) = Len(GroupChunks) + Len(Ranges)
          /\ AllChunks[ChunksPassed + 1] = GroupChunks[ChunksPassed + 1]
          /\ RowChunks[ChunksPassed + 1] = GroupChunks[ChunksPassed + 1]
      BY <1>2, <1>12, ChunksFacts
    <2>2. Len(Ranges) \in Nat /\ Len(FlattenSeq(RangeChunks)) \in Nat
      BY <1>2, RangesFacts, RangeChunksFacts
    <2> QED
      BY <1>12, <2>1, <2>2
  <1>14. Fits(at, Groups[at][iter + 1])
    BY <1>5, <1>8
  <1>15. ChunksPassed + 1 \in 1 .. Len(AllChunks) /\ ChunksPassed + 1 \in 1 .. Len(RowChunks)
    BY <1>12, <1>13
  <1>16. GroupChunks[ChunksPassed + 1] = Groups[at][iter + 1]
    BY <1>10, <1>11
  <1> QED
    BY <1>7, <1>8, <1>9, <1>11, <1>13, <1>14, <1>15, <1>16

\* An iteration of the loop of the ranges of a key.
LEMMA RangePosition ==
  ASSUME StepInv, Running("range"), iter < loop.count
  PROVE  LET n == at - Len(group_order)
             r == RangeLists[n][iter + 1]
         IN
         /\ n \in 1 .. Len(RangeLists) /\ iter + 1 \in 1 .. Len(RangeLists[n])
         /\ RangesPassed \in Nat
         /\ RangesPassed + 1 \in 1 .. Len(Ranges) /\ Ranges[RangesPassed + 1] = r
         /\ RowsPassed = Len(GroupChunks) + RangesPassed
         /\ RowsPassed + 1 \in 1 .. Len(RowChunks) /\ RowChunks[RowsPassed + 1] = r[1]
         /\ r \in Long
         /\ \A c \in r[1] .. r[2] - 1 : Fits(at, c) /\ c \in Chunk /\ order_type[c] = "OrderEquel"
  <1>1. stage = "kernel" /\ at <= Len(loops) /\ loops[at].kind = "range" /\ iter < loops[at].count
    BY DEF Running, loop
  <1>2. G!IInv /\ OrdersKnown /\ FeaturesKnown
    BY <1>1, CompiledFacts DEF Compiled
  <1>3. /\ Len(loops) = Len(group_order) + Len(range_order)
        /\ at \in 1 .. Len(loops) + 1 /\ iter \in Nat
        /\ Len(group_order) \in Nat /\ Len(range_order) \in Nat
    BY <1>1, <1>2 DEF StepInv, LoopsMade, LoopsInStep, OrdersKnown
  <1> DEFINE n == at - Len(group_order)
             r == RangeLists[n][iter + 1]
  <1>4. n \in 1 .. Len(range_order) /\ Len(group_order) + n = at /\ ~(at <= Len(group_order))
    <2>1. at > Len(group_order)
      <3> SUFFICES ASSUME at \in 1 .. Len(group_order) PROVE FALSE
        BY <1>3
      <3>1. loops[at].kind = "group"
        BY <1>1 DEF StepInv, LoopsMade
      <3> QED
        BY <1>1, <3>1
    <2> QED
      BY <1>1, <1>3, <2>1
  <1>5. RangesPassed = Before(RangeLists, n - 1) + iter
    <2>1. n - 1 = at - 1 - Len(group_order)
      BY <1>3
    <2>2. RangesPassed = Before(RangeLists, at - 1 - Len(group_order)) + iter
      BY <1>4 DEF RangesPassed
    <2> QED
      BY <2>1, <2>2
  <1>6. RowsPassed = Len(GroupChunks) + RangesPassed
    BY <1>4 DEF RowsPassed
  <1> HIDE DEF n
  <1>7. /\ loops[at].count = Len(RangeLists[n])
        /\ \A p \in 1 .. Len(RangeLists[n]) :
             \A c \in RangeLists[n][p][1] .. RangeLists[n][p][2] - 1 : Fits(at, c)
    BY <1>1, <1>4 DEF StepInv, LoopsMade
  <1>8. /\ RangeLists \in Seq(Seq(Long)) /\ Len(RangeLists) = Len(range_order)
        /\ Ranges = FlattenSeq(RangeLists) /\ Ranges \in Seq(Long)
        /\ \A p \in 1 .. Len(RangeLists[n]) :
             \A c \in RangeLists[n][p][1] .. RangeLists[n][p][2] - 1 :
               c \in Chunk /\ order_type[c] = "OrderEquel"
    BY <1>2, <1>4, RangesFacts
  <1>9. RangeLists[n] \in Seq(Long) /\ n \in 1 .. Len(RangeLists)
    BY <1>4, <1>8
  <1>10. iter + 1 \in 1 .. Len(RangeLists[n])
    BY <1>1, <1>3, <1>7, <1>9
  <1>11. r \in Long
    BY <1>9, <1>10
  <1>12. /\ Ranges[Before(RangeLists, n - 1) + (iter + 1)] = r
         /\ Before(RangeLists, n - 1) + Len(RangeLists[n]) <= Len(Ranges)
         /\ Before(RangeLists, n - 1) \in Nat
    <2>1. n - 1 \in 0 .. Len(RangeLists) /\ n \in 0 .. Len(RangeLists)
      BY <1>8, <1>9
    <2>2. /\ Before(RangeLists, n - 1) \in 0 .. Len(FlattenSeq(RangeLists))
          /\ Before(RangeLists, n) \in 0 .. Len(FlattenSeq(RangeLists))
          /\ Before(RangeLists, n) = Before(RangeLists, n - 1) + Len(RangeLists[n])
          /\ FlattenSeq(RangeLists)[Before(RangeLists, n - 1) + (iter + 1)] = RangeLists[n][iter + 1]
      BY <1>8, <1>9, <1>10, <2>1, FlattenFacts
    <2>3. Len(FlattenSeq(RangeLists)) \in Nat
      BY <1>8
    <2> QED
      BY <1>8, <2>2, <2>3
  <1> HIDE DEF r
  <1>13. RangesPassed + 1 = Before(RangeLists, n - 1) + (iter + 1) /\ RangesPassed \in Nat
    BY <1>3, <1>5, <1>12
  <1>14. RangesPassed + 1 \in 1 .. Len(Ranges) /\ Len(Ranges) \in Nat
    BY <1>8, <1>9, <1>10, <1>12, <1>13
  <1>15. Ranges[RangesPassed + 1] = r
    BY <1>12, <1>13
  <1>16. /\ Len(GroupChunks) \in Nat
         /\ Len(RowChunks) = Len(GroupChunks) + Len(Ranges)
         /\ RowChunks[Len(GroupChunks) + (RangesPassed + 1)] = r[1]
    BY <1>2, <1>14, <1>15, ChunksFacts, GroupsFacts
  <1>17. RowsPassed + 1 = Len(GroupChunks) + (RangesPassed + 1)
    BY <1>6, <1>13, <1>16
  <1>18. RowsPassed + 1 \in 1 .. Len(RowChunks) /\ RowChunks[RowsPassed + 1] = r[1]
    BY <1>14, <1>16, <1>17
  <1>19. \A c \in r[1] .. r[2] - 1 : Fits(at, c) /\ c \in Chunk /\ order_type[c] = "OrderEquel"
    BY <1>7, <1>8, <1>10 DEF r
  <1> QED
    BY <1>6, <1>9, <1>10, <1>11, <1>13, <1>14, <1>15, <1>18, <1>19 DEF r, n

\* An iteration of the inner loop, which runs through the chunks of a range.
LEMMA InnerPosition ==
  ASSUME StepInv, Running("range"), inner > 0
  PROVE  LET r == RangeLists[at - Len(group_order)][iter + 1]
             c == r[2] - inner
         IN
         /\ iter < loop.count
         /\ RangesBegun = RangesPassed + 1
         /\ ChunksPassed \in Nat
         /\ ChunksPassed + 1 \in 1 .. Len(AllChunks) /\ AllChunks[ChunksPassed + 1] = c
         /\ ChunksPassed = Len(GroupChunks) + Before(RangeChunks, RangesPassed + 1) - inner
         /\ Len(GroupChunks) \in Nat /\ Before(RangeChunks, RangesPassed + 1) \in Nat
         /\ c \in r[1] .. r[2] - 1
  <1> DEFINE n == at - Len(group_order)
             r == RangeLists[n][iter + 1]
             m == RangesPassed + 1
             seqs == RangeChunks
  <1>1. stage = "kernel"
    BY DEF Running
  <1>2. G!IInv /\ OrdersKnown /\ FeaturesKnown
    BY <1>1, CompiledFacts DEF Compiled
  <1>3. inner \in Nat /\ iter < loop.count /\ inner <= r[2] - r[1]
    BY <1>1 DEF StepInv, LoopsInStep
  <1>4. /\ n \in 1 .. Len(RangeLists)
        /\ m \in 1 .. Len(Ranges) /\ Ranges[m] = r /\ RangesPassed \in Nat
    BY <1>3, RangePosition
  <1>5. Ranges \in Seq(Long)
    BY <1>2, RangesFacts
  <1>6. /\ seqs \in Seq(Seq(Chunk)) /\ Len(seqs) = Len(Ranges)
        /\ r[1] \in Chunk /\ r[2] \in Int /\ r[1] + 1 < r[2]
        /\ Len(seqs[m]) = r[2] - r[1]
        /\ \A p \in 1 .. r[2] - r[1] : seqs[m][p] = r[1] + p - 1
    BY <1>4, <1>5, RangeChunksFacts
  <1>7. RangesBegun = m
    BY <1>3 DEF RangesBegun
  <1>8. ~(at <= Len(group_order))
    <2>1. /\ Len(loops) = Len(group_order) + Len(range_order) /\ at \in 1 .. Len(loops) + 1
          /\ Len(group_order) \in Nat /\ Len(range_order) \in Nat
      BY <1>1, <1>2 DEF StepInv, LoopsMade, LoopsInStep, OrdersKnown
    <2>2. at \in Int /\ n >= 1
      BY <1>4, <2>1
    <2> QED
      BY <2>1, <2>2
  <1>9. ChunksPassed = Len(GroupChunks) + Before(seqs, m) - inner
    BY <1>7, <1>8 DEF ChunksPassed
  <1>10. r[1] \in Int
    BY <1>6, GroupingHolds DEF Chunk
  <1> HIDE DEF n, r, m, seqs
  <1> DEFINE p == (r[2] - r[1]) - inner + 1
             c == r[2] - inner
  <1>11. p \in 1 .. Len(seqs[m]) /\ c \in r[1] .. r[2] - 1 /\ r[1] + p - 1 = c
    <2>1. inner \in Nat /\ inner > 0 /\ inner <= r[2] - r[1] /\ r[1] \in Int /\ r[2] \in Int
      BY <1>3, <1>6, <1>10
    <2>2. p \in 1 .. r[2] - r[1]
      BY <2>1
    <2>3. c \in r[1] .. r[2] - 1 /\ r[1] + p - 1 = c
      BY <2>1
    <2> QED
      BY <1>6, <2>2, <2>3
  <1>12. m \in 1 .. Len(seqs) /\ m \in 0 .. Len(seqs) /\ m - 1 \in 0 .. Len(seqs)
    BY <1>4, <1>6
  <1>13. /\ FlattenSeq(seqs) \in Seq(Chunk)
         /\ Before(seqs, m - 1) \in 0 .. Len(FlattenSeq(seqs))
         /\ Before(seqs, m) \in 0 .. Len(FlattenSeq(seqs))
         /\ Before(seqs, m) = Before(seqs, m - 1) + Len(seqs[m])
         /\ FlattenSeq(seqs)[Before(seqs, m - 1) + p] = seqs[m][p]
    <2> HIDE DEF p
    <2> QED
      BY <1>6, <1>11, <1>12, FlattenFacts
  <1>14. seqs[m][p] = c
    BY <1>6, <1>11
  <1> DEFINE q == Before(seqs, m - 1) + p
  <1>15. /\ Len(FlattenSeq(seqs)) \in Nat /\ q \in 1 .. Len(FlattenSeq(seqs))
         /\ Before(seqs, m - 1) \in Nat /\ Len(seqs[m]) \in Nat /\ p \in Nat
    <2>1. Len(FlattenSeq(seqs)) \in Nat /\ Len(seqs[m]) \in Nat
      BY <1>6, <1>12, <1>13
    <2> HIDE DEF p
    <2>2. Before(seqs, m - 1) \in Nat /\ p \in Nat /\ p >= 1 /\ p <= Len(seqs[m])
      BY <1>11, <1>13, <2>1
    <2> QED
      BY <1>13, <2>1, <2>2
  <1>16. Len(GroupChunks) \in Nat
    BY <1>2, GroupsFacts
  <1>17. ChunksPassed + 1 = Len(GroupChunks) + q /\ ChunksPassed \in Nat
    <2>1. inner \in Nat /\ r[1] \in Int /\ r[2] \in Int
      BY <1>3, <1>6, <1>10
    <2>2. Before(seqs, m) = Before(seqs, m - 1) + (r[2] - r[1])
      BY <1>6, <1>13
    <2>3. Before(seqs, m) - inner + 1 = q
      BY <1>15, <2>1, <2>2
    <2>4. Before(seqs, m) \in Nat
      BY <1>13, <1>15
    <2> HIDE DEF q, p
    <2>5. q \in Nat /\ q >= 1
      BY <1>15
    <2>6. ChunksPassed = Len(GroupChunks) + (q - 1)
      BY <1>9, <1>16, <2>1, <2>3, <2>4, <2>5
    <2> QED
      BY <1>16, <2>5, <2>6
  <1>18. FlattenSeq(seqs)[q] = c
    BY <1>13, <1>14
  <1> HIDE DEF q, c, p
  <1>19. /\ Len(AllChunks) = Len(GroupChunks) + Len(FlattenSeq(seqs))
         /\ AllChunks[Len(GroupChunks) + q] = c
    BY <1>2, <1>15, <1>18, ChunksFacts DEF seqs
  <1>20. ChunksPassed + 1 \in 1 .. Len(AllChunks) /\ AllChunks[ChunksPassed + 1] = c
    BY <1>15, <1>16, <1>17, <1>19
  <1>21. Before(seqs, m) \in Nat
    BY <1>13, <1>15
  <1> QED
    BY <1>3, <1>7, <1>9, <1>11, <1>16, <1>17, <1>20, <1>21 DEF m, seqs, r, n, c

-----------------------------------------------------------------------------
(***************************************************************************)
(* Steps that leave the chunks and their words alone                       *)
(***************************************************************************)
LEMMA WordsUnchanged ==
  ASSUME UNCHANGED <<arrays, grouping, streams>>
  PROVE  /\ Groups' = Groups /\ RangeLists' = RangeLists /\ Ranges' = Ranges
         /\ RangeChunks' = RangeChunks /\ GroupChunks' = GroupChunks
         /\ AllChunks' = AllChunks /\ RowChunks' = RowChunks
         /\ DataWords' = DataWords /\ ColumnWords' = ColumnWords
         /\ RowWords' = RowWords /\ RoundWords' = RoundWords
  <1>1. /\ Groups' = Groups /\ RangeLists' = RangeLists /\ Ranges' = Ranges
        /\ GroupChunks' = GroupChunks
    BY DEF arrays, grouping, streams, Groups, RangeLists, Ranges, RangesOf, GroupChunks,
           ChunksOfGroups
  <1>2. RangeChunks' = RangeChunks
    BY <1>1 DEF RangeChunks
  <1>3. AllChunks' = AllChunks /\ RowChunks' = RowChunks
    BY <1>1 DEF AllChunks, RowChunks
  <1>4. DataWords' = DataWords
    BY <1>3 DEF DataWords
  <1>5. ColumnWords' = ColumnWords
    BY <1>3 DEF ColumnWords, ColumnSlots, arrays
  <1>6. RowWords' = RowWords
    BY <1>3 DEF RowWords, RowSlots, arrays
  <1>7. RoundWords' = RoundWords
    BY <1>3 DEF RoundWords, RoundSlots, arrays
  <1> QED
    BY <1>1, <1>2, <1>3, <1>4, <1>5, <1>6, <1>7

\* Features stay what they are.
LEMMA FeaturesUnchanged ==
  ASSUME FeaturesKnown, UNCHANGED <<arrays, hash_info, order_type>>
  PROVE  FeaturesKnown'
  BY DEF FeaturesKnown, arrays

\* A step of the running program leaves its plan alone.
LEMMA PlanUnchanged ==
  ASSUME StepInv, UNCHANGED <<arrays, grouping, streams, program>>,
         stage \in {"kernel", "tail", "done"}, stage' \in {"kernel", "tail", "done"}
  PROVE  /\ G!IInv' /\ FeaturesKnown' /\ StreamsLaid' /\ LoopsMade' /\ NotStarted'
         /\ Groups' = Groups /\ RangeLists' = RangeLists /\ Ranges' = Ranges
         /\ RangeChunks' = RangeChunks /\ GroupChunks' = GroupChunks
         /\ DataWords' = DataWords /\ ColumnWords' = ColumnWords
         /\ RowWords' = RowWords /\ RoundWords' = RoundWords
         /\ group_order' = group_order /\ range_order' = range_order
         /\ loops' = loops /\ range_num' = range_num
  <1>1. G!IInv /\ FeaturesKnown /\ StreamsLaid /\ LoopsMade
    BY DEF StepInv
  <1>2. UNCHANGED <<arrays, grouping, streams>> /\ UNCHANGED grouping
    OBVIOUS
  <1>3. G!IInv' /\ UNCHANGED <<hash_info, order_type>>
    BY <1>1, <1>2, GroupingStep
  <1>4. FeaturesKnown'
    BY <1>1, <1>3, FeaturesUnchanged
  <1>5. /\ Groups' = Groups /\ RangeLists' = RangeLists /\ Ranges' = Ranges
        /\ RangeChunks' = RangeChunks /\ GroupChunks' = GroupChunks
        /\ DataWords' = DataWords /\ ColumnWords' = ColumnWords
        /\ RowWords' = RowWords /\ RoundWords' = RoundWords
    BY <1>2, WordsUnchanged
  <1>6. /\ group_order' = group_order /\ range_order' = range_order
        /\ loops' = loops /\ range_num' = range_num /\ pc' = pc
        /\ same_write_pattern_map' = same_write_pattern_map /\ hash_info' = hash_info
        /\ data_new' = data_new /\ gather_new' = gather_new
        /\ scatter_new' = scatter_new /\ reduction_new' = reduction_new
        /\ gather_info' = gather_info /\ scatter_info' = scatter_info
        /\ reduction_info' = reduction_info
    BY DEF arrays, grouping, streams, program
  <1>7. StreamsLaid'
    BY <1>1, <1>5, <1>6 DEF StreamsLaid, Compiled, G!Present, G!Chunk
  <1>8. LoopsMade'
    BY <1>1, <1>5, <1>6 DEF LoopsMade, Fits
  <1>9. NotStarted'
    BY DEF NotStarted
  <1> QED
    BY <1>3, <1>4, <1>5, <1>6, <1>7, <1>8, <1>9

-----------------------------------------------------------------------------
(***************************************************************************)
(* The steps of the kernel                                                 *)
(***************************************************************************)
\* The order of a row is one of three, and the code for each of them keeps the
\* locations of the output.
LEMMA RowOrder ==
  ASSUME FeaturesKnown, NEW c \in Chunk
  PROVE  RowCode(scatter_info[c], reduction_info[c]).order
           \in {"OrderEquel", "IncContinue", "DisOrder"}
  <1>1. PICK r \in RowShapes : scatter_info[c] = ScatterInfo(r)
    BY DEF FeaturesKnown
  <1>2. ScatterInfo(r).order = OrderOf(r)
    BY DEF ScatterInfo, OrderedInfo
  <1>3. RowCode(scatter_info[c], reduction_info[c]).order = OrderOf(r)
    BY <1>1, <1>2 DEF RowCode
  <1> QED
    BY <1>3 DEF OrderOf

\* Adding to the output adds no location and takes none away.
LEMMA AccumulatedDomain ==
  ASSUME NEW z, NEW code, NEW rows, NEW perms, NEW lanes,
         code.order \in {"OrderEquel", "IncContinue", "DisOrder"}
  PROVE  DOMAIN Accumulated(z, code, rows, perms, lanes) = DOMAIN z
  BY DEF Accumulated, ScatterAdd

\* Outside the inner loop nothing is left of a range.
LEMMA NoInner ==
  ASSUME StepInv, stage \in {"kernel", "tail", "done"}, ~Running("range") \/ ~(iter < loop.count)
  PROVE  inner = 0
  BY DEF StepInv, LoopsInStep

\* Where the cursors are.
LEMMA CursorFacts ==
  ASSUME StepInv, stage \in {"kernel", "tail", "done"}
  PROVE  /\ cursor = [data |-> Before(DataWords, ChunksPassed),
                      gather |-> Before(ColumnWords, ChunksPassed),
                      scatter |-> Before(RowWords, RowsPassed),
                      reduction |-> Before(RoundWords, ChunksPassed),
                      range |-> RangesBegun]
         /\ G!IInv /\ OrdersKnown /\ FeaturesKnown
         /\ Len(loops) = Len(group_order) + Len(range_order)
         /\ Len(group_order) \in Nat /\ Len(range_order) \in Nat
         /\ Len(Groups) = Len(group_order) /\ Len(RangeLists) = Len(range_order)
         /\ at \in 1 .. Len(loops) + 1 /\ iter \in Nat /\ inner \in Nat
  <1>1. G!IInv /\ OrdersKnown /\ FeaturesKnown
    BY CompiledFacts DEF Compiled
  <1>2. Len(group_order) \in Nat /\ Len(range_order) \in Nat
    BY <1>1 DEF OrdersKnown
  <1>3. Len(Groups) = Len(group_order) /\ Len(RangeLists) = Len(range_order)
    BY <1>1, GroupsFacts, RangesFacts
  <1> QED
    BY <1>1, <1>2, <1>3 DEF StepInv, LoopsInStep, LoopsMade

\* One iteration of a group takes the words of one chunk from every stream.
LEMMA GroupIterationStep ==
  ASSUME StepInv, GroupIteration
  PROVE  StepInv'
  <1> DEFINE c == Groups[at][iter + 1]
  <1>1. /\ Running("group") /\ stage = "kernel" /\ iter < loop.count /\ at <= Len(loops)
        /\ stage' = "kernel" /\ at' = at /\ inner' = inner /\ iter' = iter + 1
        /\ element' = element
        /\ UNCHANGED <<arrays, grouping, streams, program>>
    BY DEF GroupIteration, Running
  <1>2. /\ at \in 1 .. Len(Groups)
        /\ Fits(at, c)
        /\ ChunksPassed \in Nat
        /\ ChunksPassed + 1 \in 1 .. Len(AllChunks) /\ AllChunks[ChunksPassed + 1] = c
        /\ RowsPassed = ChunksPassed
        /\ ChunksPassed + 1 \in 1 .. Len(RowChunks) /\ RowChunks[ChunksPassed + 1] = c
    BY <1>1, GroupPosition
  <1>3. inner = 0
    BY <1>1, NoInner DEF Running
  <1>4. /\ cursor = [data |-> Before(DataWords, ChunksPassed),
                      gather |-> Before(ColumnWords, ChunksPassed),
                      scatter |-> Before(RowWords, RowsPassed),
                      reduction |-> Before(RoundWords, ChunksPassed),
                      range |-> RangesBegun]
        /\ G!IInv /\ OrdersKnown /\ FeaturesKnown
        /\ Len(Groups) = Len(group_order)
        /\ Len(loops) = Len(group_order) + Len(range_order)
        /\ at \in 1 .. Len(loops) + 1 /\ iter \in Nat
    BY <1>1, CursorFacts
  <1>5. /\ G!IInv' /\ FeaturesKnown' /\ StreamsLaid' /\ LoopsMade' /\ NotStarted'
        /\ Groups' = Groups /\ RangeLists' = RangeLists /\ Ranges' = Ranges
        /\ RangeChunks' = RangeChunks /\ GroupChunks' = GroupChunks
        /\ DataWords' = DataWords /\ ColumnWords' = ColumnWords
        /\ RowWords' = RowWords /\ RoundWords' = RoundWords
        /\ group_order' = group_order /\ range_order' = range_order
        /\ loops' = loops /\ range_num' = range_num
    BY <1>1, PlanUnchanged
  <1> HIDE DEF c
  <1>6. (ChunksPassed + 1) - 1 = ChunksPassed
    BY <1>2
  <1>7. /\ Before(DataWords, ChunksPassed + 1) = Before(DataWords, ChunksPassed) + Vector
        /\ Before(ColumnWords, ChunksPassed + 1)
             = Before(ColumnWords, ChunksPassed) + GatherWidth(loop.column)
        /\ Before(RoundWords, ChunksPassed + 1)
             = Before(RoundWords, ChunksPassed) + ReductionWidth(loop.row)
    BY <1>2, <1>4, <1>6, WordsAt DEF Fits, loop
  <1>8. Before(RowWords, ChunksPassed + 1) = Before(RowWords, ChunksPassed) + GatherWidth(loop.row)
    BY <1>2, <1>4, <1>6, RowWordsAt DEF Fits, loop
  <1>9. /\ ChunksPassed' = ChunksPassed + 1 /\ RowsPassed' = ChunksPassed + 1
        /\ RangesBegun' = RangesBegun
    <2>1. at <= Len(group_order) /\ ~(inner > 0)
      BY <1>2, <1>3, <1>4
    <2>2. ChunksPassed = Before(Groups, at - 1) + iter
      BY <2>1 DEF ChunksPassed
    <2>3. ChunksPassed' = Before(Groups, at - 1) + (iter + 1) /\ RowsPassed' = ChunksPassed'
      BY <1>1, <1>5, <2>1 DEF ChunksPassed, RowsPassed
    <2>4. Before(Groups, at - 1) \in Nat
      <3>1. Groups \in Seq(Seq(Chunk)) /\ GroupChunks = FlattenSeq(Groups)
            /\ GroupChunks \in Seq(Chunk) /\ at - 1 \in 0 .. Len(Groups)
        BY <1>2, <1>4, GroupsFacts
      <3> QED
        BY <3>1, FlattenFacts
    <2>5. RangesBegun = 0 /\ RangesBegun' = 0
      BY <1>1, <1>5, <2>1 DEF RangesBegun, RangesPassed
    <2> QED
      BY <1>4, <2>2, <2>3, <2>4, <2>5
  <1>10. cursor' = [data |-> Before(DataWords, ChunksPassed + 1),
                    gather |-> Before(ColumnWords, ChunksPassed + 1),
                    scatter |-> Before(RowWords, ChunksPassed + 1),
                    reduction |-> Before(RoundWords, ChunksPassed + 1),
                    range |-> RangesBegun]
    BY <1>2, <1>4, <1>7, <1>8 DEF GroupIteration
  <1>11. loop' = loop
    BY <1>1, <1>5 DEF loop
  <1>12. LoopsInStep'
    <2>1. iter + 1 <= loop.count
      <3>1. loop.count \in Nat
        <4>1. loops[at].count = Len(Groups[at])
          BY <1>1, <1>2, <1>4 DEF StepInv, LoopsMade
        <4>2. Groups \in Seq(Seq(Chunk))
          BY <1>4, GroupsFacts
        <4>3. Len(Groups[at]) \in Nat
          <5>1. Groups[at] \in Seq(Chunk)
            BY <1>2, <4>2
          <5> QED
            BY <5>1
        <4> QED
          BY <4>1, <4>3 DEF loop
      <3> QED
        BY <1>1, <1>4, <3>1
    <2> QED
      BY <1>1, <1>3, <1>4, <1>5, <1>9, <1>10, <1>11, <2>1 DEF LoopsInStep
  <1>13. OutputKept'
    <2>1. c \in Chunk
      BY <1>2, <1>4, ChunksFacts
    <2>2. loop.row = RowCode(scatter_info[c], reduction_info[c])
      BY <1>2 DEF Fits, loop
    <2>3. DOMAIN y' = DOMAIN y
      <3> DEFINE rows == Fetch(scatter_new, cursor.scatter, GatherWidth(loop.row))
                 perms == Fetch(reduction_new, cursor.reduction, ReductionWidth(loop.row))
      <3>1. y' = Accumulated(y, loop.row, rows, perms, Product)
        BY DEF GroupIteration
      <3> HIDE DEF rows, perms
      <3> QED
        <4>1. loop.row.order \in {"OrderEquel", "IncContinue", "DisOrder"}
          BY <1>4, <2>1, <2>2, RowOrder
        <4>2. DOMAIN Accumulated(y, loop.row, rows, perms, Product) = DOMAIN y
          BY <4>1, AccumulatedDomain
        <4> QED
          BY <3>1, <4>2
    <2> QED
      BY <1>1, <2>3 DEF OutputKept, StepInv, Output, Element
  <1> QED
    BY <1>5, <1>12, <1>13 DEF StepInv

\* At the start of a range its length is read, and nothing else.
LEMMA BeginRangeStep ==
  ASSUME StepInv, BeginRange
  PROVE  StepInv'
  <1> DEFINE n == at - Len(group_order)
             r == RangeLists[n][iter + 1]
             m == RangesPassed + 1
  <1>1. /\ Running("range") /\ stage = "kernel" /\ iter < loop.count /\ at <= Len(loops)
        /\ inner = 0 /\ stage' = "kernel" /\ at' = at /\ iter' = iter
        /\ inner' = range_num[cursor.range + 1] /\ cursor' = [cursor EXCEPT !.range = @ + 1]
        /\ element' = element /\ y' = y
        /\ UNCHANGED <<arrays, grouping, streams, program>>
    BY DEF BeginRange, Running
  <1>2. /\ n \in 1 .. Len(RangeLists)
        /\ RangesPassed \in Nat
        /\ m \in 1 .. Len(Ranges) /\ Ranges[m] = r
    BY <1>1, RangePosition
  <1>3. /\ cursor = [data |-> Before(DataWords, ChunksPassed),
                      gather |-> Before(ColumnWords, ChunksPassed),
                      scatter |-> Before(RowWords, RowsPassed),
                      reduction |-> Before(RoundWords, ChunksPassed),
                      range |-> RangesBegun]
        /\ G!IInv /\ OrdersKnown /\ FeaturesKnown
        /\ Len(group_order) \in Nat
        /\ at \in 1 .. Len(loops) + 1 /\ iter \in Nat /\ Len(loops) \in Nat
    BY <1>1, CursorFacts
  <1>4. /\ G!IInv' /\ FeaturesKnown' /\ StreamsLaid' /\ LoopsMade' /\ NotStarted'
        /\ Groups' = Groups /\ RangeLists' = RangeLists /\ Ranges' = Ranges
        /\ RangeChunks' = RangeChunks /\ GroupChunks' = GroupChunks
        /\ DataWords' = DataWords /\ ColumnWords' = ColumnWords
        /\ RowWords' = RowWords /\ RoundWords' = RoundWords
        /\ group_order' = group_order /\ range_order' = range_order
        /\ loops' = loops /\ range_num' = range_num
    BY <1>1, PlanUnchanged
  <1>5. /\ RangeChunks \in Seq(Seq(Chunk)) /\ Len(RangeChunks) = Len(Ranges)
        /\ r[1] \in Int /\ r[2] \in Int /\ r[1] + 1 < r[2]
        /\ Len(RangeChunks[m]) = r[2] - r[1]
        /\ Len(Ranges) \in Nat
    <2>1. Ranges \in Seq(Long)
      BY <1>3, RangesFacts
    <2>2. /\ RangeChunks \in Seq(Seq(Chunk)) /\ Len(RangeChunks) = Len(Ranges)
          /\ r[1] \in Chunk /\ r[2] \in Int /\ r[1] + 1 < r[2]
          /\ Len(RangeChunks[m]) = r[2] - r[1]
      BY <1>2, <2>1, RangeChunksFacts
    <2> QED
      BY <2>1, <2>2, GroupingHolds DEF Chunk
  <1>6. ~(at <= Len(group_order))
    BY <1>2, <1>3
  <1> HIDE DEF n, r
  <1>7. RangesBegun = RangesPassed /\ cursor.range + 1 = m
    BY <1>1, <1>2, <1>3 DEF RangesBegun
  <1>8. inner' = r[2] - r[1]
    <2>1. range_num = [k \in 1 .. Len(Ranges) |-> Ranges[k][2] - Ranges[k][1]]
      BY <1>1 DEF StepInv, LoopsMade
    <2> HIDE DEF m
    <2> QED
      BY <1>1, <1>2, <1>7, <2>1
  <1>9. inner' \in Nat /\ inner' > 0
    BY <1>5, <1>8
  <1>10. RangesPassed' = RangesPassed
    BY <1>1, <1>4, <1>6 DEF RangesPassed
  <1>11. RangesBegun' = m
    BY <1>9, <1>10 DEF RangesBegun
  <1>12. Before(RangeChunks, m) = Before(RangeChunks, RangesPassed) + (r[2] - r[1])
         /\ Before(RangeChunks, RangesPassed) \in Nat
    <2>1. m - 1 = RangesPassed /\ m \in 1 .. Len(RangeChunks)
          /\ RangesPassed \in 0 .. Len(RangeChunks)
      BY <1>2, <1>5
    <2> HIDE DEF m
    <2>2. Before(RangeChunks, m) = Before(RangeChunks, m - 1) + Len(RangeChunks[m])
      BY <1>5, <2>1, FlattenFacts
    <2>3. FlattenSeq(RangeChunks) \in Seq(Chunk)
          /\ Before(RangeChunks, RangesPassed) \in 0 .. Len(FlattenSeq(RangeChunks))
      BY <1>5, <2>1, FlattenFacts
    <2> QED
      BY <1>5, <2>1, <2>2, <2>3
  <1>13. ChunksPassed' = ChunksPassed
    <2>1. ChunksPassed = Len(GroupChunks) + Before(RangeChunks, RangesPassed) - 0
      BY <1>1, <1>6, <1>7 DEF ChunksPassed
    <2>2. ChunksPassed' = Len(GroupChunks) + Before(RangeChunks, m) - (r[2] - r[1])
      BY <1>1, <1>4, <1>6, <1>8, <1>11 DEF ChunksPassed
    <2>3. Len(GroupChunks) \in Nat
      BY <1>3, GroupsFacts
    <2> QED
      BY <1>5, <1>12, <2>1, <2>2, <2>3
  <1>14. RowsPassed' = RowsPassed
    BY <1>1, <1>4, <1>6, <1>10 DEF RowsPassed
  <1>15. cursor' = [data |-> Before(DataWords, ChunksPassed),
                    gather |-> Before(ColumnWords, ChunksPassed),
                    scatter |-> Before(RowWords, RowsPassed),
                    reduction |-> Before(RoundWords, ChunksPassed),
                    range |-> m]
    BY <1>1, <1>3, <1>7
  <1>16. loop' = loop /\ Running("range")'
    BY <1>1, <1>4 DEF loop, Running
  <1>17. inner' <= r[2] - r[1]
    BY <1>5, <1>8
  <1> HIDE DEF m
  <1>18. LoopsInStep'
    <2>1. iter <= loop.count
      BY <1>1 DEF StepInv, LoopsInStep
    <2> QED
      BY <1>1, <1>3, <1>4, <1>9, <1>11, <1>13, <1>14, <1>15, <1>16, <1>17, <2>1
         DEF LoopsInStep, r, n
  <1>19. OutputKept'
    BY <1>1 DEF OutputKept, StepInv, Output, Element
  <1> QED
    BY <1>4, <1>18, <1>19 DEF StepInv

\* A range takes data and column words once per chunk, and its row words once, with
\* the last chunk; it has no permutations.
LEMMA RangeIterationStep ==
  ASSUME StepInv, RangeIteration
  PROVE  StepInv'
  <1> DEFINE n == at - Len(group_order)
             r == RangeLists[n][iter + 1]
             m == RangesPassed + 1
             c == r[2] - inner
  <1>1. /\ Running("range") /\ stage = "kernel" /\ at <= Len(loops)
        /\ inner > 0 /\ stage' = "kernel" /\ at' = at /\ inner' = inner - 1
        /\ element' = element
        /\ UNCHANGED <<arrays, grouping, streams, program>>
    BY DEF RangeIteration, Running
  <1>2. /\ iter < loop.count
        /\ RangesBegun = m
        /\ ChunksPassed \in Nat
        /\ ChunksPassed + 1 \in 1 .. Len(AllChunks) /\ AllChunks[ChunksPassed + 1] = c
        /\ ChunksPassed = Len(GroupChunks) + Before(RangeChunks, m) - inner
        /\ Len(GroupChunks) \in Nat /\ Before(RangeChunks, m) \in Nat
        /\ c \in r[1] .. r[2] - 1
    BY <1>1, InnerPosition
  <1>3. /\ n \in 1 .. Len(RangeLists)
        /\ RangesPassed \in Nat
        /\ RowsPassed = Len(GroupChunks) + RangesPassed
        /\ RowsPassed + 1 \in 1 .. Len(RowChunks) /\ RowChunks[RowsPassed + 1] = r[1]
        /\ r \in Long
        /\ \A d \in r[1] .. r[2] - 1 : Fits(at, d) /\ d \in Chunk /\ order_type[d] = "OrderEquel"
    BY <1>1, <1>2, RangePosition
  <1>4. /\ cursor = [data |-> Before(DataWords, ChunksPassed),
                      gather |-> Before(ColumnWords, ChunksPassed),
                      scatter |-> Before(RowWords, RowsPassed),
                      reduction |-> Before(RoundWords, ChunksPassed),
                      range |-> RangesBegun]
        /\ G!IInv /\ OrdersKnown /\ FeaturesKnown
        /\ Len(group_order) \in Nat /\ Len(range_order) \in Nat
        /\ Len(RangeLists) = Len(range_order)
        /\ at \in 1 .. Len(loops) + 1 /\ iter \in Nat /\ inner \in Nat
    BY <1>1, CursorFacts
  <1>5. /\ G!IInv' /\ FeaturesKnown' /\ StreamsLaid' /\ LoopsMade' /\ NotStarted'
        /\ Groups' = Groups /\ RangeLists' = RangeLists /\ Ranges' = Ranges
        /\ RangeChunks' = RangeChunks /\ GroupChunks' = GroupChunks
        /\ DataWords' = DataWords /\ ColumnWords' = ColumnWords
        /\ RowWords' = RowWords /\ RoundWords' = RoundWords
        /\ group_order' = group_order /\ range_order' = range_order
        /\ loops' = loops /\ range_num' = range_num
    BY <1>1, PlanUnchanged
  <1>6. ~(at <= Len(group_order))
    BY <1>3, <1>4
  <1>7. r[1] \in Int /\ r[2] \in Int /\ r[1] + 1 < r[2] /\ r[1] \in r[1] .. r[2] - 1
    <2>1. r[1] \in Chunk /\ r[2] \in 1 .. NumChunks /\ r[1] + 1 < r[2]
      BY <1>3 DEF Long
    <2> QED
      BY <2>1, GroupingHolds DEF Chunk
  <1>8. inner <= r[2] - r[1]
    BY <1>1 DEF StepInv, LoopsInStep
  <1> HIDE DEF n, r, c
  <1>9. (ChunksPassed + 1) - 1 = ChunksPassed
    BY <1>2
  <1>10. /\ Before(DataWords, ChunksPassed + 1) = Before(DataWords, ChunksPassed) + Vector
         /\ Before(ColumnWords, ChunksPassed + 1)
              = Before(ColumnWords, ChunksPassed) + GatherWidth(loop.column)
         /\ Before(RoundWords, ChunksPassed + 1) = Before(RoundWords, ChunksPassed)
    <2>1. Fits(at, c) /\ order_type[c] = "OrderEquel"
      BY <1>2, <1>3
    <2>2. /\ Before(DataWords, ChunksPassed + 1) = Before(DataWords, ChunksPassed) + Vector
          /\ Before(ColumnWords, ChunksPassed + 1)
               = Before(ColumnWords, ChunksPassed) + GatherWidth(ColumnCode(gather_info[c]))
          /\ order_type[c] = "OrderEquel" =>
               Before(RoundWords, ChunksPassed + 1) = Before(RoundWords, ChunksPassed)
      BY <1>2, <1>4, <1>9, WordsAt
    <2> QED
      BY <2>1, <2>2 DEF Fits, loop
  <1>11. Before(RowWords, RowsPassed + 1) = Before(RowWords, RowsPassed) + GatherWidth(loop.row)
    <2>1. (RowsPassed + 1) - 1 = RowsPassed
      BY <1>2, <1>3
    <2>2. Fits(at, r[1])
      BY <1>3, <1>7
    <2> QED
      BY <1>3, <1>4, <2>1, <2>2, RowWordsAt DEF Fits, loop
  <1>12. loop' = loop /\ Running("range")'
    BY <1>1, <1>5 DEF loop, Running
  <1>13. iter <= loop.count /\ iter + 1 <= loop.count
    <2>1. loop.count = Len(RangeLists[n])
      <3>1. Len(group_order) + n = at
        BY <1>4, <1>3, <1>6 DEF n
      <3>2. n \in 1 .. Len(range_order)
        BY <1>3, <1>4
      <3> QED
        BY <1>1, <3>1, <3>2 DEF StepInv, LoopsMade, loop
    <2>2. RangeLists \in Seq(Seq(Long))
      BY <1>4, RangesFacts
    <2>3. Len(RangeLists[n]) \in Nat
      <3>1. RangeLists[n] \in Seq(Long)
        BY <1>3, <2>2
      <3> QED
        BY <3>1
    <2>4. loop.count \in Nat
      BY <2>1, <2>3
    <2>5. iter \in Nat /\ iter < loop.count
      BY <1>2, <1>4
    <2> QED
      BY <2>4, <2>5
  <1>14. DOMAIN y' = DOMAIN y
    <2> DEFINE rows == Fetch(scatter_new, cursor.scatter, GatherWidth(loop.row))
               none == <<>>
    <2>1. y' = y \/ y' = Accumulated(y, loop.row, rows, none, acc')
      BY DEF RangeIteration
    <2> HIDE DEF rows, none
    <2>2. Fits(at, r[1]) /\ r[1] \in Chunk
      BY <1>3, <1>7
    <2>3. loop.row.order \in {"OrderEquel", "IncContinue", "DisOrder"}
      BY <1>4, <2>2, RowOrder DEF Fits, loop
    <2>4. DOMAIN Accumulated(y, loop.row, rows, none, acc') = DOMAIN y
      BY <2>3, AccumulatedDomain
    <2> QED
      BY <2>1, <2>4
  <1>15. OutputKept'
    BY <1>1, <1>14 DEF OutputKept, StepInv, Output, Element
  <1>16. CASE inner > 1
    <2>1. /\ iter' = iter
          /\ cursor' = [cursor EXCEPT !.data = @ + Vector,
                                      !.gather = @ + GatherWidth(loop.column)]
      BY <1>1, <1>16 DEF RangeIteration
    <2>2. inner' \in Nat /\ inner' > 0
      BY <1>1, <1>4, <1>16
    <2>3. RangesPassed' = RangesPassed
      BY <1>1, <1>5, <1>6, <2>1 DEF RangesPassed
    <2>4. RangesBegun' = RangesBegun
      BY <1>2, <2>2, <2>3 DEF RangesBegun
    <2>5. ChunksPassed' = ChunksPassed + 1
      <3>1. ChunksPassed' = Len(GroupChunks) + Before(RangeChunks, m) - (inner - 1)
        <4>1. /\ ~(at' <= Len(group_order')) /\ inner' = inner - 1 /\ RangesBegun' = m
              /\ GroupChunks' = GroupChunks /\ RangeChunks' = RangeChunks
          BY <1>1, <1>2, <1>5, <1>6, <2>4
        <4>2. Before(RangeChunks, RangesBegun)' = Before(RangeChunks, m)
          BY <4>1
        <4> QED
          BY <4>1, <4>2 DEF ChunksPassed
      <3> DEFINE g == Len(GroupChunks)
                 b == Before(RangeChunks, m)
      <3>2. /\ g \in Nat /\ b \in Nat /\ inner \in Nat
            /\ ChunksPassed = g + b - inner /\ ChunksPassed' = g + b - (inner - 1)
        BY <1>2, <1>4, <3>1
      <3> HIDE DEF g, b
      <3> QED
        BY <3>2
    <2>6. RowsPassed' = RowsPassed
      BY <1>1, <1>5, <1>6, <2>3 DEF RowsPassed
    <2>7. cursor' = [data |-> Before(DataWords, ChunksPassed + 1),
                     gather |-> Before(ColumnWords, ChunksPassed + 1),
                     scatter |-> Before(RowWords, RowsPassed),
                     reduction |-> Before(RoundWords, ChunksPassed + 1),
                     range |-> RangesBegun]
      BY <1>4, <1>10, <2>1
    <2>8. inner' <= r[2] - r[1]
      BY <1>1, <1>4, <1>7, <1>8
    <2>9. LoopsInStep'
      BY <1>1, <1>2, <1>4, <1>5, <1>12, <1>13, <2>1, <2>2, <2>4, <2>5, <2>6, <2>7, <2>8
         DEF LoopsInStep, r, n
    <2> QED
      BY <1>5, <1>15, <2>9 DEF StepInv
  <1>17. CASE ~(inner > 1)
    <2>1. /\ iter' = iter + 1
          /\ cursor' = [cursor EXCEPT !.data = @ + Vector,
                                      !.gather = @ + GatherWidth(loop.column),
                                      !.scatter = @ + GatherWidth(loop.row)]
      BY <1>1, <1>17 DEF RangeIteration
    <2>2. inner = 1 /\ inner' = 0
      BY <1>1, <1>4, <1>17
    <2>3. RangesPassed' = m
      <3> DEFINE b == Before(RangeLists, at - 1 - Len(group_order))
      <3>1. RangesPassed = b + iter /\ RangesPassed' = b + (iter + 1)
        BY <1>1, <1>5, <1>6, <2>1 DEF RangesPassed
      <3>2. b \in Nat
        <4>1. /\ RangeLists \in Seq(Seq(Long)) /\ Ranges = FlattenSeq(RangeLists)
              /\ Ranges \in Seq(Long)
          BY <1>4, RangesFacts
        <4>2. at - 1 - Len(group_order) \in 0 .. Len(RangeLists)
          BY <1>3, <1>4 DEF n
        <4> QED
          BY <4>1, <4>2, FlattenFacts
      <3> HIDE DEF b
      <3> QED
        BY <1>4, <3>1, <3>2
    <2>4. RangesBegun' = m
      <3>1. RangesBegun' = m + 0
        BY <2>2, <2>3 DEF RangesBegun
      <3> QED
        BY <1>3, <3>1
    <2>5. ChunksPassed' = ChunksPassed + 1
      <3>1. ChunksPassed' = Len(GroupChunks) + Before(RangeChunks, m) - (inner - 1)
        <4>1. /\ ~(at' <= Len(group_order')) /\ inner' = inner - 1 /\ RangesBegun' = m
              /\ GroupChunks' = GroupChunks /\ RangeChunks' = RangeChunks
          BY <1>1, <1>5, <1>6, <2>4
        <4>2. Before(RangeChunks, RangesBegun)' = Before(RangeChunks, m)
          BY <4>1
        <4> QED
          BY <4>1, <4>2 DEF ChunksPassed
      <3> DEFINE g == Len(GroupChunks)
                 b == Before(RangeChunks, m)
      <3>2. /\ g \in Nat /\ b \in Nat /\ inner \in Nat
            /\ ChunksPassed = g + b - inner /\ ChunksPassed' = g + b - (inner - 1)
        BY <1>2, <1>4, <3>1
      <3> HIDE DEF g, b
      <3> QED
        BY <3>2
    <2>6. RowsPassed' = RowsPassed + 1
      <3>1. RowsPassed' = Len(GroupChunks) + m
        BY <1>1, <1>5, <1>6, <2>3 DEF RowsPassed
      <3> QED
        BY <1>2, <1>3, <3>1
    <2>7. cursor' = [data |-> Before(DataWords, ChunksPassed + 1),
                     gather |-> Before(ColumnWords, ChunksPassed + 1),
                     scatter |-> Before(RowWords, RowsPassed + 1),
                     reduction |-> Before(RoundWords, ChunksPassed + 1),
                     range |-> RangesBegun]
      BY <1>4, <1>10, <1>11, <2>1
    <2> HIDE DEF m
    <2>8. RangesBegun' = RangesBegun /\ iter + 1 \in Nat /\ ~(inner' > 0) /\ inner' \in Nat
      BY <1>2, <1>4, <2>2, <2>4
    <2>9. LoopsInStep'
      BY <1>1, <1>4, <1>5, <1>12, <1>13, <2>1, <2>5, <2>6, <2>7, <2>8 DEF LoopsInStep
    <2> QED
      BY <1>5, <1>15, <2>9 DEF StepInv
  <1> QED
    BY <1>16, <1>17

\* Between two loops nothing is read, and what the first loop leaves is where
\* the second begins; the last group is followed by the first range.
LEMMA NextLoopStep ==
  ASSUME StepInv, NextLoop
  PROVE  StepInv'
  <1>1. /\ stage = "kernel" /\ at <= Len(loops) /\ iter = loop.count
        /\ stage' = "kernel" /\ at' = at + 1 /\ iter' = 0 /\ inner' = inner
        /\ element' = element /\ y' = y /\ cursor' = cursor
        /\ UNCHANGED <<arrays, grouping, streams, program>>
    BY DEF NextLoop
  <1>2. /\ cursor = [data |-> Before(DataWords, ChunksPassed),
                      gather |-> Before(ColumnWords, ChunksPassed),
                      scatter |-> Before(RowWords, RowsPassed),
                      reduction |-> Before(RoundWords, ChunksPassed),
                      range |-> RangesBegun]
        /\ G!IInv /\ OrdersKnown /\ FeaturesKnown
        /\ Len(loops) = Len(group_order) + Len(range_order)
        /\ Len(group_order) \in Nat /\ Len(range_order) \in Nat
        /\ Len(Groups) = Len(group_order) /\ Len(RangeLists) = Len(range_order)
        /\ at \in 1 .. Len(loops) + 1 /\ iter \in Nat /\ inner \in Nat
    BY <1>1, CursorFacts
  <1>3. inner = 0
    <2>1. ~(iter < loop.count)
      BY <1>1, <1>2
    <2> QED
      BY <1>1, <2>1, NoInner
  <1>4. /\ G!IInv' /\ FeaturesKnown' /\ StreamsLaid' /\ LoopsMade' /\ NotStarted'
        /\ Groups' = Groups /\ RangeLists' = RangeLists /\ Ranges' = Ranges
        /\ RangeChunks' = RangeChunks /\ GroupChunks' = GroupChunks
        /\ DataWords' = DataWords /\ ColumnWords' = ColumnWords
        /\ RowWords' = RowWords /\ RoundWords' = RoundWords
        /\ group_order' = group_order /\ range_order' = range_order
        /\ loops' = loops /\ range_num' = range_num
    BY <1>1, PlanUnchanged
  <1>5. /\ Groups \in Seq(Seq(Chunk)) /\ GroupChunks = FlattenSeq(Groups)
        /\ GroupChunks \in Seq(Chunk)
        /\ RangeLists \in Seq(Seq(Long)) /\ Ranges = FlattenSeq(RangeLists)
        /\ Ranges \in Seq(Long)
    BY <1>2, GroupsFacts, RangesFacts
  <1>6. RangeChunks \in Seq(Seq(Chunk))
    BY <1>5, RangeChunksFacts
  <1>7. /\ Before(Groups, Len(Groups)) = Len(GroupChunks)
        /\ Before(RangeLists, 0) = 0 /\ Before(RangeChunks, 0) = 0
        /\ Len(GroupChunks) \in Nat
    BY <1>5, <1>6, FlattenFacts
  <1>8. \A n \in 1 .. Len(group_order) :
          loops[n].kind = "group" /\ loops[n].count = Len(Groups[n])
    BY <1>1 DEF StepInv, LoopsMade
  <1>9. \A n \in 1 .. Len(range_order) :
          /\ loops[Len(group_order) + n].kind = "range"
          /\ loops[Len(group_order) + n].count = Len(RangeLists[n])
    BY <1>1 DEF StepInv, LoopsMade
  <1>10. RangesBegun = RangesPassed /\ RangesBegun' = RangesPassed'
    <2>1. RangesPassed \in Nat
      <3>1. CASE at <= Len(group_order)
        BY <3>1 DEF RangesPassed
      <3>2. CASE ~(at <= Len(group_order))
        <4>1. at - 1 - Len(group_order) \in 0 .. Len(RangeLists)
          BY <1>1, <1>2, <3>2
        <4>2. Before(RangeLists, at - 1 - Len(group_order)) \in Nat
          BY <1>5, <4>1, FlattenFacts
        <4> QED
          BY <1>2, <3>2, <4>2 DEF RangesPassed
      <3> QED
        BY <3>1, <3>2
    <2>2. RangesPassed' + 0 = RangesPassed'
      <3>1. CASE at' <= Len(group_order)
        BY <1>4, <3>1 DEF RangesPassed
      <3>2. CASE ~(at' <= Len(group_order))
        <4>1. at' - 1 - Len(group_order) \in 0 .. Len(RangeLists)
          BY <1>1, <1>2, <3>2
        <4>2. Before(RangeLists, at' - 1 - Len(group_order)) \in Nat
          BY <1>5, <4>1, FlattenFacts
        <4>3. RangesPassed' = Before(RangeLists, at' - 1 - Len(group_order)) + 0
          BY <1>1, <1>4, <3>2 DEF RangesPassed
        <4> QED
          BY <4>2, <4>3
      <3> QED
        BY <3>1, <3>2
    <2>3. RangesBegun = RangesPassed + 0
      BY <1>3 DEF RangesBegun
    <2>4. RangesBegun' = RangesPassed' + 0
      BY <1>1, <1>3 DEF RangesBegun
    <2>5. RangesBegun = RangesPassed
      BY <2>1, <2>3
    <2>6. RangesBegun' = RangesPassed'
      BY <2>2, <2>4
    <2> QED
      BY <2>5, <2>6
  <1>11. /\ ChunksPassed' = ChunksPassed /\ RowsPassed' = RowsPassed
         /\ RangesPassed' = RangesPassed
    <2>1. CASE at <= Len(group_order)
      <3>1. at \in 1 .. Len(Groups) /\ at - 1 \in 0 .. Len(Groups)
        BY <1>1, <1>2, <2>1
      <3>2. iter = Len(Groups[at]) /\ Len(Groups[at]) \in Nat
        BY <1>1, <1>2, <1>8, <3>1 DEF loop
      <3>3. Before(Groups, at) = Before(Groups, at - 1) + iter
        BY <1>5, <3>1, <3>2, FlattenFacts
      <3>4. /\ ChunksPassed = Before(Groups, at) /\ RowsPassed = ChunksPassed
            /\ RangesPassed = 0
        BY <2>1, <3>3 DEF ChunksPassed, RowsPassed, RangesPassed
      <3>5. Before(Groups, at) \in Nat
        <4>1. at \in 0 .. Len(Groups)
          BY <3>1
        <4> QED
          BY <1>5, <1>7, <4>1, FlattenFacts
      <3>6. CASE at + 1 <= Len(group_order)
        <4>1. (at + 1) - 1 = at
          BY <1>2
        <4>2. ChunksPassed' = Before(Groups, at) + 0 /\ RowsPassed' = ChunksPassed'
              /\ RangesPassed' = 0
          BY <1>1, <1>4, <3>6, <4>1 DEF ChunksPassed, RowsPassed, RangesPassed
        <4> QED
          BY <3>4, <3>5, <4>2
      <3>7. CASE ~(at + 1 <= Len(group_order))
        <4>1. at = Len(Groups) /\ at + 1 - 1 - Len(group_order) = 0
          BY <1>2, <2>1, <3>7
        <4>2. RangesPassed' = 0
          BY <1>1, <1>4, <1>7, <3>7, <4>1 DEF RangesPassed
        <4>3. ChunksPassed' = Len(GroupChunks) + 0 - 0 /\ RowsPassed' = Len(GroupChunks) + 0
          BY <1>1, <1>3, <1>4, <1>7, <1>10, <3>7, <4>2 DEF ChunksPassed, RowsPassed
        <4> QED
          BY <1>7, <3>4, <4>1, <4>2, <4>3
      <3> QED
        BY <3>6, <3>7
    <2>2. CASE ~(at <= Len(group_order))
      <3> DEFINE n == at - Len(group_order)
      <3>1. /\ n \in 1 .. Len(RangeLists) /\ Len(group_order) + n = at
            /\ at - 1 - Len(group_order) = n - 1 /\ at + 1 - 1 - Len(group_order) = n
            /\ ~(at + 1 <= Len(group_order)) /\ n \in 0 .. Len(RangeLists)
        BY <1>1, <1>2, <2>2
      <3> HIDE DEF n
      <3>2. iter = Len(RangeLists[n])
        BY <1>1, <1>2, <1>9, <3>1 DEF loop
      <3>3. Before(RangeLists, n) = Before(RangeLists, n - 1) + iter /\ Before(RangeLists, n) \in Nat
        BY <1>5, <3>1, <3>2, FlattenFacts
      <3>4. RangesPassed = Before(RangeLists, n)
        BY <2>2, <3>1, <3>3 DEF RangesPassed
      <3>5. RangesPassed' = Before(RangeLists, n) + 0
        BY <1>1, <1>4, <3>1 DEF RangesPassed
      <3>6. RangesPassed' = RangesPassed
        BY <3>3, <3>4, <3>5
      <3>7. ChunksPassed' = ChunksPassed
        BY <1>1, <1>4, <1>10, <2>2, <3>1, <3>6 DEF ChunksPassed
      <3>8. RowsPassed' = RowsPassed
        BY <1>1, <1>4, <2>2, <3>1, <3>6 DEF RowsPassed
      <3> QED
        BY <3>6, <3>7, <3>8
    <2> QED
      BY <2>1, <2>2
  <1>12. RangesBegun' = RangesBegun
    BY <1>10, <1>11
  <1>13. at' <= Len(loops) => 0 <= loop'.count
    <2> SUFFICES ASSUME at + 1 <= Len(loops) PROVE 0 <= loops[at + 1].count
      BY <1>1, <1>4 DEF loop
    <2>1. CASE at + 1 <= Len(group_order)
      <3>1. at + 1 \in 1 .. Len(Groups)
        BY <1>2, <2>1
      <3>2. Groups[at + 1] \in Seq(Chunk)
        BY <1>5, <3>1
      <3>3. Len(Groups[at + 1]) \in Nat
        BY <3>2
      <3> QED
        BY <1>2, <1>8, <3>1, <3>3
    <2>2. CASE ~(at + 1 <= Len(group_order))
      <3> DEFINE n == at + 1 - Len(group_order)
      <3>1. n \in 1 .. Len(RangeLists) /\ Len(group_order) + n = at + 1
        BY <1>2, <2>2
      <3> HIDE DEF n
      <3>2. RangeLists[n] \in Seq(Long)
        BY <1>5, <3>1
      <3>3. Len(RangeLists[n]) \in Nat
        BY <3>2
      <3>4. loops[Len(group_order) + n].count = Len(RangeLists[n])
        BY <1>2, <1>9, <3>1
      <3> QED
        BY <3>1, <3>3, <3>4
    <2> QED
      BY <2>1, <2>2
  <1>14. at' \in 1 .. Len(loops') + 1
    BY <1>1, <1>2, <1>4
  <1>15. LoopsInStep'
    BY <1>1, <1>2, <1>3, <1>4, <1>11, <1>12, <1>13, <1>14 DEF LoopsInStep
  <1>16. OutputKept'
    BY <1>1 DEF OutputKept, StepInv, Output, Element
  <1> QED
    BY <1>4, <1>15, <1>16 DEF StepInv

\* The elements are those of the whole vectors and those after them.
LEMMA ElementCount ==
  /\ NumChunks * Vector \in Nat
  /\ Cardinality(DOMAIN TailRow) \in Nat
  /\ Cardinality(Element) = NumChunks * Vector + Cardinality(DOMAIN TailRow)
  /\ Element = 0 .. Cardinality(Element) - 1
  <1> DEFINE whole == NumChunks * Vector
             rest == Cardinality(DOMAIN TailRow)
             total == whole + rest
  <1>1. whole \in Nat /\ rest \in Nat
    <2>1. PICK n \in 0 .. Vector - 1 : TailRow \in [0 .. n - 1 -> Nat]
      BY DynVecAssumption
    <2>2. n \in Int /\ IsFiniteSet(0 .. n - 1) /\ DOMAIN TailRow = 0 .. n - 1
      BY <2>1, FS_Interval, VectorAssumption
    <2>3. Cardinality(DOMAIN TailRow) \in Nat
      BY <2>2, FS_CardinalityType
    <2> QED
      BY <2>3, GroupingHolds, VectorAssumption
  <1>2. Element = 0 .. whole + rest - 1
    BY DEF Element
  <1> HIDE DEF whole, rest
  <1>3. whole + rest - 1 = total - 1
    BY <1>1
  <1>4. Cardinality(Element) = total
    <2> DEFINE last == total - 1
    <2>1. last \in Int /\ IF 0 > last THEN total = 0 ELSE last - 0 + 1 = total
      BY <1>1
    <2>2. Element = 0 .. last
      BY <1>2, <1>3
    <2> HIDE DEF last
    <2>3. Cardinality(0 .. last) = IF 0 > last THEN 0 ELSE last - 0 + 1
      BY <2>1, FS_Interval
    <2> QED
      BY <2>1, <2>2, <2>3
  <1> QED
    BY <1>1, <1>2, <1>3, <1>4 DEF whole, rest

\* After the last loop: the return, the scalar loop and the end.
LEMMA AfterLoopsStep ==
  ASSUME StepInv, Return \/ TailIteration \/ Finish
  PROVE  StepInv'
  <1>1. /\ stage \in {"kernel", "tail"} /\ stage' \in {"tail", "done"}
        /\ stage = "kernel" => at > Len(loops)
        /\ at' = at /\ iter' = iter /\ inner' = inner /\ cursor' = cursor
        /\ UNCHANGED <<arrays, grouping, streams, program>>
    BY DEF Return, TailIteration, Finish, machine
  <1>2. /\ at \in 1 .. Len(loops) + 1 /\ Len(loops) \in Nat
        /\ Len(group_order) \in Nat
    BY <1>1, CursorFacts
  <1>3. inner = 0
    <2>1. ~Running("range")
      BY <1>1, <1>2 DEF Running
    <2> QED
      BY <1>1, <2>1, NoInner
  <1>4. /\ G!IInv' /\ FeaturesKnown' /\ StreamsLaid' /\ LoopsMade' /\ NotStarted'
        /\ Groups' = Groups /\ RangeLists' = RangeLists /\ Ranges' = Ranges
        /\ RangeChunks' = RangeChunks /\ GroupChunks' = GroupChunks
        /\ DataWords' = DataWords /\ ColumnWords' = ColumnWords
        /\ RowWords' = RowWords /\ RoundWords' = RoundWords
        /\ group_order' = group_order /\ range_order' = range_order
        /\ loops' = loops /\ range_num' = range_num
    BY <1>1, PlanUnchanged
  <1>5. RangesPassed' = RangesPassed
    BY <1>1, <1>4 DEF RangesPassed
  <1>6. RangesBegun' = RangesBegun
    BY <1>1, <1>5 DEF RangesBegun
  <1>7. ChunksPassed' = ChunksPassed
    BY <1>1, <1>4, <1>6 DEF ChunksPassed
  <1>8. RowsPassed' = RowsPassed
    BY <1>1, <1>4, <1>5, <1>7 DEF RowsPassed
  <1>9. loop' = loop
    BY <1>1, <1>4 DEF loop
  <1>10. LoopsInStep'
    BY <1>1, <1>3, <1>4, <1>6, <1>7, <1>8, <1>9 DEF LoopsInStep, StepInv
  <1>11. OutputKept'
    <2>1. DOMAIN y' = DOMAIN y
      BY DEF Return, TailIteration, Finish
    <2>2. element' \in NumChunks * Vector .. Cardinality(Element)
      <3>1. element \in NumChunks * Vector .. Cardinality(Element)
        BY DEF StepInv, OutputKept
      <3>2. CASE element' = element
        BY <3>1, <3>2
      <3>3. CASE element' = element + 1 /\ element \in Element
        BY <3>1, <3>3, ElementCount DEF Element
      <3> QED
        BY <3>2, <3>3 DEF Return, TailIteration, Finish, machine
    <2> QED
      BY <1>1, <2>1, <2>2 DEF OutputKept, StepInv, Output, Element
  <1> QED
    BY <1>4, <1>10, <1>11 DEF StepInv

-----------------------------------------------------------------------------
(***************************************************************************)
(* The steps of the compiler                                               *)
(***************************************************************************)
LEMMA GenerateInformationStep ==
  ASSUME StepInv, GenerateInformation
  PROVE  StepInv'
  <1>1. /\ stage = "generate" /\ stage' = "generate" /\ G!Next
        /\ UNCHANGED <<arrays, y, streams, program, machine>>
    BY DEF GenerateInformation
  <1>2. G!IInv' /\ UNCHANGED <<hash_info, order_type>>
    BY <1>1, GroupingStep DEF StepInv
  <1>3. FeaturesKnown'
    BY <1>1, <1>2, FeaturesUnchanged DEF StepInv
  <1>4. StreamsLaid' /\ LoopsMade' /\ LoopsInStep'
    BY <1>1 DEF StreamsLaid, Compiled, LoopsMade, LoopsInStep
  <1>5. NotStarted'
    BY <1>1 DEF StepInv, NotStarted, streams, program, machine
  <1>6. OutputKept'
    BY <1>1 DEF StepInv, OutputKept, Output, Element, machine
  <1> QED
    BY <1>2, <1>3, <1>4, <1>5, <1>6 DEF StepInv

\* transform_data lays the words out in the order of the two maps.
LEMMA TransformDataStep ==
  ASSUME StepInv, TransformData
  PROVE  StepInv'
  <1>1. /\ stage = "generate" /\ pc = "done" /\ stage' = "optimize"
        /\ UNCHANGED <<arrays, y, grouping, program, machine>>
        /\ group_order' \in SetToSeqs(G!Present)
        /\ range_order' \in SetToSeqs({k \in G!Present : same_write_pattern_map[k] # <<>>})
    BY DEF TransformData
  <1>2. G!IInv' /\ UNCHANGED <<hash_info, order_type>>
    BY <1>1, GroupingStep DEF StepInv
  <1>3. FeaturesKnown'
    BY <1>1, <1>2, FeaturesUnchanged DEF StepInv
  <1>4. /\ gather_info' = gather_info /\ scatter_info' = scatter_info
        /\ reduction_info' = reduction_info /\ pc' = pc
        /\ same_feature_map' = same_feature_map
        /\ same_write_pattern_map' = same_write_pattern_map
    BY <1>1 DEF arrays, grouping
  <1>5. IsFiniteSet(G!Present)
    BY <1>1, GroupingDone DEF StepInv
  <1>6. group_order' \in Seq(G!Present)
    BY <1>1, <1>5, OrderIsSeq
  <1>7. /\ range_order' \in Seq(G!Present)
        /\ \A n \in 1 .. Len(range_order') : same_write_pattern_map[range_order'[n]] # <<>>
    <2> DEFINE S == {k \in G!Present : same_write_pattern_map[k] # <<>>}
    <2>1. IsFiniteSet(S) /\ S \subseteq G!Present
      BY <1>5, FS_Subset
    <2>2. range_order' \in Seq(S)
      BY <1>1, <2>1, OrderIsSeq
    <2>3. range_order' \in Seq(G!Present)
      BY <2>1, <2>2
    <2>4. \A n \in 1 .. Len(range_order') : range_order'[n] \in S
      BY <2>2
    <2> QED
      BY <2>3, <2>4
  <1>8. G!Present' = G!Present
    BY <1>2 DEF G!Present, G!Chunk
  <1>9. /\ GroupChunks' = ChunksOfGroups(group_order')
        /\ Ranges' = RangesOf(range_order')
    BY <1>4 DEF GroupChunks, ChunksOfGroups, Ranges, RangesOf
  <1>10. /\ AllChunks' = ChunksOfGroups(group_order') \o ChunksOfRanges(RangesOf(range_order'))
         /\ RowChunks' = ChunksOfGroups(group_order') \o FirstsOfRanges(RangesOf(range_order'))
    BY <1>9 DEF AllChunks, RowChunks
  <1>11. /\ data_new' = Laid(DataSlots, AllChunks')
         /\ gather_new' = Laid(ColumnSlots, AllChunks')
         /\ scatter_new' = Laid(RowSlots, RowChunks')
         /\ reduction_new' = Laid(RoundSlots, AllChunks')
    BY <1>10 DEF TransformData
  <1>12. data_new' = FlattenSeq(DataWords')
    BY <1>11 DEF Laid, DataWords
  <1>13. gather_new' = FlattenSeq(ColumnWords')
    BY <1>4, <1>11 DEF Laid, ColumnWords, ColumnSlots
  <1>14. scatter_new' = FlattenSeq(RowWords')
    BY <1>4, <1>11 DEF Laid, RowWords, RowSlots
  <1>15. reduction_new' = FlattenSeq(RoundWords')
    BY <1>4, <1>11 DEF Laid, RoundWords, RoundSlots
  <1>16. StreamsLaid'
    BY <1>1, <1>4, <1>6, <1>7, <1>8, <1>12, <1>13, <1>14, <1>15 DEF StreamsLaid
  <1>17. LoopsMade' /\ LoopsInStep'
    BY <1>1 DEF LoopsMade, LoopsInStep
  <1>18. NotStarted'
    <2>1. OrdersKnown'
      BY <1>1, <1>4, <1>6, <1>7, <1>8 DEF OrdersKnown
    <2>2. AreSeqs(DataWords') /\ AreSeqs(ColumnWords') /\ AreSeqs(RowWords') /\ AreSeqs(RoundWords')
      <3>1. (G!IInv /\ OrdersKnown /\ FeaturesKnown)'
        BY <1>2, <1>3, <2>1
      <3>2. (AreSeqs(DataWords) /\ AreSeqs(ColumnWords) /\ AreSeqs(RowWords) /\ AreSeqs(RoundWords))'
        BY <3>1, WordsFacts, PTL
      <3> QED
        BY <3>2
    <2>3. \A s : AreSeqs(s) => Len(FlattenSeq(s)) \in Nat
      <3> SUFFICES ASSUME NEW s, AreSeqs(s) PROVE Len(FlattenSeq(s)) \in Nat
        OBVIOUS
      <3>1. PICK T : s \in Seq(Seq(T))
        BY DEF AreSeqs
      <3>2. FlattenSeq(s) \in Seq(T)
        BY <3>1, FlattenFacts
      <3> QED
        BY <3>2
    <2>4. /\ Len(data_new') \in Nat /\ Len(gather_new') \in Nat
          /\ Len(scatter_new') \in Nat /\ Len(reduction_new') \in Nat
      BY <1>12, <1>13, <1>14, <1>15, <2>2, <2>3
    <2> QED
      BY <1>1, <2>4 DEF StepInv, NotStarted, program, machine
  <1>19. OutputKept'
    BY <1>1 DEF StepInv, OutputKept, Output, Element, machine
  <1> QED
    BY <1>2, <1>3, <1>16, <1>17, <1>18, <1>19 DEF StepInv

\* Chunks of one hash share the code of their loop.
LEMMA SameHashFits ==
  ASSUME HashSeparates, FeaturesKnown, NEW c \in Chunk, NEW d \in Chunk,
         hash_info[c] = hash_info[d]
  PROVE  /\ ColumnCode(gather_info[c]) = ColumnCode(gather_info[d])
         /\ RowCode(scatter_info[c], reduction_info[c])
              = RowCode(scatter_info[d], reduction_info[d])
  <1>1. PICK r \in RowShapes, s \in ColumnShapes :
          /\ gather_info[c] = GatherInfo(s)
          /\ scatter_info[c] = ScatterInfo(r)
          /\ reduction_info[c] = ReductionInfo(r)
          /\ hash_info[c] = HashOfShapes(r, s)
    BY DEF FeaturesKnown
  <1>2. PICK q \in RowShapes, p \in ColumnShapes :
          /\ gather_info[d] = GatherInfo(p)
          /\ scatter_info[d] = ScatterInfo(q)
          /\ reduction_info[d] = ReductionInfo(q)
          /\ hash_info[d] = HashOfShapes(q, p)
    BY DEF FeaturesKnown
  <1>3. HashOfShapes(r, s) = HashOfShapes(q, p)
    BY <1>1, <1>2
  <1>4. /\ ColumnCode(GatherInfo(s)) = ColumnCode(GatherInfo(p))
        /\ RowCode(ScatterInfo(r), ReductionInfo(r)) = RowCode(ScatterInfo(q), ReductionInfo(q))
    BY <1>3 DEF HashSeparates
  <1> QED
    BY <1>1, <1>2, <1>4

\* The loop made from the first chunk of an entry fits all chunks of the entry,
\* because they have one hash.
LEMMA OptimizationStateStep ==
  ASSUME HashSeparates, StepInv, OptimizationState
  PROVE  StepInv'
  <1>1. /\ stage = "optimize" /\ stage' \in {"exit", "kernel"}
        /\ loops' = [n \in 1 .. Len(group_order) |-> GroupLoop(group_order[n])]
                      \o [n \in 1 .. Len(range_order) |-> RangeLoop(range_order[n])]
        /\ range_num' = [n \in 1 .. Len(Ranges) |-> Ranges[n][2] - Ranges[n][1]]
        /\ UNCHANGED <<arrays, y, grouping, streams, machine>>
    BY DEF OptimizationState, Ranges
  <1>2. G!IInv /\ OrdersKnown /\ FeaturesKnown
    BY <1>1, CompiledFacts DEF Compiled
  <1>3. G!IInv' /\ UNCHANGED <<hash_info, order_type>>
    BY <1>1, <1>2, GroupingStep
  <1>4. FeaturesKnown'
    BY <1>1, <1>2, <1>3, FeaturesUnchanged
  <1>5. /\ Groups' = Groups /\ RangeLists' = RangeLists /\ Ranges' = Ranges
        /\ RangeChunks' = RangeChunks /\ GroupChunks' = GroupChunks
        /\ DataWords' = DataWords /\ ColumnWords' = ColumnWords
        /\ RowWords' = RowWords /\ RoundWords' = RoundWords
    BY <1>1, WordsUnchanged
  <1>6. /\ group_order' = group_order /\ range_order' = range_order /\ pc' = pc
        /\ same_write_pattern_map' = same_write_pattern_map /\ hash_info' = hash_info
        /\ data_new' = data_new /\ gather_new' = gather_new
        /\ scatter_new' = scatter_new /\ reduction_new' = reduction_new
        /\ gather_info' = gather_info /\ scatter_info' = scatter_info
        /\ reduction_info' = reduction_info
    BY <1>1, <1>3 DEF arrays, grouping, streams
  <1>7. StreamsLaid'
    <2>1. StreamsLaid /\ Compiled
      BY <1>1 DEF StepInv, Compiled
    <2> QED
      BY <1>5, <1>6, <2>1 DEF StreamsLaid, Compiled, G!Present, G!Chunk
  <1>8. Len(group_order) \in Nat /\ Len(range_order) \in Nat
    BY <1>2 DEF OrdersKnown
  <1>9. /\ Len(loops') = Len(group_order) + Len(range_order)
        /\ \A n \in 1 .. Len(group_order) : loops'[n] = GroupLoop(group_order[n])
        /\ \A n \in 1 .. Len(range_order) :
             loops'[Len(group_order) + n] = RangeLoop(range_order[n])
    <2> DEFINE a == [n \in 1 .. Len(group_order) |-> GroupLoop(group_order[n])]
               b == [n \in 1 .. Len(range_order) |-> RangeLoop(range_order[n])]
               S == {a[n] : n \in 1 .. Len(group_order)} \cup {b[n] : n \in 1 .. Len(range_order)}
    <2>1. /\ a \in Seq(S) /\ Len(a) = Len(group_order)
          /\ b \in Seq(S) /\ Len(b) = Len(range_order)
          /\ loops' = a \o b
      BY <1>1, <1>8
    <2>2. /\ \A n \in 1 .. Len(group_order) : a[n] = GroupLoop(group_order[n])
          /\ \A n \in 1 .. Len(range_order) : b[n] = RangeLoop(range_order[n])
      OBVIOUS
    <2> HIDE DEF a, b, S
    <2>3. /\ Len(a \o b) = Len(a) + Len(b)
          /\ \A n \in 1 .. Len(a) : (a \o b)[n] = a[n]
          /\ \A n \in 1 .. Len(b) : (a \o b)[Len(a) + n] = b[n]
      <3>1. a \in Seq(S) /\ b \in Seq(S)
        BY <2>1
      <3> QED
        BY <3>1
    <2> QED
      BY <2>1, <2>2, <2>3
  <1>10. ASSUME NEW n \in 1 .. Len(group_order)
         PROVE  /\ loops'[n].kind = "group" /\ loops'[n].count = Len(Groups[n])
                /\ Len(Groups[n]) \in Nat
                /\ \A p \in 1 .. Len(Groups[n]) :
                     LET c == Groups[n][p] IN
                     /\ loops'[n].column = ColumnCode(gather_info[c])
                     /\ loops'[n].row = RowCode(scatter_info[c], reduction_info[c])
    <2> DEFINE k == group_order[n]
    <2>1. /\ Groups \in Seq(Seq(Chunk)) /\ n \in 1 .. Len(Groups)
          /\ Groups[n] = same_feature_map[k]
          /\ \A p \in 1 .. Len(Groups[n]) : hash_info[Groups[n][p]] = k
      BY <1>2, GroupsFacts
    <2>2. Groups[n] \in Seq(Chunk)
      BY <2>1
    <2>3. loops'[n] = Loop("group", Leader(k), Len(Groups[n]))
      BY <1>9, <2>1 DEF GroupLoop
    <2> HIDE DEF k
    <2>4. ASSUME NEW p \in 1 .. Len(Groups[n])
          PROVE  /\ loops'[n].column = ColumnCode(gather_info[Groups[n][p]])
                 /\ loops'[n].row = RowCode(scatter_info[Groups[n][p]], reduction_info[Groups[n][p]])
      <3>1. Groups[n] # <<>> /\ 1 \in 1 .. Len(Groups[n])
        BY <2>2
      <3>2. Leader(k) = Groups[n][1]
        BY <2>1, <3>1 DEF Leader
      <3>3. Leader(k) \in Chunk /\ Groups[n][p] \in Chunk /\ hash_info[Leader(k)] = hash_info[Groups[n][p]]
        BY <2>1, <2>2, <3>1, <3>2
      <3>4. /\ ColumnCode(gather_info[Leader(k)]) = ColumnCode(gather_info[Groups[n][p]])
            /\ RowCode(scatter_info[Leader(k)], reduction_info[Leader(k)])
                 = RowCode(scatter_info[Groups[n][p]], reduction_info[Groups[n][p]])
        BY <1>2, <3>3, SameHashFits
      <3> QED
        BY <2>3, <3>4 DEF Loop
    <2> QED
      BY <2>2, <2>3, <2>4 DEF Loop
  <1>11. ASSUME NEW n \in 1 .. Len(range_order)
         PROVE  LET m == Len(group_order) + n IN
                /\ loops'[m].kind = "range" /\ loops'[m].count = Len(RangeLists[n])
                /\ Len(RangeLists[n]) \in Nat
                /\ \A p \in 1 .. Len(RangeLists[n]) :
                     \A c \in RangeLists[n][p][1] .. RangeLists[n][p][2] - 1 :
                       /\ loops'[m].column = ColumnCode(gather_info[c])
                       /\ loops'[m].row = RowCode(scatter_info[c], reduction_info[c])
    <2> DEFINE k == range_order[n]
               m == Len(group_order) + n
               lead == RangeLists[n][1][1]
    <2>1. /\ RangeLists \in Seq(Seq(Long)) /\ n \in 1 .. Len(RangeLists)
          /\ RangeLists[n] = same_write_pattern_map[k]
          /\ \A p \in 1 .. Len(RangeLists[n]) :
               \A c \in RangeLists[n][p][1] .. RangeLists[n][p][2] - 1 :
                 c \in Chunk /\ hash_info[c] = k
      BY <1>2, RangesFacts
    <2>2. RangeLists[n] \in Seq(Long) /\ RangeLists[n] # <<>>
      <3>1. RangeLists[n] \in Seq(Long)
        BY <2>1
      <3>2. same_write_pattern_map[k] # <<>>
        BY <1>1 DEF StepInv, StreamsLaid, Compiled
      <3> QED
        BY <2>1, <3>1, <3>2
    <2>3. 1 \in 1 .. Len(RangeLists[n]) /\ RangeLists[n][1] \in Long
      BY <2>2
    <2>4. lead \in lead .. RangeLists[n][1][2] - 1
      <3>1. lead \in Chunk /\ RangeLists[n][1][2] \in 1 .. NumChunks /\ lead + 1 < RangeLists[n][1][2]
        BY <2>3 DEF Long
      <3>2. lead \in Int /\ RangeLists[n][1][2] \in Int
        BY <3>1, GroupingHolds DEF Chunk
      <3> HIDE DEF lead
      <3> QED
        BY <3>1, <3>2
    <2>5. loops'[m] = Loop("range", lead, Len(RangeLists[n]))
      BY <1>9, <2>1 DEF RangeLoop
    <2>6. lead \in Chunk /\ hash_info[lead] = k
      BY <2>1, <2>3, <2>4
    <2> HIDE DEF k, m, lead
    <2>7. ASSUME NEW p \in 1 .. Len(RangeLists[n]),
                 NEW c \in RangeLists[n][p][1] .. RangeLists[n][p][2] - 1
          PROVE  /\ loops'[m].column = ColumnCode(gather_info[c])
                 /\ loops'[m].row = RowCode(scatter_info[c], reduction_info[c])
      <3>1. c \in Chunk /\ hash_info[lead] = hash_info[c]
        BY <2>1, <2>6
      <3>2. /\ ColumnCode(gather_info[lead]) = ColumnCode(gather_info[c])
            /\ RowCode(scatter_info[lead], reduction_info[lead])
                 = RowCode(scatter_info[c], reduction_info[c])
        BY <1>2, <2>6, <3>1, SameHashFits
      <3> QED
        BY <2>5, <3>2 DEF Loop
    <2> QED
      BY <2>2, <2>5, <2>7 DEF Loop, m
  <1>12. LoopsMade'
    <2>1. ASSUME NEW n \in 1 .. Len(group_order), NEW p \in 1 .. Len(Groups[n])
          PROVE  Fits(n, Groups[n][p])'
      BY <1>5, <1>6, <1>10 DEF Fits
    <2>2. ASSUME NEW n \in 1 .. Len(range_order), NEW p \in 1 .. Len(RangeLists[n]),
                 NEW c \in RangeLists[n][p][1] .. RangeLists[n][p][2] - 1
          PROVE  Fits(Len(group_order) + n, c)'
      BY <1>5, <1>6, <1>11 DEF Fits
    <2>3. range_num' = [n \in 1 .. Len(Ranges') |-> Ranges'[n][2] - Ranges'[n][1]]
      BY <1>1, <1>5
    <2>4. \A n \in 1 .. Len(group_order) :
            loops'[n].kind = "group" /\ loops'[n].count = Len(Groups[n])
      BY <1>10
    <2>5. \A n \in 1 .. Len(range_order) :
            /\ loops'[Len(group_order) + n].kind = "range"
            /\ loops'[Len(group_order) + n].count = Len(RangeLists[n])
      BY <1>11
    <2> QED
      BY <1>5, <1>6, <1>9, <2>1, <2>2, <2>3, <2>4, <2>5 DEF LoopsMade
  <1>13. \A n \in 1 .. Len(loops') : loops'[n].count \in Nat
    <2> SUFFICES ASSUME NEW n \in 1 .. Len(loops') PROVE loops'[n].count \in Nat
      OBVIOUS
    <2>1. CASE n <= Len(group_order)
      BY <1>8, <1>9, <1>10, <2>1
    <2>2. CASE ~(n <= Len(group_order))
      <3> DEFINE q == n - Len(group_order)
      <3>1. q \in 1 .. Len(range_order) /\ Len(group_order) + q = n
        BY <1>8, <1>9, <2>2
      <3> HIDE DEF q
      <3>2. loops'[Len(group_order) + q].count \in Nat
        BY <1>11, <3>1
      <3> QED
        BY <3>1, <3>2
    <2> QED
      BY <2>1, <2>2
  <1>14. /\ at = 1 /\ iter = 0 /\ inner = 0
         /\ cursor = [data |-> 0, gather |-> 0, scatter |-> 0, reduction |-> 0, range |-> 0]
         /\ at' = at /\ iter' = iter /\ inner' = inner /\ cursor' = cursor
    BY <1>1 DEF StepInv, NotStarted, machine
  <1>15. NotStarted'
    <2>1. Len(range_num') \in Nat
      <3>1. Len(Ranges) \in Nat
        BY <1>2, RangesFacts
      <3> QED
        BY <1>1, <3>1
    <2>2. /\ Len(data_new) \in Nat /\ Len(gather_new) \in Nat
          /\ Len(scatter_new) \in Nat /\ Len(reduction_new) \in Nat
      BY <1>1 DEF StepInv, NotStarted
    <2> QED
      BY <1>6, <1>8, <1>9, <1>13, <1>14, <2>1, <2>2 DEF NotStarted
  <1>16. LoopsInStep'
    <2>1. \A s : AreSeqs(s) => Before(s, 0) = 0
      BY FlattenFacts DEF AreSeqs
    <2>2. /\ Before(DataWords, 0) = 0 /\ Before(ColumnWords, 0) = 0
          /\ Before(RowWords, 0) = 0 /\ Before(RoundWords, 0) = 0
      BY <1>2, <2>1, WordsFacts
    <2>3. /\ Groups \in Seq(Seq(Chunk)) /\ Len(Groups) = Len(group_order)
          /\ RangeLists \in Seq(Seq(Long)) /\ Ranges \in Seq(Long)
          /\ GroupChunks = FlattenSeq(Groups)
      BY <1>2, GroupsFacts, RangesFacts
    <2>4. RangeChunks \in Seq(Seq(Chunk))
      BY <2>3, RangeChunksFacts
    <2>5. /\ Before(Groups, 0) = 0 /\ Before(RangeLists, 0) = 0 /\ Before(RangeChunks, 0) = 0
          /\ Before(Groups, Len(Groups)) = Len(GroupChunks)
      BY <2>3, <2>4, FlattenFacts
    <2>6. RangesPassed' = 0 /\ RangesBegun' = 0 /\ ChunksPassed' = 0 /\ RowsPassed' = 0
      <3>1. CASE 1 <= Len(group_order)
        BY <1>5, <1>6, <1>14, <2>5, <3>1 DEF RangesPassed, RangesBegun, ChunksPassed, RowsPassed
      <3>2. CASE ~(1 <= Len(group_order))
        <4>1. Len(group_order) = 0 /\ Len(GroupChunks) = 0
          BY <1>8, <2>3, <2>5, <3>2
        <4> QED
          BY <1>5, <1>6, <1>14, <2>5, <4>1 DEF RangesPassed, RangesBegun, ChunksPassed, RowsPassed
      <3> QED
        BY <3>1, <3>2
    <2>7. 1 <= Len(loops') => 0 <= loops'[1].count
      <3> SUFFICES ASSUME 1 <= Len(loops') PROVE 0 <= loops'[1].count
        OBVIOUS
      <3>1. 1 \in 1 .. Len(loops') /\ Len(loops') \in Nat
        BY <1>8, <1>9
      <3>2. loops'[1].count \in Nat
        BY <1>13, <3>1
      <3> QED
        BY <3>2
    <2>8. 1 \in 1 .. Len(loops') + 1
      BY <1>8, <1>9
    <2>9. stage' \in {"tail", "done"} => FALSE
      BY <1>1
    <2> QED
      BY <1>5, <1>14, <2>2, <2>6, <2>7, <2>8, <2>9 DEF LoopsInStep, loop
  <1>17. OutputKept'
    BY <1>1 DEF StepInv, OutputKept, Output, Element, machine
  <1> QED
    BY <1>3, <1>4, <1>7, <1>12, <1>15, <1>16, <1>17 DEF StepInv

-----------------------------------------------------------------------------
(***************************************************************************)
(* The invariant                                                           *)
(***************************************************************************)
\* What DynVec starts from is a start of generate_information: chunks of one
\* hash have one order type, because they can share a loop.
LEMMA GroupingInit ==
  ASSUME HashSeparates, FeaturesKnown, Init
  PROVE  G!IInv
  <1>1. G!Chunk = Chunk
    BY DEF G!Chunk, Chunk
  <1>2. hash_info \in [Chunk -> Key]
    <2>1. \A c \in Chunk : hash_info[c] \in Key
      BY HashAssumption DEF FeaturesKnown
    <2>2. hash_info = [c \in Chunk |-> hash_info[c]]
      BY DEF Init
    <2> QED
      BY <2>1, <2>2
  <1>3. order_type \in [Chunk -> GP!OrderType]
    <2>1. ASSUME NEW c \in Chunk
          PROVE  order_type[c] \in GP!OrderType
      <3>1. RowCode(scatter_info[c], reduction_info[c]).order
               \in {"OrderEquel", "IncContinue", "DisOrder"}
        BY RowOrder
      <3>2. order_type[c] = RowCode(scatter_info[c], reduction_info[c]).order
        BY DEF FeaturesKnown, RowCode
      <3> QED
        BY <3>1, <3>2 DEF GP!OrderType
    <2>2. order_type = [c \in Chunk |-> order_type[c]]
      BY DEF Init
    <2> QED
      BY <2>1, <2>2
  <1>4. ASSUME NEW c \in Chunk, NEW d \in Chunk, hash_info[c] = hash_info[d]
        PROVE  order_type[c] = order_type[d]
    <2>1. RowCode(scatter_info[c], reduction_info[c]) = RowCode(scatter_info[d], reduction_info[d])
      BY <1>4, SameHashFits
    <2>2. /\ RowCode(scatter_info[c], reduction_info[c]).order = scatter_info[c].order
          /\ RowCode(scatter_info[d], reduction_info[d]).order = scatter_info[d].order
      BY DEF RowCode
    <2>3. order_type[c] = scatter_info[c].order /\ order_type[d] = scatter_info[d].order
      BY DEF FeaturesKnown
    <2> QED
      BY <2>1, <2>2, <2>3
  <1>5. \E order \in [Key -> GP!OrderType] :
          order_type = [c \in Chunk |-> order[hash_info[c]]]
    <2> DEFINE first(k) == CHOOSE c \in Chunk : hash_info[c] = k
               order == [k \in Key |-> IF \E c \in Chunk : hash_info[c] = k
                                         THEN order_type[first(k)] ELSE "DisOrder"]
    <2>1. \A k \in Key : (\E c \in Chunk : hash_info[c] = k) =>
            first(k) \in Chunk /\ hash_info[first(k)] = k
      OBVIOUS
    <2> HIDE DEF first
    <2>2. order \in [Key -> GP!OrderType]
      BY <1>3, <2>1 DEF GP!OrderType
    <2>3. \A c \in Chunk : order_type[c] = order[hash_info[c]]
      BY <1>2, <1>4, <2>1
    <2>4. order_type = [c \in Chunk |-> order[hash_info[c]]]
      <3> HIDE DEF order
      <3> QED
        BY <1>3, <2>3
    <2> QED
      BY <2>2, <2>4
  <1>6. write_local \in [Chunk -> Output]
    <2>1. ASSUME NEW c \in Chunk
          PROVE  scatter_info[c].index[1] \in Output
      <3>1. PICK r \in RowShapes : scatter_info[c] = ScatterInfo(r)
        BY DEF FeaturesKnown
      <3>2. ScatterInfo(r).index[1] = r[0]
        <4>1. 1 \in 1 .. Vector /\ 1 - 1 = 0
          BY VectorAssumption
        <4> QED
          BY <4>1 DEF ScatterInfo, OrderedInfo, AllIndices
      <3>3. 0 \in DOMAIN r
        BY DynVecAssumption, VectorAssumption DEF Lane
      <3> QED
        BY <3>1, <3>2, <3>3 DEF Output
    <2> QED
      BY <2>1 DEF Init
  <1>7. GP!Init
    BY <1>1, <1>2, <1>5, <1>6 DEF Init, GP!Init, GP!Chunk, Chunk
  <1>8. GP!IInv
    BY <1>7, GroupingHolds, GP!InitIInv
  <1> QED
    BY <1>8, SameIInv

\* The invariant holds at the start.
LEMMA InitStep ==
  ASSUME HashSeparates, Init
  PROVE  StepInv
  <1>1. FeaturesKnown
    <2>1. PICK rows \in [Chunk -> RowShapes], columns \in [Chunk -> ColumnShapes] :
            /\ gather_info = [c \in Chunk |-> GatherInfo(columns[c])]
            /\ scatter_info = [c \in Chunk |-> ScatterInfo(rows[c])]
            /\ reduction_info = [c \in Chunk |-> ReductionInfo(rows[c])]
      BY DEF Init
    <2>2. /\ hash_info = [c \in Chunk |->
               HashOf(Words(gather_info[c], scatter_info[c], reduction_info[c]))]
          /\ order_type = [c \in Chunk |-> scatter_info[c].order]
      BY DEF Init
    <2>3. ASSUME NEW c \in Chunk
          PROVE  \E r \in RowShapes, s \in ColumnShapes :
                   /\ gather_info[c] = GatherInfo(s)
                   /\ scatter_info[c] = ScatterInfo(r)
                   /\ reduction_info[c] = ReductionInfo(r)
                   /\ hash_info[c] = HashOfShapes(r, s)
      <3>1. rows[c] \in RowShapes /\ columns[c] \in ColumnShapes
        OBVIOUS
      <3>2. /\ gather_info[c] = GatherInfo(columns[c])
            /\ scatter_info[c] = ScatterInfo(rows[c])
            /\ reduction_info[c] = ReductionInfo(rows[c])
        BY <2>1
      <3>3. hash_info[c] = HashOfShapes(rows[c], columns[c])
        BY <2>2, <3>2 DEF HashOfShapes, WordsOfShapes
      <3> QED
        BY <3>1, <3>2, <3>3
    <2> QED
      BY <2>2, <2>3 DEF FeaturesKnown
  <1>2. G!IInv
    BY <1>1, GroupingInit
  <1>3. stage \in {"exit", "generate"}
    BY DEF Init
  <1>4. StreamsLaid /\ LoopsMade /\ LoopsInStep
    BY <1>3 DEF StreamsLaid, Compiled, LoopsMade, LoopsInStep
  <1>5. NotStarted
    BY DEF Init, NotStarted
  <1>6. OutputKept
    <2>1. DOMAIN y = Output /\ element = NumChunks * Vector
      BY DEF Init
    <2>2. NumChunks * Vector \in NumChunks * Vector .. Cardinality(Element)
      <3> DEFINE whole == NumChunks * Vector
                 rest == Cardinality(DOMAIN TailRow)
      <3>1. whole \in Nat /\ rest \in Nat /\ Cardinality(Element) = whole + rest
        BY ElementCount
      <3> HIDE DEF whole, rest
      <3>2. whole \in whole .. Cardinality(Element)
        BY <3>1
      <3> QED
        BY <3>2 DEF whole
    <2> QED
      BY <1>3, <2>1, <2>2 DEF OutputKept
  <1> QED
    BY <1>1, <1>2, <1>4, <1>5, <1>6 DEF StepInv

\* A step that changes nothing.
LEMMA StutterStep ==
  ASSUME StepInv, UNCHANGED vars
  PROVE  StepInv'
  <1>1. UNCHANGED <<arrays, y, stage, grouping, streams, program, machine>>
    BY DEF vars
  <1>2. CASE stage \in {"kernel", "tail", "done"}
    <2>1. /\ G!IInv' /\ FeaturesKnown' /\ StreamsLaid' /\ LoopsMade' /\ NotStarted'
          /\ Groups' = Groups /\ RangeLists' = RangeLists
          /\ RangeChunks' = RangeChunks /\ GroupChunks' = GroupChunks
          /\ DataWords' = DataWords /\ ColumnWords' = ColumnWords
          /\ RowWords' = RowWords /\ RoundWords' = RoundWords
          /\ group_order' = group_order /\ range_order' = range_order
          /\ loops' = loops
      BY <1>1, <1>2, PlanUnchanged
    <2>2. /\ at' = at /\ iter' = iter /\ inner' = inner /\ cursor' = cursor
          /\ element' = element /\ stage' = stage /\ y' = y
      BY <1>1 DEF machine
    <2>3. RangesPassed' = RangesPassed
      BY <2>1, <2>2 DEF RangesPassed
    <2>4. RangesBegun' = RangesBegun
      BY <2>2, <2>3 DEF RangesBegun
    <2>5. ChunksPassed' = ChunksPassed
      BY <2>1, <2>2, <2>4 DEF ChunksPassed
    <2>6. RowsPassed' = RowsPassed
      BY <2>1, <2>2, <2>3, <2>5 DEF RowsPassed
    <2>7. loop' = loop
      BY <2>1, <2>2 DEF loop
    <2>8. LoopsInStep'
      BY <2>1, <2>2, <2>4, <2>5, <2>6, <2>7 DEF LoopsInStep, StepInv, Running
    <2>9. OutputKept'
      BY <2>2 DEF StepInv, OutputKept, Output, Element
    <2> QED
      BY <2>1, <2>8, <2>9 DEF StepInv
  <1>3. CASE stage \notin {"kernel", "tail", "done"}
    <2>1. G!IInv' /\ UNCHANGED <<hash_info, order_type>>
      BY <1>1, GroupingStep DEF StepInv
    <2>2. FeaturesKnown'
      BY <1>1, <2>1, FeaturesUnchanged DEF StepInv
    <2>3. LoopsMade' /\ LoopsInStep'
      BY <1>1, <1>3 DEF LoopsMade, LoopsInStep
    <2>4. /\ DataWords' = DataWords /\ ColumnWords' = ColumnWords
          /\ RowWords' = RowWords /\ RoundWords' = RoundWords
      BY <1>1, WordsUnchanged
    <2>5. StreamsLaid'
      BY <1>1, <2>4 DEF StepInv, StreamsLaid, Compiled, G!Present, G!Chunk, grouping, streams
    <2>6. NotStarted'
      BY <1>1 DEF StepInv, NotStarted, streams, program, machine
    <2>7. OutputKept'
      BY <1>1 DEF StepInv, OutputKept, Output, Element, machine
    <2> QED
      BY <2>1, <2>2, <2>3, <2>5, <2>6, <2>7 DEF StepInv
  <1> QED
    BY <1>2, <1>3

\* No step breaks the invariant.
LEMMA NextStep ==
  ASSUME HashSeparates, StepInv, [Next]_vars
  PROVE  StepInv'
  <1>1. CASE GenerateInformation
    BY <1>1, GenerateInformationStep
  <1>2. CASE TransformData
    BY <1>2, TransformDataStep
  <1>3. CASE OptimizationState
    BY <1>3, OptimizationStateStep
  <1>4. CASE GroupIteration
    BY <1>4, GroupIterationStep
  <1>5. CASE BeginRange
    BY <1>5, BeginRangeStep
  <1>6. CASE RangeIteration
    BY <1>6, RangeIterationStep
  <1>7. CASE NextLoop
    BY <1>7, NextLoopStep
  <1>8. CASE Return \/ TailIteration \/ Finish
    BY <1>8, AfterLoopsStep
  <1>9. CASE UNCHANGED vars
    BY <1>9, StutterStep
  <1> QED
    BY <1>1, <1>2, <1>3, <1>4, <1>5, <1>6, <1>7, <1>8, <1>9 DEF Next

\* In every state the cursors have passed the words of exactly the chunks and
\* ranges that the loops have, if chunks of one hash can share a loop.
THEOREM StepsKeepTheInvariant == HashSeparates => (Spec => []StepInv)
  <1> SUFFICES ASSUME HashSeparates PROVE Spec => []StepInv
    OBVIOUS
  <1>1. Init => StepInv
    BY InitStep
  <1>2. StepInv /\ [Next]_vars => StepInv'
    BY NextStep
  <1> QED
    BY <1>1, <1>2, PTL DEF Spec

-----------------------------------------------------------------------------
(***************************************************************************)
(* What the runs check                                                     *)
(***************************************************************************)
\* The loops have passed no more chunks and ranges than there are, and all of
\* them at the end.
LEMMA PassedFacts ==
  ASSUME StepInv, stage \in {"kernel", "tail", "done"}
  PROVE  /\ ChunksPassed \in 0 .. Len(AllChunks)
         /\ RowsPassed \in 0 .. Len(RowChunks)
         /\ RangesBegun \in 0 .. Len(Ranges)
         /\ at > Len(loops) => /\ ChunksPassed = Len(AllChunks)
                               /\ RowsPassed = Len(RowChunks)
                               /\ RangesBegun = Len(Ranges)
  <1>1. /\ G!IInv /\ OrdersKnown /\ FeaturesKnown
        /\ Len(loops) = Len(group_order) + Len(range_order)
        /\ Len(group_order) \in Nat /\ Len(range_order) \in Nat
        /\ Len(Groups) = Len(group_order) /\ Len(RangeLists) = Len(range_order)
        /\ at \in 1 .. Len(loops) + 1 /\ iter \in Nat /\ inner \in Nat
    BY CursorFacts
  <1>2. /\ Groups \in Seq(Seq(Chunk)) /\ GroupChunks = FlattenSeq(Groups)
        /\ GroupChunks \in Seq(Chunk)
        /\ RangeLists \in Seq(Seq(Long)) /\ Ranges = FlattenSeq(RangeLists)
        /\ Ranges \in Seq(Long)
    BY <1>1, GroupsFacts, RangesFacts
  <1>3. /\ RangeChunks \in Seq(Seq(Chunk)) /\ Len(RangeChunks) = Len(Ranges)
        /\ FlattenSeq(RangeChunks) \in Seq(Chunk)
    BY <1>2, RangeChunksFacts
  <1> DEFINE groups == Len(GroupChunks)
             ranges == Len(Ranges)
             rest == Len(FlattenSeq(RangeChunks))
  <1>4. groups \in Nat /\ ranges \in Nat /\ rest \in Nat
    BY <1>2, <1>3
  <1>5. Len(AllChunks) = groups + rest /\ Len(RowChunks) = groups + ranges
    BY <1>1, ChunksFacts
  <1>6. CASE inner > 0
    <2>1. Running("range") /\ iter < loop.count
      BY <1>6 DEF StepInv, LoopsInStep
    <2>2. /\ RangesPassed \in Nat /\ RangesPassed + 1 \in 1 .. Len(Ranges)
          /\ RowsPassed = Len(GroupChunks) + RangesPassed
      BY <2>1, RangePosition
    <2>3. /\ RangesBegun = RangesPassed + 1
          /\ ChunksPassed \in Nat /\ ChunksPassed + 1 \in 1 .. Len(AllChunks)
      BY <1>6, <2>1, InnerPosition
    <2>4. ~(at > Len(loops))
      BY <1>1, <2>1 DEF Running
    <2> HIDE DEF groups, ranges, rest
    <2>5. ChunksPassed \in 0 .. Len(AllChunks) /\ RangesBegun \in 0 .. Len(Ranges)
      BY <1>4, <1>5, <2>2, <2>3 DEF ranges
    <2>6. RowsPassed \in 0 .. Len(RowChunks)
      <3>1. RowsPassed = groups + RangesPassed /\ RangesPassed + 1 \in 1 .. ranges
        BY <2>2 DEF groups, ranges
      <3> QED
        BY <1>4, <1>5, <2>2, <3>1
    <2> QED
      BY <2>4, <2>5, <2>6
  <1>7. CASE ~(inner > 0) /\ at <= Len(group_order)
    <2>1. inner = 0 /\ at \in 1 .. Len(Groups) /\ ~(at > Len(loops))
      BY <1>1, <1>7
    <2>2. RangesPassed = 0 /\ RangesBegun = 0
      BY <1>7 DEF RangesPassed, RangesBegun
    <2>3. ChunksPassed = Before(Groups, at - 1) + iter /\ RowsPassed = ChunksPassed
      BY <1>7 DEF ChunksPassed, RowsPassed
    <2>4. iter <= Len(Groups[at])
      <3>1. at <= Len(loops)
        BY <1>1, <2>1
      <3>2. iter <= loop.count
        BY <3>1 DEF StepInv, LoopsInStep
      <3>3. loops[at].count = Len(Groups[at])
        BY <1>1, <2>1 DEF StepInv, LoopsMade
      <3> QED
        BY <3>2, <3>3 DEF loop
    <2>5. /\ Before(Groups, at - 1) \in Nat /\ Len(Groups[at]) \in Nat
          /\ Before(Groups, at - 1) + Len(Groups[at]) <= groups
      <3>1. at - 1 \in 0 .. Len(Groups) /\ at \in 0 .. Len(Groups) /\ Groups[at] \in Seq(Chunk)
        BY <1>2, <2>1
      <3>2. /\ Before(Groups, at - 1) \in 0 .. Len(FlattenSeq(Groups))
            /\ Before(Groups, at) \in 0 .. Len(FlattenSeq(Groups))
            /\ Before(Groups, at) = Before(Groups, at - 1) + Len(Groups[at])
        BY <1>2, <2>1, <3>1, FlattenFacts
      <3>3. Len(Groups[at]) \in Nat
        BY <3>1
      <3> QED
        BY <1>2, <1>4, <3>2, <3>3, SMTT(30)
    <2> HIDE DEF groups, ranges, rest
    <2>6. ChunksPassed \in 0 .. groups
      <3> DEFINE b == Before(Groups, at - 1)
                 own == Len(Groups[at])
      <3>1. /\ ChunksPassed = b + iter /\ iter <= own /\ b + own <= groups
            /\ b \in Nat /\ own \in Nat /\ groups \in Nat /\ iter \in Nat
        BY <1>1, <1>4, <2>3, <2>4, <2>5
      <3> HIDE DEF b, own
      <3> QED
        BY <3>1
    <2>7. ChunksPassed \in 0 .. Len(AllChunks) /\ RowsPassed \in 0 .. Len(RowChunks)
      BY <1>4, <1>5, <2>3, <2>6
    <2>8. RangesBegun \in 0 .. Len(Ranges)
      BY <1>4, <2>2 DEF ranges
    <2> QED
      BY <2>1, <2>7, <2>8
  <1>8. CASE ~(inner > 0) /\ ~(at <= Len(group_order))
    <2> DEFINE n == at - Len(group_order)
    <2>1. /\ inner = 0 /\ n \in 1 .. Len(RangeLists) + 1 /\ Len(group_order) + n = at
          /\ at - 1 - Len(group_order) = n - 1
          /\ at <= Len(loops) <=> n <= Len(RangeLists)
          /\ at > Len(loops) <=> n = Len(RangeLists) + 1
      BY <1>1, <1>8
    <2> HIDE DEF n
    <2>2. RangesPassed = Before(RangeLists, n - 1) + iter
      BY <1>8, <2>1 DEF RangesPassed
    <2>3. /\ RangesPassed \in 0 .. Len(Ranges)
          /\ at > Len(loops) => RangesPassed = Len(Ranges)
      <3>1. n - 1 \in 0 .. Len(RangeLists) /\ Len(RangeLists) \in Nat
        BY <1>1, <2>1
      <3>2. /\ Before(RangeLists, n - 1) \in 0 .. Len(Ranges)
            /\ Before(RangeLists, Len(RangeLists)) = Len(Ranges)
        BY <1>2, <3>1, FlattenFacts
      <3>3. CASE n <= Len(RangeLists)
        <4>1. n \in 1 .. Len(RangeLists) /\ n \in 0 .. Len(RangeLists)
          BY <2>1, <3>1, <3>3
        <4>2. /\ Before(RangeLists, n) = Before(RangeLists, n - 1) + Len(RangeLists[n])
              /\ Before(RangeLists, n) \in 0 .. Len(Ranges)
          BY <1>2, <4>1, FlattenFacts
        <4>3. iter <= Len(RangeLists[n])
          <5>1. at <= Len(loops)
            BY <2>1, <3>3
          <5>2. iter <= loop.count
            BY <5>1 DEF StepInv, LoopsInStep
          <5>3. loops[Len(group_order) + n].count = Len(RangeLists[n])
            BY <1>1, <4>1 DEF StepInv, LoopsMade
          <5> QED
            BY <2>1, <5>2, <5>3 DEF loop
        <4>4. Len(RangeLists[n]) \in Nat
          <5>1. RangeLists[n] \in Seq(Long)
            BY <1>2, <4>1
          <5> QED
            BY <5>1
        <4>5. ~(at > Len(loops))
          BY <1>1, <2>1, <3>3
        <4> QED
          BY <1>1, <1>4, <2>2, <3>2, <4>2, <4>3, <4>4, <4>5, SMTT(30)
      <3>4. CASE ~(n <= Len(RangeLists))
        <4>1. n = Len(RangeLists) + 1 /\ n - 1 = Len(RangeLists) /\ ~(at <= Len(loops))
          BY <2>1, <3>1, <3>4
        <4>2. iter = 0
          BY <4>1 DEF StepInv, LoopsInStep
        <4>3. RangesPassed = Len(Ranges) + 0
          BY <2>2, <3>2, <4>1, <4>2
        <4> QED
          BY <1>4, <4>3
      <3> QED
        BY <3>3, <3>4
    <2>4. RangesBegun = RangesPassed
      <3>1. RangesBegun = RangesPassed + 0
        BY <2>1 DEF RangesBegun
      <3> QED
        BY <1>4, <2>3, <3>1
    <2>5. RowsPassed = groups + RangesPassed
      BY <1>8 DEF RowsPassed
    <2>6. ChunksPassed = groups + Before(RangeChunks, RangesPassed) - 0
      BY <1>8, <2>1, <2>4 DEF ChunksPassed
    <2>7. /\ Before(RangeChunks, RangesPassed) \in 0 .. rest
          /\ Before(RangeChunks, Len(Ranges)) = rest
      BY <1>3, <2>3, FlattenFacts
    <2> HIDE DEF groups, ranges, rest
    <2>8. /\ RangesPassed \in 0 .. ranges
          /\ at > Len(loops) => RangesPassed = ranges
      BY <2>3 DEF ranges
    <2>9. at > Len(loops) => Before(RangeChunks, RangesPassed) = rest
      BY <2>3, <2>7
    <2>10. /\ RowsPassed \in 0 .. Len(RowChunks)
           /\ at > Len(loops) => RowsPassed = Len(RowChunks)
      BY <1>4, <1>5, <2>5, <2>8
    <2>11. /\ ChunksPassed \in 0 .. Len(AllChunks)
           /\ at > Len(loops) => ChunksPassed = Len(AllChunks)
      BY <1>4, <1>5, <2>6, <2>7, <2>9
    <2> QED
      BY <2>3, <2>4, <2>10, <2>11
  <1> QED
    BY <1>6, <1>7, <1>8

\* The invariant puts every cursor on the words of the chunk at hand.
LEMMA InStep ==
  ASSUME StepInv
  PROVE  StreamsInStep
  <1>1. ASSUME Running("group"), iter < loop.count
        PROVE  LET c == same_feature_map[group_order[at]][iter + 1] IN
               /\ OperandsInPlace(c)
               /\ RowsInPlace(c)
               /\ InPlace(reduction_new, cursor.reduction, ReductionWidth(loop.row), RoundSlots(c))
    <2> DEFINE c == Groups[at][iter + 1]
    <2>1. /\ at \in 1 .. Len(Groups)
          /\ Fits(at, c)
          /\ ChunksPassed \in Nat
          /\ ChunksPassed + 1 \in 1 .. Len(AllChunks) /\ AllChunks[ChunksPassed + 1] = c
          /\ RowsPassed = ChunksPassed
          /\ ChunksPassed + 1 \in 1 .. Len(RowChunks) /\ RowChunks[ChunksPassed + 1] = c
      BY <1>1, GroupPosition
    <2>2. stage = "kernel"
      BY <1>1 DEF Running
    <2>3. /\ cursor = [data |-> Before(DataWords, ChunksPassed),
                        gather |-> Before(ColumnWords, ChunksPassed),
                        scatter |-> Before(RowWords, RowsPassed),
                        reduction |-> Before(RoundWords, ChunksPassed),
                        range |-> RangesBegun]
          /\ G!IInv /\ OrdersKnown /\ FeaturesKnown
          /\ Len(Groups) = Len(group_order)
      BY <2>2, CursorFacts
    <2>4. /\ data_new = FlattenSeq(DataWords) /\ gather_new = FlattenSeq(ColumnWords)
          /\ scatter_new = FlattenSeq(RowWords) /\ reduction_new = FlattenSeq(RoundWords)
      BY <2>2 DEF StepInv, StreamsLaid, Compiled
    <2>5. same_feature_map[group_order[at]] = Groups[at]
      BY <2>1, <2>3 DEF Groups
    <2> HIDE DEF c
    <2>6. (ChunksPassed + 1) - 1 = ChunksPassed
      BY <2>1
    <2>7. /\ InPlace(data_new, cursor.data, Vector, DataSlots(c))
          /\ InPlace(gather_new, cursor.gather, GatherWidth(loop.column), ColumnSlots(c))
          /\ InPlace(reduction_new, cursor.reduction, ReductionWidth(loop.row), RoundSlots(c))
      BY <2>1, <2>3, <2>4, <2>6, WordsAt DEF Fits, loop
    <2>8. InPlace(scatter_new, cursor.scatter, GatherWidth(loop.row), RowSlots(c))
      BY <2>1, <2>3, <2>4, <2>6, RowWordsAt DEF Fits, loop
    <2> QED
      BY <2>5, <2>7, <2>8 DEF c, OperandsInPlace, RowsInPlace
  <1>2. ASSUME Running("range"), iter < loop.count
        PROVE  LET range == same_write_pattern_map[range_order[at - Len(group_order)]][iter + 1] IN
               IF inner = 0
                 THEN InPlace(range_num, cursor.range, 1, <<range[2] - range[1]>>)
                 ELSE OperandsInPlace(range[2] - inner) /\ RowsInPlace(range[1])
    <2> DEFINE r == RangeLists[at - Len(group_order)][iter + 1]
               c == r[2] - inner
    <2>1. /\ at - Len(group_order) \in 1 .. Len(RangeLists)
          /\ RangesPassed \in Nat
          /\ RangesPassed + 1 \in 1 .. Len(Ranges) /\ Ranges[RangesPassed + 1] = r
          /\ RowsPassed = Len(GroupChunks) + RangesPassed
          /\ RowsPassed + 1 \in 1 .. Len(RowChunks) /\ RowChunks[RowsPassed + 1] = r[1]
          /\ r \in Long
          /\ \A d \in r[1] .. r[2] - 1 : Fits(at, d)
      BY <1>2, RangePosition
    <2>2. stage = "kernel"
      BY <1>2 DEF Running
    <2>3. /\ cursor = [data |-> Before(DataWords, ChunksPassed),
                        gather |-> Before(ColumnWords, ChunksPassed),
                        scatter |-> Before(RowWords, RowsPassed),
                        reduction |-> Before(RoundWords, ChunksPassed),
                        range |-> RangesBegun]
          /\ G!IInv /\ OrdersKnown /\ FeaturesKnown
          /\ Len(RangeLists) = Len(range_order)
          /\ inner \in Nat
      BY <2>2, CursorFacts
    <2>4. /\ data_new = FlattenSeq(DataWords) /\ gather_new = FlattenSeq(ColumnWords)
          /\ scatter_new = FlattenSeq(RowWords)
      BY <2>2 DEF StepInv, StreamsLaid, Compiled
    <2>5. same_write_pattern_map[range_order[at - Len(group_order)]]
            = RangeLists[at - Len(group_order)]
      BY <2>1, <2>3 DEF RangeLists
    <2>6. r[1] \in Int /\ r[2] \in Int /\ r[1] + 1 < r[2]
      BY <2>1, GroupingHolds DEF Long, Chunk
    <2> HIDE DEF r
    <2>7. ASSUME inner = 0
          PROVE  InPlace(range_num, cursor.range, 1, <<r[2] - r[1]>>)
      <3> DEFINE p == RangesPassed + 1
      <3>1. range_num = [k \in 1 .. Len(Ranges) |-> Ranges[k][2] - Ranges[k][1]]
        BY <2>2 DEF StepInv, LoopsMade
      <3>2. Ranges \in Seq(Long)
        BY <2>3, RangesFacts
      <3>3. \A k \in 1 .. Len(Ranges) : Ranges[k][2] - Ranges[k][1] \in Int
        <4>1. \A k \in 1 .. Len(Ranges) : Ranges[k][1] \in Chunk /\ Ranges[k][2] \in Int
          BY <3>2, RangeChunksFacts
        <4>2. \A e \in Chunk : e \in Int
          BY GroupingHolds DEF Chunk
        <4> QED
          BY <4>1, <4>2
      <3>4. range_num \in Seq(Int) /\ Len(range_num) = Len(Ranges) /\ Len(Ranges) \in Nat
        BY <3>1, <3>2, <3>3
      <3>5. range_num[p] = r[2] - r[1] /\ p \in 1 .. Len(range_num)
        BY <2>1, <3>1, <3>4
      <3>6. cursor.range = RangesPassed
        <4>1. RangesBegun = RangesPassed + 0
          BY <2>7 DEF RangesBegun
        <4> QED
          BY <2>1, <2>3, <4>1
      <3> HIDE DEF p
      <3>7. SubSeq(range_num, p, p) = <<range_num[p]>>
        <4> DEFINE sub == SubSeq(range_num, p, p)
        <4>1. p \in Nat /\ p \in 1 .. Len(range_num) + 1 /\ p \in p - 1 .. Len(range_num)
              /\ p - p + 1 = 1
          BY <3>4, <3>5
        <4>2. /\ sub \in Seq(Int) /\ Len(sub) = p - p + 1
              /\ \A k \in 1 .. p - p + 1 : sub[k] = range_num[p + k - 1]
          BY <3>4, <4>1, SubSeqProperties
        <4>3. p + 1 - 1 = p /\ 1 \in 1 .. 1
          BY <4>1
        <4>4. sub \in Seq(Int) /\ Len(sub) = 1 /\ sub[1] = range_num[p]
          BY <4>1, <4>2, <4>3
        <4>5. range_num[p] \in Int
          BY <3>4, <3>5
        <4> HIDE DEF sub
        <4>6. sub = <<range_num[p]>>
          BY <4>4, <4>5
        <4> QED
          BY <4>6 DEF sub
      <3>8. RangesPassed + 1 <= Len(range_num) /\ Len(<<r[2] - r[1]>>) = 1
        BY <3>5 DEF p
      <3> QED
        BY <3>5, <3>6, <3>7, <3>8 DEF InPlace, p
    <2>8. ASSUME inner # 0
          PROVE  OperandsInPlace(r[2] - inner) /\ RowsInPlace(r[1])
      <3>1. /\ ChunksPassed \in Nat
            /\ ChunksPassed + 1 \in 1 .. Len(AllChunks) /\ AllChunks[ChunksPassed + 1] = c
            /\ c \in r[1] .. r[2] - 1
        <4>1. inner > 0
          BY <2>3, <2>8
        <4> QED
          BY <1>2, <4>1, InnerPosition DEF r
      <3>2. Fits(at, c) /\ Fits(at, r[1])
        <4>1. r[1] \in r[1] .. r[2] - 1
          BY <2>6
        <4> QED
          BY <2>1, <3>1, <4>1
      <3> HIDE DEF c
      <3>3. (ChunksPassed + 1) - 1 = ChunksPassed
        BY <3>1
      <3>4. /\ InPlace(data_new, cursor.data, Vector, DataSlots(c))
            /\ InPlace(gather_new, cursor.gather, GatherWidth(loop.column), ColumnSlots(c))
        BY <2>3, <2>4, <3>1, <3>2, <3>3, WordsAt DEF Fits, loop
      <3>5. (RowsPassed + 1) - 1 = RowsPassed
        <4>1. Len(GroupChunks) \in Nat
          BY <2>3, GroupsFacts
        <4> QED
          BY <2>1, <4>1
      <3>6. InPlace(scatter_new, cursor.scatter, GatherWidth(loop.row), RowSlots(r[1]))
        BY <2>1, <2>3, <2>4, <3>2, <3>5, RowWordsAt DEF Fits, loop
      <3> QED
        BY <3>4, <3>6 DEF OperandsInPlace, RowsInPlace, c
    <2> QED
      BY <2>5, <2>7, <2>8 DEF r
  <1> QED
    BY <1>1, <1>2 DEF StreamsInStep

\* Streams that were laid out end where their last words do.
LEMMA StreamEnds ==
  ASSUME NEW seqs, AreSeqs(seqs), NEW n \in 0 .. Len(seqs)
  PROVE  /\ Before(seqs, n) \in 0 .. Len(FlattenSeq(seqs))
         /\ Before(seqs, Len(seqs)) = Len(FlattenSeq(seqs))
  <1>1. PICK T : seqs \in Seq(Seq(T))
    BY DEF AreSeqs
  <1> QED
    BY <1>1, FlattenFacts

\* The invariant keeps the cursors inside the streams, and at the end of them
\* when the loops have ended.
LEMMA CursorsInside ==
  ASSUME StepInv, stage \in {"kernel", "tail", "done"}
  PROVE  /\ cursor.data \in 0 .. Len(data_new)
         /\ cursor.gather \in 0 .. Len(gather_new)
         /\ cursor.scatter \in 0 .. Len(scatter_new)
         /\ cursor.reduction \in 0 .. Len(reduction_new)
         /\ cursor.range \in 0 .. Len(range_num)
         /\ at > Len(loops) =>
              cursor = [data |-> Len(data_new), gather |-> Len(gather_new),
                        scatter |-> Len(scatter_new), reduction |-> Len(reduction_new),
                        range |-> Len(range_num)]
  <1>1. /\ cursor = [data |-> Before(DataWords, ChunksPassed),
                      gather |-> Before(ColumnWords, ChunksPassed),
                      scatter |-> Before(RowWords, RowsPassed),
                      reduction |-> Before(RoundWords, ChunksPassed),
                      range |-> RangesBegun]
        /\ G!IInv /\ OrdersKnown /\ FeaturesKnown
    BY CursorFacts
  <1>2. /\ data_new = FlattenSeq(DataWords) /\ gather_new = FlattenSeq(ColumnWords)
        /\ scatter_new = FlattenSeq(RowWords) /\ reduction_new = FlattenSeq(RoundWords)
    BY DEF StepInv, StreamsLaid, Compiled
  <1>3. Len(range_num) = Len(Ranges)
    <2>1. range_num = [n \in 1 .. Len(Ranges) |-> Ranges[n][2] - Ranges[n][1]]
      BY DEF StepInv, LoopsMade
    <2>2. Len(Ranges) \in Nat
      BY <1>1, RangesFacts
    <2> QED
      BY <2>1, <2>2
  <1>4. /\ AreSeqs(DataWords) /\ Len(DataWords) = Len(AllChunks)
        /\ AreSeqs(ColumnWords) /\ Len(ColumnWords) = Len(AllChunks)
        /\ AreSeqs(RowWords) /\ Len(RowWords) = Len(RowChunks)
        /\ AreSeqs(RoundWords) /\ Len(RoundWords) = Len(AllChunks)
    BY <1>1, WordsFacts
  <1>5. /\ ChunksPassed \in 0 .. Len(AllChunks)
        /\ RowsPassed \in 0 .. Len(RowChunks)
        /\ RangesBegun \in 0 .. Len(Ranges)
    BY PassedFacts
  <1>6. /\ Before(DataWords, ChunksPassed) \in 0 .. Len(data_new)
        /\ Before(ColumnWords, ChunksPassed) \in 0 .. Len(gather_new)
        /\ Before(RowWords, RowsPassed) \in 0 .. Len(scatter_new)
        /\ Before(RoundWords, ChunksPassed) \in 0 .. Len(reduction_new)
    BY <1>2, <1>4, <1>5, StreamEnds
  <1>7. ASSUME at > Len(loops)
        PROVE  cursor = [data |-> Len(data_new), gather |-> Len(gather_new),
                         scatter |-> Len(scatter_new), reduction |-> Len(reduction_new),
                         range |-> Len(range_num)]
    <2>1. /\ ChunksPassed = Len(AllChunks) /\ RowsPassed = Len(RowChunks)
          /\ RangesBegun = Len(Ranges)
      BY <1>7, PassedFacts
    <2>2. /\ Before(DataWords, ChunksPassed) = Len(data_new)
          /\ Before(ColumnWords, ChunksPassed) = Len(gather_new)
          /\ Before(RowWords, RowsPassed) = Len(scatter_new)
          /\ Before(RoundWords, ChunksPassed) = Len(reduction_new)
      BY <1>2, <1>4, <1>5, <2>1, StreamEnds
    <2> QED
      BY <1>1, <1>3, <2>1, <2>2
  <1> QED
    BY <1>1, <1>3, <1>5, <1>6, <1>7

\* When the kernel has returned its cursors are at the end of the streams.
LEMMA Consumed ==
  ASSUME StepInv
  PROVE  StreamsConsumed
  <1> SUFFICES ASSUME stage \in {"tail", "done"}
               PROVE  cursor = [data |-> Len(data_new), gather |-> Len(gather_new),
                                scatter |-> Len(scatter_new), reduction |-> Len(reduction_new),
                                range |-> Len(range_num)]
    BY DEF StreamsConsumed
  <1>1. at > Len(loops)
    BY DEF StepInv, LoopsInStep
  <1> QED
    BY <1>1, CursorsInside

\* The type invariant of the run.
LEMMA Typed ==
  ASSUME StepInv
  PROVE  TypeOK
  <1>1. /\ stage \in {"generate", "optimize", "kernel", "tail", "done", "exit"}
        /\ DOMAIN y = Output
        /\ element \in NumChunks * Vector .. Cardinality(Element)
    BY DEF StepInv, OutputKept
  <1>2. CASE stage \in {"generate", "optimize", "exit"}
    <2>1. /\ at = 1 /\ iter = 0 /\ inner = 0
          /\ cursor = [data |-> 0, gather |-> 0, scatter |-> 0, reduction |-> 0, range |-> 0]
          /\ Len(data_new) \in Nat /\ Len(gather_new) \in Nat
          /\ Len(scatter_new) \in Nat /\ Len(reduction_new) \in Nat
          /\ Len(loops) \in Nat /\ Len(range_num) \in Nat
          /\ \A n \in 1 .. Len(loops) : loops[n].count \in Nat
      BY <1>2 DEF StepInv, NotStarted
    <2>2. at \in 1 .. Len(loops) + 1
      BY <2>1
    <2>3. iter \in 0 .. (IF at <= Len(loops) THEN loop.count ELSE 0)
      <3>1. CASE at <= Len(loops)
        <4>1. 1 \in 1 .. Len(loops)
          BY <2>1, <3>1
        <4>2. loop.count \in Nat
          BY <2>1, <4>1 DEF loop
        <4> QED
          BY <2>1, <3>1, <4>2
      <3>2. CASE ~(at <= Len(loops))
        BY <2>1, <3>2
      <3> QED
        BY <3>1, <3>2
    <2>4. inner \in 0 .. NumChunks
      BY <2>1, GroupingHolds
    <2>5. /\ cursor.data \in 0 .. Len(data_new)
          /\ cursor.gather \in 0 .. Len(gather_new)
          /\ cursor.scatter \in 0 .. Len(scatter_new)
          /\ cursor.reduction \in 0 .. Len(reduction_new)
          /\ cursor.range \in 0 .. Len(range_num)
      BY <2>1
    <2> QED
      BY <1>1, <2>2, <2>3, <2>4, <2>5 DEF TypeOK
  <1>3. CASE stage \in {"kernel", "tail", "done"}
    <2>1. at \in 1 .. Len(loops) + 1 /\ iter \in Nat /\ inner \in Nat
      BY <1>3, CursorFacts
    <2>2. iter \in 0 .. (IF at <= Len(loops) THEN loop.count ELSE 0)
      <3>1. CASE at <= Len(loops)
        <4>1. iter <= loop.count
          BY <1>3, <3>1 DEF StepInv, LoopsInStep
        <4>2. loop.count \in Nat
          <5>1. /\ G!IInv /\ OrdersKnown
                /\ Len(loops) = Len(group_order) + Len(range_order)
                /\ Len(group_order) \in Nat /\ Len(range_order) \in Nat
                /\ Len(Groups) = Len(group_order) /\ Len(RangeLists) = Len(range_order)
            BY <1>3, CursorFacts
          <5>2. CASE at <= Len(group_order)
            <6>1. at \in 1 .. Len(Groups)
              BY <2>1, <5>1, <5>2
            <6>2. Groups[at] \in Seq(Chunk) /\ loops[at].count = Len(Groups[at])
              BY <1>3, <5>1, <6>1, GroupsFacts DEF StepInv, LoopsMade
            <6> QED
              BY <6>2 DEF loop
          <5>3. CASE ~(at <= Len(group_order))
            <6> DEFINE n == at - Len(group_order)
            <6>1. n \in 1 .. Len(RangeLists) /\ Len(group_order) + n = at
              BY <2>1, <3>1, <5>1, <5>3
            <6> HIDE DEF n
            <6>2. RangeLists[n] \in Seq(Long)
              BY <5>1, <6>1, RangesFacts
            <6>3. loops[Len(group_order) + n].count = Len(RangeLists[n])
              BY <1>3, <5>1, <6>1 DEF StepInv, LoopsMade
            <6> QED
              BY <6>1, <6>2, <6>3 DEF loop
          <5> QED
            BY <5>2, <5>3
        <4> QED
          BY <2>1, <3>1, <4>1, <4>2
      <3>2. CASE ~(at <= Len(loops))
        <4>1. iter = 0
          BY <1>3, <3>2 DEF StepInv, LoopsInStep
        <4> QED
          BY <3>2, <4>1
      <3> QED
        BY <3>1, <3>2
    <2>3. inner \in 0 .. NumChunks
      <3>1. CASE inner = 0
        BY <3>1, GroupingHolds
      <3>2. CASE inner # 0
        <4> DEFINE r == RangeLists[at - Len(group_order)][iter + 1]
        <4>1. inner > 0
          BY <2>1, <3>2
        <4>2. Running("range") /\ iter < loop.count /\ inner <= r[2] - r[1]
          BY <1>3, <4>1 DEF StepInv, LoopsInStep
        <4>3. r \in Long
          BY <4>2, RangePosition
        <4> HIDE DEF r
        <4>4. r[1] \in Nat /\ r[2] \in Nat /\ r[2] <= NumChunks
          BY <4>3, GroupingHolds DEF Long, Chunk
        <4> QED
          BY <2>1, <4>2, <4>4, GroupingHolds
      <3> QED
        BY <3>1, <3>2
    <2> QED
      BY <1>1, <1>3, <2>1, <2>2, <2>3, CursorsInside DEF TypeOK
  <1> QED
    BY <1>1, <1>2, <1>3

\* At every iteration of every loop, in whatever order the two maps list their
\* keys, the cursors of the kernel stand on the words of the chunk or range that
\* the iteration is for, and it reads exactly those.
THEOREM LoopsReadTheirChunks == HashSeparates => (Spec => []StreamsInStep)
  <1>1. StepInv => StreamsInStep
    BY InStep
  <1> QED
    BY <1>1, StepsKeepTheInvariant, PTL

\* When the kernel returns it has read every word that transform_data laid out.
THEOREM KernelReadsEveryWord == HashSeparates => (Spec => []StreamsConsumed)
  <1>1. StepInv => StreamsConsumed
    BY Consumed
  <1> QED
    BY <1>1, StepsKeepTheInvariant, PTL

\* No cursor ever leaves its stream, no counter its loop, and the scalar loop
\* at the end stays inside the arrays.
THEOREM KernelStaysInside == HashSeparates => (Spec => []TypeOK)
  <1>1. StepInv => TypeOK
    BY Typed
  <1> QED
    BY <1>1, StepsKeepTheInvariant, PTL
=============================================================================
