------------------------------ MODULE Grouping ------------------------------
(***************************************************************************)
(* How DynVec sorts the chunks of the iteration space into groups          *)
(* (tools_set/tools_set.cpp).  A chunk is VECTOR consecutive iterations.   *)
(*                                                                         *)
(*   1. combin_same_feature_together appends every chunk, in order, to the *)
(*      index vector of its feature hash.                                  *)
(*   2. combin_same_write_pattern_together visits every key of that map    *)
(*      once, in the unspecified order of a std::unordered_map, and        *)
(*      combin_same_write_pattern_together_elem moves maximal runs of      *)
(*      consecutive chunks that write one and the same element of the      *)
(*      output out of the index vector into a list of ranges.  The kernel  *)
(*      then reads and writes that element once per range.                 *)
(*                                                                         *)
(* The inner loop of the second step is modelled iteration by iteration.   *)
(* Its two passes (measure the runs into range_vec, then distribute them)  *)
(* are one action per run here: the second pass reads nothing but          *)
(* range_vec and the index vector, which neither pass changes.             *)
(* Sequences start at 1 where the C++ vectors start at 0; chunk numbers    *)
(* start at 0 in both.                                                     *)
(***************************************************************************)
EXTENDS Integers, Sequences, FiniteSets

CONSTANTS
  NumChunks,  \* table_column_num: number of whole vectors to compile
  Key,        \* the feature hashes
  Local,      \* the locations of the output array
  NoKey       \* the loop over the map is not inside a key

ASSUME GroupingAssumption == NumChunks \in Nat /\ NoKey \notin Key

Chunk == 0 .. NumChunks - 1

OrderType == {"DisOrder", "IncContinue", "OrderEquel"}

VARIABLES
  hash_info,              \* hash_info_ptr: the feature hash of each chunk
  order_type,             \* ScatterInfo::order_type_ of each chunk
  write_local,            \* ScatterInfo::data_index_[0] of each chunk
  scatter_num,            \* number of scatter statements, 0 or 1
  pc,                     \* which loop is running
  i,                      \* cursor of combin_same_feature_together
  same_feature_map,       \* hash -> index vector; an absent key is <<>>
  same_write_pattern_map, \* hash -> list of <<begin, end>>; absent is <<>>
  todo,                   \* keys the range-for has yet to visit
  key,                    \* the key being visited
  begin,                  \* first position of the run being measured
  j,                      \* first position after it
  new_index_vec           \* chunks of key that stay on their own

input == <<hash_info, order_type, write_local, scatter_num>>
scan == <<todo, key, begin, j, new_index_vec>>
vars == <<input, pc, i, same_feature_map, same_write_pattern_map, scan>>

(***************************************************************************)
(* The feature hash covers the scatter mask, whose high half is the order  *)
(* type, so one key has one order type.  A collision of the hash could     *)
(* break this; MCFeatureHash shows that those that exist do not.           *)
(***************************************************************************)
Init ==
  /\ hash_info \in [Chunk -> Key]
  /\ \E order \in [Key -> OrderType] :
       order_type = [c \in Chunk |-> order[hash_info[c]]]
  /\ write_local \in [Chunk -> Local]
  /\ scatter_num \in {0, 1}
  /\ pc = "feature"
  /\ i = 0
  /\ same_feature_map = [k \in Key |-> <<>>]
  /\ same_write_pattern_map = [k \in Key |-> <<>>]
  /\ todo = {}
  /\ key = NoKey
  /\ begin = 1
  /\ j = 1
  /\ new_index_vec = <<>>

-----------------------------------------------------------------------------
(***************************************************************************)
(* combin_same_feature_together                                            *)
(***************************************************************************)
\* A slip: the chunk is put in front of the index vector.
PushFront ==
  /\ pc = "feature"
  /\ i < NumChunks
  /\ same_feature_map' =
       [same_feature_map EXCEPT ![hash_info[i]] = <<i>> \o @]
  /\ i' = i + 1
  /\ UNCHANGED <<input, pc, same_write_pattern_map, scan>>

CombinSameFeature ==
  /\ pc = "feature"
  /\ i < NumChunks
  /\ same_feature_map' =
       [same_feature_map EXCEPT ![hash_info[i]] = Append(@, i)]
  /\ i' = i + 1
  /\ UNCHANGED <<input, pc, same_write_pattern_map, scan>>

\* The call of combin_same_write_pattern_together, made when there is a
\* scatter statement.
Present == {hash_info[c] : c \in Chunk}

CombinSameWritePattern ==
  /\ pc = "feature"
  /\ i = NumChunks
  /\ IF scatter_num = 1
       THEN pc' = "keys" /\ todo' = Present
       ELSE pc' = "done" /\ todo' = todo
  /\ UNCHANGED <<input, i, same_feature_map, same_write_pattern_map,
                 key, begin, j, new_index_vec>>

-----------------------------------------------------------------------------
(***************************************************************************)
(* combin_same_write_pattern_together_elem, for one key                    *)
(***************************************************************************)
index_vec == same_feature_map[key]

\* The order type is that of the first chunk of the group.
LeaderOrder(k) == order_type[same_feature_map[k][1]]

\* A group whose chunks do not each write one single element is left alone.
VisitOther(k) ==
  /\ pc = "keys"
  /\ k \in todo
  /\ LeaderOrder(k) # "OrderEquel"
  /\ todo' = todo \ {k}
  /\ UNCHANGED <<input, pc, i, same_feature_map, same_write_pattern_map,
                 key, begin, j, new_index_vec>>

VisitEqual(k) ==
  /\ pc = "keys"
  /\ k \in todo
  /\ LeaderOrder(k) = "OrderEquel"
  /\ pc' = "run"
  /\ key' = k
  /\ begin' = 1
  /\ j' = 2
  /\ new_index_vec' = <<>>
  /\ UNCHANGED <<input, i, same_feature_map, same_write_pattern_map, todo>>

\* Slips: only the location is compared; only the position is compared; the
\* position is compared with the head of the run (cur_index never advances).
SameLocalOnly ==
  /\ j <= Len(index_vec)
  /\ write_local[index_vec[j]] = write_local[index_vec[begin]]

AdjacentOnly ==
  /\ j <= Len(index_vec)
  /\ index_vec[j] = index_vec[j - 1] + 1

AdjacentToHead ==
  /\ j <= Len(index_vec)
  /\ write_local[index_vec[j]] = write_local[index_vec[begin]]
  /\ index_vec[j] = index_vec[begin] + 1

\* The chunk at j continues the run: it writes the same location and follows
\* the last chunk of the run (cur_index) without a gap.
ContinuesRun ==
  /\ j <= Len(index_vec)
  /\ write_local[index_vec[j]] = write_local[index_vec[begin]]
  /\ index_vec[j] = index_vec[j - 1] + 1

ExtendRun ==
  /\ pc = "run"
  /\ begin <= Len(index_vec)
  /\ ContinuesRun
  /\ j' = j + 1
  /\ UNCHANGED <<input, pc, i, same_feature_map, same_write_pattern_map,
                 todo, key, begin, new_index_vec>>

\* Slips: the end of the range is its last chunk; the end is one too far.
RangeToLast == <<index_vec[begin], index_vec[j - 1]>>
RangeTooFar == <<index_vec[begin], index_vec[j - 1] + 2>>

\* The pair (first chunk, last chunk + 1).
RangeOfRun == <<index_vec[begin], index_vec[j - 1] + 1>>

\* A run of one chunk stays in the group, a longer one becomes a range.
CloseRun ==
  /\ pc = "run"
  /\ begin <= Len(index_vec)
  /\ ~ContinuesRun
  /\ IF j - begin = 1
       THEN /\ new_index_vec' = Append(new_index_vec, index_vec[begin])
            /\ UNCHANGED same_write_pattern_map
       ELSE /\ same_write_pattern_map' =
                 [same_write_pattern_map EXCEPT ![key] = Append(@, RangeOfRun)]
            /\ UNCHANGED new_index_vec
  /\ begin' = j
  /\ j' = j + 1
  /\ UNCHANGED <<input, pc, i, same_feature_map, todo, key>>

\* The index vector becomes new_index_vec.  A key whose vector is now empty
\* stays in same_feature_map: erase_vec is filled and never used.
FinishKey ==
  /\ pc = "run"
  /\ begin > Len(index_vec)
  /\ same_feature_map' = [same_feature_map EXCEPT ![key] = new_index_vec]
  /\ todo' = todo \ {key}
  /\ pc' = "keys"
  /\ key' = NoKey
  /\ UNCHANGED <<input, i, same_write_pattern_map, begin, j, new_index_vec>>

Finish ==
  /\ pc = "keys"
  /\ todo = {}
  /\ pc' = "done"
  /\ UNCHANGED <<input, i, same_feature_map, same_write_pattern_map, scan>>

Next ==
  \/ CombinSameFeature
  \/ CombinSameWritePattern
  \/ \E k \in todo : VisitOther(k) \/ VisitEqual(k)
  \/ ExtendRun
  \/ CloseRun
  \/ FinishKey
  \/ Finish

Spec == Init /\ [][Next]_vars

-----------------------------------------------------------------------------
(***************************************************************************)
(* Properties                                                              *)
(***************************************************************************)
\* The values the variables range over: every index and every end of a range
\* stays inside the table of chunks.
TypeOK ==
  /\ hash_info \in [Chunk -> Key]
  /\ order_type \in [Chunk -> OrderType]
  /\ write_local \in [Chunk -> Local]
  /\ scatter_num \in {0, 1}
  /\ pc \in {"feature", "keys", "run", "done"}
  /\ i \in 0 .. NumChunks
  /\ same_feature_map \in [Key -> Seq(Chunk)]
  /\ same_write_pattern_map \in [Key -> Seq(Chunk \X (1 .. NumChunks))]
  /\ todo \in SUBSET Key
  /\ key \in Key \cup {NoKey}
  /\ begin \in Nat
  /\ j \in Nat
  /\ new_index_vec \in Seq(Chunk)

Increasing(s) == \A p, q \in 1 .. Len(s) : p < q => s[p] < s[q]

InGroup(k, c) ==
  \E p \in 1 .. Len(same_feature_map[k]) : same_feature_map[k][p] = c

InRange(k, c) ==
  \E r \in 1 .. Len(same_write_pattern_map[k]) :
    /\ same_write_pattern_map[k][r][1] <= c
    /\ c < same_write_pattern_map[k][r][2]

RangesApart(k) ==
  \A r, s \in 1 .. Len(same_write_pattern_map[k]) :
    r < s => same_write_pattern_map[k][r][2] <= same_write_pattern_map[k][s][1]

ExactlyOneOf(A, B) == (A \/ B) /\ ~(A /\ B)

Placed(k) ==
  /\ RangesApart(k)
  /\ \A c \in Chunk :
       IF hash_info[c] = k
         THEN ExactlyOneOf(InGroup(k, c), InRange(k, c))
         ELSE ~InGroup(k, c) /\ ~InRange(k, c)

\* Every index vector lists its chunks in increasing order, without a
\* repetition, at every moment: the run detection of
\* combin_same_write_pattern_together_elem (cur_index + 1) relies on it.
GroupsIncreasing == \A k \in Key : Increasing(same_feature_map[k])

\* When the functions return, every chunk is in exactly one place: in the
\* index vector of its own hash or in exactly one range of that hash.  A chunk
\* in two places is added to the output twice, a chunk in none is lost.
ExactlyOnce == pc = "done" => \A k \in Key : Placed(k)

\* A range has at least two chunks, all of its key, all writing the location
\* that its first chunk writes, and only a group of order OrderEquel has
\* ranges: OptimizationInnerReducePass reads that location once per range and
\* reduces the whole vector into it.
RangesAreRuns ==
  \A k \in Key : \A r \in 1 .. Len(same_write_pattern_map[k]) :
    LET range == same_write_pattern_map[k][r] IN
      /\ range[1] + 1 < range[2]
      /\ \A c \in range[1] .. range[2] - 1 :
           /\ hash_info[c] = k
           /\ order_type[c] = "OrderEquel"
           /\ write_local[c] = write_local[range[1]]

(***************************************************************************)
(* What the two functions compute, without the scan: the ranges are the    *)
(* maximal intervals of two or more chunks with one hash and one location. *)
(***************************************************************************)
OneRun(k, lo, hi) ==
  \A c \in lo .. hi - 1 : hash_info[c] = k /\ write_local[c] = write_local[lo]

MaximalRun(k, lo, hi) ==
  /\ OneRun(k, lo, hi)
  /\ lo > 0 => ~OneRun(k, lo - 1, hi)
  /\ hi < NumChunks => ~OneRun(k, lo, hi + 1)

ReferenceRanges(k) ==
  {r \in Chunk \X (1 .. NumChunks) :
     /\ scatter_num = 1
     /\ r[1] + 1 < r[2]
     /\ order_type[r[1]] = "OrderEquel"
     /\ MaximalRun(k, r[1], r[2])}

ReferenceGroup(k) ==
  {c \in Chunk : /\ hash_info[c] = k
                 /\ \A r \in ReferenceRanges(k) : c \notin r[1] .. r[2] - 1}

\* The result is the reference, whatever order the map was iterated in: runs
\* are not cut short, and nothing else leaves the index vectors.
MatchesReference ==
  pc = "done" =>
    \A k \in Key :
      /\ {same_feature_map[k][p] : p \in 1 .. Len(same_feature_map[k])}
           = ReferenceGroup(k)
      /\ {same_write_pattern_map[k][r] : r \in 1 .. Len(same_write_pattern_map[k])}
           = ReferenceRanges(k)

-----------------------------------------------------------------------------
(***************************************************************************)
(* The inductive invariant behind ExactlyOnce and RangesAreRuns            *)
(***************************************************************************)
KeyFixesOrder ==
  \A c, d \in Chunk : hash_info[c] = hash_info[d] => order_type[c] = order_type[d]

\* While chunks are being appended, a group holds the chunks of its key so far.
Appending ==
  pc = "feature" =>
    /\ todo = {}
    /\ \A k \in Key :
         /\ same_write_pattern_map[k] = <<>>
         /\ \A c \in Chunk : InGroup(k, c) <=> c < i /\ hash_info[c] = k

\* A key that is still to be visited holds all its chunks in its group.
Unvisited(k) ==
  /\ same_write_pattern_map[k] = <<>>
  /\ \A c \in Chunk : InGroup(k, c) <=> hash_info[c] = k

KeysOutsideRun ==
  /\ pc \in {"keys", "run"} => i = NumChunks /\ todo \subseteq Present
  /\ pc # "feature" =>
       \A k \in Key \ {key} : IF k \in todo THEN Unvisited(k) ELSE Placed(k)
  /\ pc = "done" => todo = {}

\* c has left the part of the index vector that is still to be scanned.
Scanned(c) == \E p \in 1 .. Len(index_vec) : p < begin /\ index_vec[p] = c

Kept(c) == \E q \in 1 .. Len(new_index_vec) : new_index_vec[q] = c

\* The positions begin .. j - 1 are one run.
RunSoFar ==
  /\ begin \in 1 .. Len(index_vec) + 1
  /\ begin <= Len(index_vec) =>
       /\ begin < j
       /\ j <= Len(index_vec) + 1
       /\ \A p \in begin .. j - 1 :
            /\ index_vec[p] = index_vec[begin] + (p - begin)
            /\ write_local[index_vec[p]] = write_local[index_vec[begin]]

\* The index vector being scanned still holds all chunks of its key.
KeyIntact ==
  /\ \A c \in Chunk : InGroup(key, c) <=> hash_info[c] = key
  /\ \A c \in Chunk : hash_info[c] = key => order_type[c] = "OrderEquel"

\* The scanned chunks, and no others, are each in new_index_vec or in a range.
ScannedOnce ==
  /\ Increasing(new_index_vec)
  /\ RangesApart(key)
  /\ \A c \in Chunk : Scanned(c) => ExactlyOneOf(Kept(c), InRange(key, c))
  /\ \A c \in Chunk : Kept(c) \/ InRange(key, c) => Scanned(c)

InsideRun ==
  IF pc = "run" THEN key \in todo /\ RunSoFar /\ KeyIntact /\ ScannedOnce
                ELSE key = NoKey

IInv ==
  /\ TypeOK
  /\ KeyFixesOrder
  /\ GroupsIncreasing
  /\ RangesAreRuns
  /\ Appending
  /\ KeysOutsideRun
  /\ InsideRun
-----------------------------------------------------------------------------
(***************************************************************************)
(* The inductive invariant behind MatchesReference, beside IInv: runs are  *)
(* not cut short on either side.                                           *)
(***************************************************************************)
\* No chunk before lo, and none from hi on, belongs to the run next to it.
Starts(k, lo) ==
  lo > 0 => ~(hash_info[lo - 1] = k /\ write_local[lo - 1] = write_local[lo])
Ends(k, hi) ==
  hi < NumChunks => ~(hash_info[hi] = k /\ write_local[hi] = write_local[hi - 1])

Alone(k, c) == Starts(k, c) /\ Ends(k, c + 1)

RangesWhole ==
  \A k \in Key : \A r \in 1 .. Len(same_write_pattern_map[k]) :
    /\ Starts(k, same_write_pattern_map[k][r][1])
    /\ Ends(k, same_write_pattern_map[k][r][2])

\* Without a scatter statement no key is visited.
OnlyScatterRuns ==
  scatter_num # 1 =>
    /\ pc \in {"feature", "done"}
    /\ \A k \in Key : same_write_pattern_map[k] = <<>>

\* A chunk left in the group of a visited key is a run of one chunk.
VisitedAlone ==
  pc # "feature" /\ scatter_num = 1 =>
    \A k \in Key \ (todo \cup {key}), c \in Chunk :
      InGroup(k, c) /\ order_type[c] = "OrderEquel" => Alone(k, c)

RunAlone ==
  pc = "run" =>
    /\ begin <= Len(index_vec) => Starts(key, index_vec[begin])
    /\ \A c \in Chunk : Kept(c) => Alone(key, c)

WholeInv == RangesWhole /\ OnlyScatterRuns /\ VisitedAlone /\ RunAlone
=============================================================================
