------------------------------- MODULE DynVec -------------------------------
(***************************************************************************)
(* One call of IntelligentUnroll::compiler and one run of the kernel it    *)
(* returns, for y[row_ptr[i]] += data[i] * x[column_ptr[i]] (app/spmv.cpp). *)
(*                                                                         *)
(*   generate   generate_information hashes the chunks and sorts them into *)
(*              groups and ranges (module Grouping)                        *)
(*   transform  transform_data copies data and index words into streams,   *)
(*              in the order in which it meets the chunks in the two maps  *)
(*   optimize   optimization_state turns every entry of the two maps into  *)
(*              a loop, from the feature of the first chunk of the entry   *)
(*   kernel     the loops run; they read the streams through cursors that  *)
(*              only ever move forward                                     *)
(*   tail       spmv_dynvec adds the elements that fill no whole vector    *)
(*                                                                         *)
(* Nothing but the order of iteration and the widths of Kernel ties a word *)
(* of a stream to the loop iteration that should read it.  The order of a  *)
(* std::unordered_map is unspecified, but it does not change while the map *)
(* is not changed, as between transform and optimize.                      *)
(***************************************************************************)
EXTENDS Kernel

CONSTANTS
  NumChunks,      \* table_column_num: data_num / Vector
  RowShapes,      \* the row index chunks that may occur, in [Lane -> Nat]
  ColumnShapes,   \* the column index chunks
  TailRow,        \* row index of the elements after the last whole vector
  TailColumn,     \* column index of those
  DataType,       \* of data, x and y: "double" or "float"
  Key,            \* feature hashes
  NoKey,
  HashOf(_)       \* get_feature_hash of the words of one chunk

ASSUME DynVecAssumption ==
  /\ NumChunks \in Nat \ {0}
  /\ RowShapes \subseteq [Lane -> Nat]
  /\ ColumnShapes \subseteq [Lane -> Nat]
  /\ DataType \in {"double", "float"}
  /\ \E n \in 0 .. Vector - 1 : TailRow \in [0 .. n - 1 -> Nat]
  /\ TailColumn \in [DOMAIN TailRow -> Nat]
  /\ NoKey \notin Key

Chunk == 0 .. NumChunks - 1
Element == 0 .. NumChunks * Vector + Cardinality(DOMAIN TailRow) - 1
Output == UNION {{s[l] : l \in DOMAIN s} : s \in RowShapes \cup {TailRow}}

VARIABLES
  row_ptr, column_ptr, y,
  stage,
  \* generate_information (the last two lines are those of module Grouping)
  gather_info, scatter_info, reduction_info,  \* gather_map[column_ptr] ..
  hash_info, order_type, write_local, scatter_num, pc, i,
  same_feature_map, same_write_pattern_map, todo, key, begin, j, new_index_vec,
  \* transform_data
  group_order, range_order,            \* the keys as the two maps list them
  data_new, gather_new, scatter_new, reduction_new,  \* the streams
  \* optimization_state
  loops, range_num,
  \* the running kernel
  at,       \* the loop that runs
  iter,     \* its iteration
  inner,    \* iterations left of the inner loop of a range
  acc,      \* reduce_var: the lanes summed up over the range
  element,  \* i of spmv_dynvec
  cursor    \* how many words of each stream have been read

arrays == <<row_ptr, column_ptr, gather_info, scatter_info, reduction_info>>
grouping == <<hash_info, order_type, write_local, scatter_num, pc, i, same_feature_map,
              same_write_pattern_map, todo, key, begin, j, new_index_vec>>
streams == <<group_order, range_order, data_new, gather_new, scatter_new, reduction_new>>
program == <<loops, range_num>>
machine == <<at, iter, inner, acc, element, cursor>>
vars == <<arrays, y, stage, grouping, streams, program, machine>>

G == INSTANCE Grouping WITH Local <- Output

-----------------------------------------------------------------------------
(***************************************************************************)
(* generate_information                                                    *)
(***************************************************************************)
\* The words of a chunk: gather_map holds column_ptr and, because the output
\* is read too, row_ptr; scatter_map and reduction_map hold row_ptr.
Words(gather, scatter, reduction) ==
  <<FeatureWord(gather), FeatureWord(scatter), FeatureWord(scatter), FeatureWord(reduction)>>

NoWord == -1

\* The feature and the hash of a chunk with row indices r and column indices c.
WordsOfShapes(r, c) == Words(GatherInfo(c), ScatterInfo(r), ReductionInfo(r))
HashOfShapes(r, c) == HashOf(WordsOfShapes(r, c))

ASSUME HashAssumption ==
  \A r \in RowShapes, c \in ColumnShapes : HashOfShapes(r, c) \in Key

\* What combin_same_feature_together takes for granted: chunks of one hash can
\* share a loop.  It is not assumed; the real hash of eight lanes breaks it.
HashSeparates ==
  \A r, s \in RowShapes, c, d \in ColumnShapes :
    HashOfShapes(r, c) = HashOfShapes(s, d) =>
      /\ ColumnCode(GatherInfo(c)) = ColumnCode(GatherInfo(d))
      /\ RowCode(ScatterInfo(r), ReductionInfo(r)) = RowCode(ScatterInfo(s), ReductionInfo(s))

\* The hash keeps the words of the chunks apart, as an ideal hash would.
NoCollision ==
  \A r, s \in RowShapes, c, d \in ColumnShapes :
    HashOfShapes(r, c) = HashOfShapes(s, d) => WordsOfShapes(r, c) = WordsOfShapes(s, d)

\* generate_info has run for every chunk (it exits when one is unsupported) and
\* get_feature_hash has hashed the result.
Init ==
  /\ \E rows \in [Chunk -> RowShapes], columns \in [Chunk -> ColumnShapes] :
       /\ row_ptr = [e \in Element |->
            IF e < NumChunks * Vector THEN rows[e \div Vector][e % Vector]
                                      ELSE TailRow[e - NumChunks * Vector]]
       /\ column_ptr = [e \in Element |->
            IF e < NumChunks * Vector THEN columns[e \div Vector][e % Vector]
                                      ELSE TailColumn[e - NumChunks * Vector]]
       /\ gather_info = [c \in Chunk |-> GatherInfo(columns[c])]
       /\ scatter_info = [c \in Chunk |-> ScatterInfo(rows[c])]
       /\ reduction_info = [c \in Chunk |-> ReductionInfo(rows[c])]
       /\ stage = IF \E c \in Chunk : ReductionUnsupported(rows[c])
                    THEN "exit" ELSE "generate"
  /\ hash_info = [c \in Chunk |->
       HashOf(Words(gather_info[c], scatter_info[c], reduction_info[c]))]
  /\ order_type = [c \in Chunk |-> scatter_info[c].order]
  /\ write_local = [c \in Chunk |-> scatter_info[c].index[1]]
  /\ scatter_num = 1
  /\ pc = "feature" /\ i = 0
  /\ same_feature_map = [k \in Key |-> <<>>]
  /\ same_write_pattern_map = [k \in Key |-> <<>>]
  /\ todo = {} /\ key = NoKey /\ begin = 1 /\ j = 1 /\ new_index_vec = <<>>
  /\ group_order = <<>> /\ range_order = <<>>
  /\ data_new = <<>> /\ gather_new = <<>> /\ scatter_new = <<>> /\ reduction_new = <<>>
  /\ loops = <<>> /\ range_num = <<>>
  /\ y = [r \in Output |-> SetToBag({<<-1, r>>})]
  /\ at = 1 /\ iter = 0 /\ inner = 0
  /\ acc = [l \in Lane |-> EmptyBag]
  /\ element = NumChunks * Vector
  /\ cursor = [data |-> 0, gather |-> 0, scatter |-> 0, reduction |-> 0, range |-> 0]

GenerateInformation ==
  /\ stage = "generate"
  /\ G!Next
  /\ UNCHANGED <<arrays, y, stage, streams, program, machine>>

-----------------------------------------------------------------------------
(***************************************************************************)
(* transform_data                                                          *)
(***************************************************************************)
Between(lo, hi) == [n \in 1 .. hi - lo |-> lo + n - 1]

\* A slip: the chunks are laid out in the order of the matrix.
InMatrixOrder(order) ==
  SelectSeq(Between(0, NumChunks),
            LAMBDA c : \E n \in 1 .. Len(order) : Contains(same_feature_map[order[n]], c))

ChunksOfGroups(order) == FlattenSeq([n \in 1 .. Len(order) |-> same_feature_map[order[n]]])

RangesOf(order) == FlattenSeq([n \in 1 .. Len(order) |-> same_write_pattern_map[order[n]]])

ChunksOfRanges(ranges) ==
  FlattenSeq([n \in 1 .. Len(ranges) |-> Between(ranges[n][1], ranges[n][2])])

\* A slip: the words of every chunk of a range are laid out.
EveryChunkOfRanges(ranges) == ChunksOfRanges(ranges)

\* rearrange_scatter: the index of a range is laid out once.
FirstsOfRanges(ranges) == [n \in 1 .. Len(ranges) |-> ranges[n][1]]

Laid(Slots(_), chunks) == FlattenSeq([n \in 1 .. Len(chunks) |-> Slots(chunks[n])])

DataSlots(c) == Between(c * Vector, (c + 1) * Vector)
ColumnSlots(c) == GatherSlots(gather_info[c])
RowSlots(c) == GatherSlots(scatter_info[c])
RoundSlots(c) == ReductionSlots(reduction_info[c])

\* malloc_new_data(ScatterInfo): the row index of which chunks is counted, one
\* after the other: the chunks left in the groups, and of a range its first.
CountedRows ==
  ChunksOfGroups(group_order)
    \o [n \in 1 .. Len(RangesOf(range_order)) |-> RangesOf(range_order)[n][1]]

\* A key whose ranges are none is erased from the second map; a key whose
\* index vector became empty stays in the first.
TransformData ==
  /\ stage = "generate"
  /\ pc = "done"
  /\ group_order' \in SetToSeqs(G!Present)
  /\ range_order' \in SetToSeqs({k \in G!Present : same_write_pattern_map[k] # <<>>})
  /\ LET groups == ChunksOfGroups(group_order')
         ranges == RangesOf(range_order')
         all == groups \o ChunksOfRanges(ranges)
     IN /\ data_new' = Laid(DataSlots, all)
        /\ gather_new' = Laid(ColumnSlots, all)
        /\ scatter_new' = Laid(RowSlots, groups \o FirstsOfRanges(ranges))
        /\ reduction_new' = Laid(RoundSlots, all)
  /\ stage' = "optimize"
  /\ UNCHANGED <<arrays, y, grouping, program, machine>>

-----------------------------------------------------------------------------
(***************************************************************************)
(* optimization_state                                                      *)
(***************************************************************************)
\* All that a loop knows of its chunks is the feature of one of them.
Loop(kind, c, count) ==
  [kind |-> kind, count |-> count,
   column |-> ColumnCode(gather_info[c]), row |-> RowCode(scatter_info[c], reduction_info[c])]

\* index_vec[0] of an emptied index vector reads what erase left behind: the
\* first chunk it ever held.  The loop has no iterations then.
Leader(k) ==
  IF same_feature_map[k] # <<>> THEN same_feature_map[k][1]
  ELSE Min({c \in Chunk : hash_info[c] = k})

GroupLoop(k) == Loop("group", Leader(k), Len(same_feature_map[k]))
RangeLoop(k) == Loop("range", same_write_pattern_map[k][1][1], Len(same_write_pattern_map[k]))

\* Select(fzero_vec_const_, shuffle_simd, ..): the constant is float whatever
\* the data are, and Select checks that its operands have one type.
SelectTypesDiffer(loop) ==
  DataType = "double" /\ loop.row.order = "DisOrder" /\ loop.row.rounds > 0

OptimizationState ==
  /\ stage = "optimize"
  /\ loops' = [n \in 1 .. Len(group_order) |-> GroupLoop(group_order[n])]
                \o [n \in 1 .. Len(range_order) |-> RangeLoop(range_order[n])]
  /\ range_num' = [n \in 1 .. Len(RangesOf(range_order)) |->
                     LET range == RangesOf(range_order)[n] IN range[2] - range[1]]
  /\ stage' = IF \E n \in 1 .. Len(loops') : SelectTypesDiffer(loops'[n])
                THEN "exit" ELSE "kernel"
  /\ UNCHANGED <<arrays, y, grouping, streams, machine>>

-----------------------------------------------------------------------------
(***************************************************************************)
(* The kernel                                                              *)
(***************************************************************************)
\* The n words after the first "read" ones; past its end a stream holds
\* whatever the allocator left there.
Lost == [kind |-> "lost", word |-> 0]

Fetch(stream, read, n) ==
  [p \in 1 .. n |-> IF read + p <= Len(stream) THEN stream[read + p] ELSE Lost]

loop == loops[at]

\* data[i] * x[column_ptr[i]] in every lane, from the next words.
Product ==
  LET data == [l \in Lane |-> IF cursor.data + l < Len(data_new)
                                THEN data_new[cursor.data + l + 1] ELSE NoWord]
      from == GatheredFrom(loop.column,
                           Fetch(gather_new, cursor.gather, GatherWidth(loop.column)))
  IN [l \in Lane |-> SetToBag({<<data[l], from[l]>>})]

Running(kind) == stage = "kernel" /\ at <= Len(loops) /\ loop.kind = kind

\* A slip: the permutations of the rounds are not stepped over.
SameRounds ==
  /\ Running("group")
  /\ iter < loop.count
  /\ y' = Accumulated(y, loop.row,
            Fetch(scatter_new, cursor.scatter, GatherWidth(loop.row)),
            Fetch(reduction_new, cursor.reduction, ReductionWidth(loop.row)), Product)
  /\ cursor' = [cursor EXCEPT !.data = @ + Vector,
                              !.gather = @ + GatherWidth(loop.column),
                              !.scatter = @ + GatherWidth(loop.row)]
  /\ iter' = iter + 1
  /\ UNCHANGED <<arrays, stage, grouping, streams, program, at, inner, acc, element>>

\* One iteration of the loop of a group: one chunk.
GroupIteration ==
  /\ Running("group")
  /\ iter < loop.count
  /\ y' = Accumulated(y, loop.row,
            Fetch(scatter_new, cursor.scatter, GatherWidth(loop.row)),
            Fetch(reduction_new, cursor.reduction, ReductionWidth(loop.row)), Product)
  /\ cursor' = [cursor EXCEPT !.data = @ + Vector,
                              !.gather = @ + GatherWidth(loop.column),
                              !.scatter = @ + GatherWidth(loop.row),
                              !.reduction = @ + ReductionWidth(loop.row)]
  /\ iter' = iter + 1
  /\ UNCHANGED <<arrays, stage, grouping, streams, program, at, inner, acc, element>>

\* A slip: the accumulator is cleared once, not once per range.
KeepSum ==
  /\ Running("range")
  /\ iter < loop.count
  /\ inner = 0
  /\ inner' = range_num[cursor.range + 1]
  /\ cursor' = [cursor EXCEPT !.range = @ + 1]
  /\ UNCHANGED <<arrays, y, stage, grouping, streams, program, at, iter, acc, element>>

\* An iteration of the loop of the ranges of a key: take the length, clear the
\* accumulator.  (The row index and y are loaded here as well; nothing writes y
\* before the range is stored, so the load is part of that step.)
BeginRange ==
  /\ Running("range")
  /\ iter < loop.count
  /\ inner = 0
  /\ inner' = range_num[cursor.range + 1]
  /\ acc' = [l \in Lane |-> EmptyBag]
  /\ cursor' = [cursor EXCEPT !.range = @ + 1]
  /\ UNCHANGED <<arrays, y, stage, grouping, streams, program, at, iter, element>>

\* One iteration of the inner loop: one chunk.  The iteration that leaves the
\* inner loop also reduces the accumulator and stores it.
RangeIteration ==
  /\ Running("range")
  /\ inner > 0
  /\ inner' = inner - 1
  /\ acc' = AddLanes(acc, Product)
  /\ IF inner > 1
       THEN /\ cursor' = [cursor EXCEPT !.data = @ + Vector,
                                        !.gather = @ + GatherWidth(loop.column)]
            /\ UNCHANGED <<y, iter>>
       ELSE /\ y' = Accumulated(y, loop.row,
                      Fetch(scatter_new, cursor.scatter, GatherWidth(loop.row)), <<>>, acc')
            /\ cursor' = [cursor EXCEPT !.data = @ + Vector,
                                        !.gather = @ + GatherWidth(loop.column),
                                        !.scatter = @ + GatherWidth(loop.row)]
            /\ iter' = iter + 1
  /\ UNCHANGED <<arrays, stage, grouping, streams, program, at, element>>

\* A slip: the iteration counter is not reset.
NoReset ==
  /\ stage = "kernel"
  /\ at <= Len(loops)
  /\ iter = loop.count
  /\ at' = at + 1
  /\ UNCHANGED <<arrays, y, stage, grouping, streams, program, iter, inner, acc, element, cursor>>

NextLoop ==
  /\ stage = "kernel"
  /\ at <= Len(loops)
  /\ iter = loop.count
  /\ at' = at + 1
  /\ iter' = 0
  /\ UNCHANGED <<arrays, y, stage, grouping, streams, program, inner, acc, element, cursor>>

Return ==
  /\ stage = "kernel"
  /\ at > Len(loops)
  /\ stage' = "tail"
  /\ UNCHANGED <<arrays, y, grouping, streams, program, machine>>

\* The scalar loop of spmv_dynvec, after the kernel has returned.
TailIteration ==
  /\ stage = "tail"
  /\ element \in Element
  /\ y' = [y EXCEPT ![row_ptr[element]] =
             @ (+) SetToBag({<<element, column_ptr[element]>>})]
  /\ element' = element + 1
  /\ UNCHANGED <<arrays, stage, grouping, streams, program, at, iter, inner, acc, cursor>>

Finish ==
  /\ stage = "tail"
  /\ element \notin Element
  /\ stage' = "done"
  /\ UNCHANGED <<arrays, y, grouping, streams, program, machine>>

Next ==
  \/ GenerateInformation
  \/ TransformData
  \/ OptimizationState
  \/ GroupIteration
  \/ BeginRange
  \/ RangeIteration
  \/ NextLoop
  \/ Return
  \/ TailIteration
  \/ Finish

Spec == Init /\ [][Next]_vars

\* One thread compiles, and then runs what it compiled.
FairSpec == Spec /\ WF_vars(Next)
-----------------------------------------------------------------------------
(***************************************************************************)
(* Properties                                                              *)
(***************************************************************************)
\* Every cursor stays inside its stream and every counter inside its loop.
\* (The variables of generate_information are typed in module Grouping.)
TypeOK ==
  /\ stage \in {"generate", "optimize", "kernel", "tail", "done", "exit"}
  /\ DOMAIN y = Output
  /\ at \in 1 .. Len(loops) + 1
  /\ iter \in 0 .. (IF at <= Len(loops) THEN loop.count ELSE 0)
  /\ inner \in 0 .. NumChunks
  /\ element \in NumChunks * Vector .. Cardinality(Element)
  /\ cursor.data \in 0 .. Len(data_new)
  /\ cursor.gather \in 0 .. Len(gather_new)
  /\ cursor.scatter \in 0 .. Len(scatter_new)
  /\ cursor.reduction \in 0 .. Len(reduction_new)
  /\ cursor.range \in 0 .. Len(range_num)

OperandsInPlace(c) ==
  /\ InPlace(data_new, cursor.data, Vector, DataSlots(c))
  /\ InPlace(gather_new, cursor.gather, GatherWidth(loop.column), ColumnSlots(c))

RowsInPlace(c) ==
  InPlace(scatter_new, cursor.scatter, GatherWidth(loop.row), RowSlots(c))

\* At every iteration of every loop the cursors stand on the words of the very
\* chunk that the iteration is for, in whatever order the two maps list their
\* keys, and the loop will consume exactly those words.
StreamsInStep ==
  /\ Running("group") /\ iter < loop.count =>
       LET c == same_feature_map[group_order[at]][iter + 1] IN
         /\ OperandsInPlace(c)
         /\ RowsInPlace(c)
         /\ InPlace(reduction_new, cursor.reduction, ReductionWidth(loop.row), RoundSlots(c))
  /\ Running("range") /\ iter < loop.count =>
       LET range == same_write_pattern_map[range_order[at - Len(group_order)]][iter + 1] IN
         IF inner = 0
           THEN InPlace(range_num, cursor.range, 1, <<range[2] - range[1]>>)
           ELSE OperandsInPlace(range[2] - inner) /\ RowsInPlace(range[1])

\* When the kernel returns it has read every word that was laid out: no chunk
\* was skipped and no loop stopped early.
StreamsConsumed ==
  stage \in {"tail", "done"} =>
    cursor = [data |-> Len(data_new), gather |-> Len(gather_new),
              scatter |-> Len(scatter_new), reduction |-> Len(reduction_new),
              range |-> Len(range_num)]

SumOver(need, S) == MapThenSumSet(LAMBDA s : need[s], S)

\* What is laid out fits into what malloc_new_data sets aside for it.  The data,
\* the column index and the reduction are counted for all chunks of the table and
\* laid out by groups and ranges; the row index is counted and laid out in two
\* traversals of groups and ranges that must agree.
StreamsFit ==
  stage = "optimize" =>
  /\ Len(data_new) <= NumChunks * Vector
  /\ Len(gather_new) <= SumOver([c \in Chunk |-> GatherNeed(gather_info[c])], Chunk)
  /\ Len(scatter_new) <= LET places == 1 .. Len(CountedRows)
                         IN SumOver([n \in places |-> ScatterNeed(scatter_info[CountedRows[n]])],
                                    places)
  /\ Len(reduction_new) <= SumOver([c \in Chunk |-> ReductionNeed(reduction_info[c])], Chunk)

\* The elements whose term is in the output, whatever the operand in it.
Added == {t[1] : t \in UNION {DOMAIN y[r] : r \in Output}} \cap Element

A == INSTANCE SparseAdd WITH done <- Added

\* Every store of the kernel adds whole elements, none of them for the second
\* time, each with its own operand and to its own row, and loses nothing that
\* was there: the kernel implements the abstract statement.
AddsEveryElementOnce == A!Spec

\* After the call the output is what the plain loop over all elements computes
\* (app/spmv.cpp compares the two with check_equal).
ResultCorrect == stage = "done" => y = A!Sum(Element)

\* DynVec never stops at an error.
NoExit == stage # "exit"

\* Compilation and kernel come to an end.
Termination == <>(stage \in {"done", "exit"})

-----------------------------------------------------------------------------
(***************************************************************************)
(* The inductive invariant behind StreamsInStep and StreamsConsumed: the   *)
(* cursors have passed the words of exactly the chunks the loops have.     *)
(***************************************************************************)
\* The chunks and the ranges in the order of the loops, and their words.
Groups == [n \in 1 .. Len(group_order) |-> same_feature_map[group_order[n]]]
RangeLists == [n \in 1 .. Len(range_order) |-> same_write_pattern_map[range_order[n]]]
Ranges == RangesOf(range_order)
RangeChunks == [n \in 1 .. Len(Ranges) |-> Between(Ranges[n][1], Ranges[n][2])]
GroupChunks == ChunksOfGroups(group_order)
AllChunks == GroupChunks \o ChunksOfRanges(Ranges)
RowChunks == GroupChunks \o FirstsOfRanges(Ranges)

DataWords == [n \in 1 .. Len(AllChunks) |-> DataSlots(AllChunks[n])]
ColumnWords == [n \in 1 .. Len(AllChunks) |-> ColumnSlots(AllChunks[n])]
RowWords == [n \in 1 .. Len(RowChunks) |-> RowSlots(RowChunks[n])]
RoundWords == [n \in 1 .. Len(AllChunks) |-> RoundSlots(AllChunks[n])]

Compiled == stage \in {"optimize", "kernel", "tail", "done"}

\* The features of the chunks are those of some index arrays.
FeaturesKnown ==
  /\ \A c \in Chunk : \E r \in RowShapes, s \in ColumnShapes :
       /\ gather_info[c] = GatherInfo(s)
       /\ scatter_info[c] = ScatterInfo(r)
       /\ reduction_info[c] = ReductionInfo(r)
       /\ hash_info[c] = HashOfShapes(r, s)
  /\ \A c \in Chunk : order_type[c] = scatter_info[c].order

StreamsLaid ==
  Compiled =>
    /\ pc = "done"
    /\ group_order \in Seq(G!Present)
    /\ range_order \in Seq(G!Present)
    /\ \A n \in 1 .. Len(range_order) : same_write_pattern_map[range_order[n]] # <<>>
    /\ data_new = FlattenSeq(DataWords)
    /\ gather_new = FlattenSeq(ColumnWords)
    /\ scatter_new = FlattenSeq(RowWords)
    /\ reduction_new = FlattenSeq(RoundWords)

\* A loop fits a chunk if the chunk's feature is the one it was made from.
Fits(n, c) ==
  /\ loops[n].column = ColumnCode(gather_info[c])
  /\ loops[n].row = RowCode(scatter_info[c], reduction_info[c])

LoopsMade ==
  stage \in {"kernel", "tail", "done"} =>
    /\ Len(loops) = Len(group_order) + Len(range_order)
    /\ \A n \in 1 .. Len(group_order) :
         /\ loops[n].kind = "group"
         /\ loops[n].count = Len(Groups[n])
         /\ \A p \in 1 .. Len(Groups[n]) : Fits(n, Groups[n][p])
    /\ \A n \in 1 .. Len(range_order) :
         LET m == Len(group_order) + n IN
         /\ loops[m].kind = "range"
         /\ loops[m].count = Len(RangeLists[n])
         /\ \A p \in 1 .. Len(RangeLists[n]) :
              \A c \in RangeLists[n][p][1] .. RangeLists[n][p][2] - 1 : Fits(m, c)
    /\ range_num = [n \in 1 .. Len(Ranges) |-> Ranges[n][2] - Ranges[n][1]]

\* How many ranges and chunks the loops have passed, and how many ranges begun.
RangesPassed ==
  IF at <= Len(group_order) THEN 0 ELSE Before(RangeLists, at - 1 - Len(group_order)) + iter
RangesBegun == RangesPassed + (IF inner > 0 THEN 1 ELSE 0)
ChunksPassed ==
  IF at <= Len(group_order) THEN Before(Groups, at - 1) + iter
  ELSE Len(GroupChunks) + Before(RangeChunks, RangesBegun) - inner
RowsPassed ==
  IF at <= Len(group_order) THEN ChunksPassed ELSE Len(GroupChunks) + RangesPassed

LoopsInStep ==
  stage \in {"kernel", "tail", "done"} =>
    /\ at \in 1 .. Len(loops) + 1
    /\ iter \in Nat
    /\ IF at <= Len(loops) THEN iter <= loop.count ELSE iter = 0
    /\ stage # "kernel" => at > Len(loops)
    /\ inner \in Nat
    /\ inner > 0 =>
         /\ Running("range")
         /\ iter < loop.count
         /\ LET range == RangeLists[at - Len(group_order)][iter + 1] IN
            inner <= range[2] - range[1]
    /\ cursor = [data |-> Before(DataWords, ChunksPassed),
                 gather |-> Before(ColumnWords, ChunksPassed),
                 scatter |-> Before(RowWords, RowsPassed),
                 reduction |-> Before(RoundWords, ChunksPassed),
                 range |-> RangesBegun]

\* Nothing runs before the loops are there.
NotStarted ==
  stage \in {"generate", "optimize", "exit"} =>
    /\ at = 1 /\ iter = 0 /\ inner = 0
    /\ cursor = [data |-> 0, gather |-> 0, scatter |-> 0, reduction |-> 0, range |-> 0]
    /\ Len(data_new) \in Nat /\ Len(gather_new) \in Nat
    /\ Len(scatter_new) \in Nat /\ Len(reduction_new) \in Nat
    /\ Len(loops) \in Nat /\ Len(range_num) \in Nat
    /\ \A n \in 1 .. Len(loops) : loops[n].count \in Nat

\* Nothing adds a location to the output or takes one away, and spmv_dynvec
\* stays inside the arrays.
OutputKept ==
  /\ stage \in {"generate", "optimize", "kernel", "tail", "done", "exit"}
  /\ DOMAIN y = Output
  /\ element \in NumChunks * Vector .. Cardinality(Element)

StepInv ==
  /\ G!IInv
  /\ FeaturesKnown
  /\ StreamsLaid
  /\ LoopsMade
  /\ LoopsInStep
  /\ NotStarted
  /\ OutputKept

-----------------------------------------------------------------------------
(***************************************************************************)
(* What StreamsFit needs beside: no chunk is laid out twice, and no chunk  *)
(* is without a plan.                                                      *)
(***************************************************************************)
OrdersOnce == Compiled => IsInjective(group_order) /\ IsInjective(range_order)

Supported ==
  stage # "exit" => Vector > 4 \/ \A c \in Chunk : scatter_info[c].order # "DisOrder"

IInv == StepInv /\ OrdersOnce /\ Supported

-----------------------------------------------------------------------------
(***************************************************************************)
(* What AddsEveryElementOnce and ResultCorrect need beside: an element     *)
(* that has been read is in the output, or in the accumulator of the range *)
(* that is being summed up.                                                *)
(***************************************************************************)
\* The row and the column indices of a chunk.
RowsOf(c) == [l \in Lane |-> row_ptr[c * Vector + l]]
ColumnsOf(c) == [l \in Lane |-> column_ptr[c * Vector + l]]

\* The features are those of the index arrays.
ArraysKnown ==
  /\ row_ptr \in [Element -> Output]
  /\ column_ptr \in [Element -> Nat]
  /\ \A c \in Chunk :
       /\ RowsOf(c) \in RowShapes
       /\ ColumnsOf(c) \in ColumnShapes
       /\ gather_info[c] = GatherInfo(ColumnsOf(c))
       /\ scatter_info[c] = ScatterInfo(RowsOf(c))
       /\ reduction_info[c] = ReductionInfo(RowsOf(c))
       /\ write_local[c] = scatter_info[c].index[1]

\* The two orders leave out no key.
OrdersComplete ==
  Compiled =>
    \A k \in G!Present :
      /\ \E n \in 1 .. Len(group_order) : group_order[n] = k
      /\ same_write_pattern_map[k] # <<>> =>
           \E n \in 1 .. Len(range_order) : range_order[n] = k

ElementsOf(chunks) == {c * Vector + l : c \in chunks, l \in Lane}

\* The chunks whose data the cursor has passed, and those of them that are only
\* in the accumulator.
ReadChunks == {AllChunks[n] : n \in {m \in 1 .. Len(AllChunks) : m * Vector <= cursor.data}}
HeldChunks ==
  IF inner = 0 THEN {}
  ELSE LET range == RangeLists[at - Len(group_order)][iter + 1] IN
       range[1] .. range[2] - inner - 1

\* The elements that are in the output.
Stored ==
  ElementsOf(ReadChunks \ HeldChunks)
    \cup {e \in Element : NumChunks * Vector <= e /\ e < element}

AllAdded ==
  /\ HeldChunks \subseteq ReadChunks
  /\ inner > 0 =>
       \A l \in Lane : acc[l] = SetToBag({A!Term(c * Vector + l) : c \in HeldChunks})
  /\ y = A!Sum(Stored)
  /\ stage \notin {"tail", "done"} => element = NumChunks * Vector

TailRead == stage = "done" => element \notin Element

SumInv == IInv /\ ArraysKnown /\ OrdersComplete /\ AllAdded /\ TailRead
=============================================================================
