----------------------------- MODULE FeatureScan -----------------------------
(***************************************************************************)
(* How DynVec reads one chunk of an index array (get_order_type, get_mask, *)
(* generate_gather_disorder_info_elem and                                  *)
(* generate_reduction_disorder_info_elem in tools_set/tools_set.cpp),      *)
(* loop iteration by loop iteration, and what the result is good for: the  *)
(* words laid out from it and the code generated from it (module Kernel)   *)
(* must gather the chunk and add it into the output without losing a lane. *)
(***************************************************************************)
EXTENDS Kernel

CONSTANT Chunks  \* the chunks that may be scanned

ASSUME ChunksAssumption == Chunks \subseteq [Lane -> Nat]

VARIABLES
  index_ptr,         \* the chunk
  pc,                \* which loop is running
  i,                 \* its cursor
  equal_num,         \* lanes equal to the one before
  inc_continue_num,  \* lanes one above the one before
  order_type,        \* result of get_order_type
  mask,              \* result of get_mask, without the order type
  column_block,      \* lanes that lie in no block yet
  column_begin_vec,  \* the first element of every block
  disorder_addr,     \* the place of every lane in its block
  has_reduce,        \* lanes that another lane has taken in
  shuffle_index,     \* partners of the lanes in the round that runs
  reduction_addr     \* shuffle_index of the rounds before

order == <<i, equal_num, inc_continue_num, order_type>>
blocks == <<column_block, column_begin_vec, disorder_addr>>
rounds == <<has_reduce, shuffle_index, reduction_addr>>
vars == <<index_ptr, pc, order, mask, blocks, rounds>>

Init ==
  /\ index_ptr \in Chunks
  /\ pc = "order"
  /\ i = 1
  /\ equal_num = 0
  /\ inc_continue_num = 0
  /\ order_type = "none"
  /\ mask = 1
  /\ column_block = Lane
  /\ column_begin_vec = <<>>
  /\ disorder_addr = NoAddr
  /\ has_reduce = {}
  /\ shuffle_index = NoAddr
  /\ reduction_addr = <<>>

\* A slip: any increase counts as a step by one.
AnyIncrease ==
  /\ pc = "order"
  /\ i < Vector
  /\ i' = i + 1
  /\ equal_num' = equal_num + (IF index_ptr[i - 1] = index_ptr[i] THEN 1 ELSE 0)
  /\ inc_continue_num' = inc_continue_num + (IF index_ptr[i - 1] < index_ptr[i] THEN 1 ELSE 0)
  /\ UNCHANGED <<index_ptr, pc, order_type, mask, blocks, rounds>>

\* One iteration of get_order_type.  Its other counters (inc_num, dec_num,
\* dec_continue_num) only choose among branches that all say DisOrder.
CompareLanes ==
  /\ pc = "order"
  /\ i < Vector
  /\ i' = i + 1
  /\ equal_num' = equal_num + (IF index_ptr[i - 1] = index_ptr[i] THEN 1 ELSE 0)
  /\ inc_continue_num' = inc_continue_num
                           + (IF index_ptr[i - 1] + 1 = index_ptr[i] THEN 1 ELSE 0)
  /\ UNCHANGED <<index_ptr, pc, order_type, mask, blocks, rounds>>

\* The end of get_order_type, and the branch its caller takes.
DecideOrder ==
  /\ pc = "order"
  /\ i = Vector
  /\ order_type' = IF equal_num = Vector - 1 THEN "OrderEquel"
                   ELSE IF Vector > 8 THEN "DisOrder"
                   ELSE IF inc_continue_num + equal_num = Vector - 1 THEN "IncContinue"
                   ELSE "DisOrder"
  /\ pc' = CASE order_type' = "OrderEquel"  -> "done"
             [] order_type' = "IncContinue" -> "mask"
             [] order_type' = "DisOrder"    -> "blocks"
  /\ i' = 1
  /\ UNCHANGED <<index_ptr, equal_num, inc_continue_num, mask, blocks, rounds>>

\* One iteration of get_mask; cur_index is always the lane before.
MarkChange ==
  /\ pc = "mask"
  /\ i < Vector
  /\ mask' = IF index_ptr[i] # index_ptr[i - 1] THEN mask + 2 ^ i ELSE mask
  /\ i' = i + 1
  /\ pc' = IF i + 1 = Vector THEN "done" ELSE "mask"
  /\ UNCHANGED <<index_ptr, equal_num, inc_continue_num, order_type, blocks, rounds>>

LowestLeft == Min({index_ptr[l] : l \in column_block})

\* Slips: a block is one element longer than a vector; the lanes of a block
\* are not taken out of column_block (INT_MAX).
OpenWiderBlock ==
  /\ pc = "blocks"
  /\ column_block # {}
  /\ LET inside == {l \in column_block : index_ptr[l] <= LowestLeft + Vector} IN
       /\ column_begin_vec' = Append(column_begin_vec, LowestLeft)
       /\ disorder_addr' = [l \in Lane |-> IF l \in inside THEN index_ptr[l] - LowestLeft
                                                           ELSE disorder_addr[l]]
       /\ column_block' = column_block \ inside
  /\ UNCHANGED <<index_ptr, pc, order, mask, rounds>>

KeepLanes ==
  /\ pc = "blocks"
  /\ column_block # {}
  /\ UNCHANGED vars

\* One iteration of the loop over blocks: the lowest lane left opens a block
\* of Vector elements and takes every lane left that lies in it.
OpenBlock ==
  /\ pc = "blocks"
  /\ column_block # {}
  /\ LET inside == {l \in column_block : index_ptr[l] < LowestLeft + Vector} IN
       /\ column_begin_vec' = Append(column_begin_vec, LowestLeft)
       /\ disorder_addr' = [l \in Lane |-> IF l \in inside THEN index_ptr[l] - LowestLeft
                                                           ELSE disorder_addr[l]]
       /\ column_block' = column_block \ inside
  /\ UNCHANGED <<index_ptr, pc, order, mask, rounds>>

\* The end of that loop.  A chunk in one block is loaded and permuted, any
\* other is gathered; with four lanes the permutation is the mask.
CloseBlocks ==
  /\ pc = "blocks"
  /\ column_block = {}
  /\ mask' = IF Len(column_begin_vec) > 1 THEN Vector
             ELSE IF Vector > 4 THEN 1 ELSE Packed(disorder_addr)
  /\ pc' = IF Vector > 4 THEN "reduce" ELSE "done"
  /\ i' = Vector - 1
  /\ UNCHANGED <<index_ptr, equal_num, inc_continue_num, order_type, blocks, rounds>>

\* A slip: a lane that was taken in still takes in another.
SeekAlways ==
  /\ pc = "reduce"
  /\ Len(reduction_addr) < reduce_num[LongestRepeat(index_ptr)]
  /\ i >= 0
  /\ LET free == {m \in 0 .. i - 1 : index_ptr[m] = index_ptr[i] /\ m \notin has_reduce}
     IN /\ shuffle_index' = [shuffle_index EXCEPT ![i] = IF free # {} THEN Max(free) ELSE Vector]
        /\ has_reduce' = has_reduce \cup (IF free # {} THEN {Max(free)} ELSE {})
  /\ i' = i - 1
  /\ UNCHANGED <<index_ptr, pc, equal_num, inc_continue_num, order_type, mask, blocks,
                 reduction_addr>>

\* One iteration of the loop over the lanes of a round: lane i, if it is left,
\* takes in the next lower lane that has its index and is left.
SeekPartner ==
  /\ pc = "reduce"
  /\ Len(reduction_addr) < reduce_num[LongestRepeat(index_ptr)]
  /\ i >= 0
  /\ LET free == {m \in 0 .. i - 1 : index_ptr[m] = index_ptr[i] /\ m \notin has_reduce}
         found == i \notin has_reduce /\ free # {}
     IN /\ shuffle_index' = [shuffle_index EXCEPT ![i] = IF found THEN Max(free) ELSE Vector]
        /\ has_reduce' = has_reduce \cup (IF found THEN {Max(free)} ELSE {})
  /\ i' = i - 1
  /\ UNCHANGED <<index_ptr, pc, equal_num, inc_continue_num, order_type, mask, blocks,
                 reduction_addr>>

EndRound ==
  /\ pc = "reduce"
  /\ i = -1
  /\ reduction_addr' = Append(reduction_addr, shuffle_index)
  /\ i' = Vector - 1
  /\ UNCHANGED <<index_ptr, pc, equal_num, inc_continue_num, order_type, mask, blocks,
                 has_reduce, shuffle_index>>

EndReduce ==
  /\ pc = "reduce"
  /\ Len(reduction_addr) = reduce_num[LongestRepeat(index_ptr)]
  /\ pc' = "done"
  /\ UNCHANGED <<index_ptr, order, mask, blocks, rounds>>

Next ==
  \/ CompareLanes
  \/ DecideOrder
  \/ MarkChange
  \/ OpenBlock
  \/ CloseBlocks
  \/ SeekPartner
  \/ EndRound
  \/ EndReduce

Spec == Init /\ [][Next]_vars

\* The loops run to their end on one thread.
FairSpec == Spec /\ WF_vars(Next)
-----------------------------------------------------------------------------
(***************************************************************************)
(* Properties                                                              *)
(***************************************************************************)
\* The lanes left and the blocks opened share out the chunk: every lane that
\* was taken lies, at its disorder_addr, inside one of the blocks opened, and
\* so its place fits into the four bits (or the int8) it is stored in.
TypeOK ==
  /\ index_ptr \in [Lane -> Nat]
  /\ pc \in {"order", "mask", "blocks", "reduce", "done"}
  /\ i \in -1 .. Vector
  /\ equal_num \in Nat /\ inc_continue_num \in Nat
  /\ equal_num + inc_continue_num <= Vector - 1
  /\ order_type \in {"none", "OrderEquel", "IncContinue", "DisOrder"}
  /\ mask \in 1 .. 2 ^ 16 - 1
  /\ column_block \in SUBSET Lane
  /\ column_begin_vec \in Seq(Nat)
  /\ has_reduce \in SUBSET Lane
  /\ shuffle_index \in [Lane -> 0 .. Vector]
  /\ reduction_addr \in Seq([Lane -> 0 .. Vector])
  /\ disorder_addr \in [Lane -> 0 .. Vector - 1]
  /\ \A l \in Lane \ column_block :
       \E b \in 1 .. Len(column_begin_vec) :
         index_ptr[l] = column_begin_vec[b] + disorder_addr[l]

\* The counters and the block loop compute what module Features defines from
\* the whole chunk at once, on which all other modules rely.
ScanMatchesFeature ==
  pc = "done" =>
    LET info == GatherInfo(index_ptr) IN
      /\ order_type = info.order
      /\ mask = info.mask
      /\ order_type = "DisOrder" =>
           /\ (Len(column_begin_vec) = 1) = (Len(info.index) = 1)
           /\ Len(info.index) = 1 => disorder_addr = info.addr
           /\ ~ReductionUnsupported(index_ptr) =>
                reduction_addr = ReductionInfo(index_ptr).rounds

\* What the loop made from the chunk knows of it, as a column and as a row.
column_code == [order |-> order_type, mask |-> mask]
row_code ==
  [order |-> order_type, mask |-> ScatterInfo(index_ptr).mask, rounds |-> Len(reduction_addr)]

\* The words transform_data lays out for the chunk are as many as the loop of
\* its feature consumes, and no more than malloc_new_data set aside: with one
\* word off, every later chunk of the loop would be read askew.
LayoutMatchesCode ==
  pc = "done" =>
    /\ Len(GatherSlots(GatherInfo(index_ptr))) = GatherWidth(column_code)
    /\ GatherWidth(column_code) <= GatherNeed(GatherInfo(index_ptr))
    /\ Len(GatherSlots(ScatterInfo(index_ptr))) <= ScatterNeed(ScatterInfo(index_ptr))
    /\ ~ReductionUnsupported(index_ptr) =>
         LET info == ReductionInfo(index_ptr) IN
           /\ Len(ReductionSlots(info)) = ReductionWidth(row_code)
           /\ ReductionWidth(row_code) <= ReductionNeed(info)

\* Whatever the order type, the loop fills every lane from the element its
\* index names: by broadcast, by masked load and expansion, by block load and
\* permutation, or by gather.
EveryLaneGathered ==
  pc = "done" => GatheredFrom(column_code, GatherSlots(GatherInfo(index_ptr))) = index_ptr

\* What an element of the output holds before: a term that is no lane.
Held == {-1}

OutputRows == {index_ptr[l] : l \in Lane}

\* Used as an output index, every lane is added to its own element exactly
\* once, however often the chunk repeats an element, and what the element held
\* before is kept: by horizontal sum, by tree and compress, or by rounds.
EveryLaneAddedOnce ==
  pc = "done" /\ ~ReductionUnsupported(index_ptr) =>
    Accumulated([r \in OutputRows |-> SetToBag(Held)], row_code,
                GatherSlots(ScatterInfo(index_ptr)), ReductionSlots(ReductionInfo(index_ptr)),
                [l \in Lane |-> SetToBag({l})])
      = [r \in OutputRows |-> SetToBag(Held \cup {l \in Lane : index_ptr[l] = r})]

\* while(true) over the blocks ends, and so do the loops around it.
Termination == <>(pc = "done")

-----------------------------------------------------------------------------
(***************************************************************************)
(* The inductive invariant: what the loops know of the lanes they have     *)
(* seen is what module Features says of all of them, and what they have    *)
(* not begun with is as it was.                                            *)
(***************************************************************************)
info == GatherInfo(index_ptr)

\* equal_num counts the lanes seen only if all are equal, and the two counters
\* count them together only if each is equal or one above.
Counting ==
  pc = "order" =>
    /\ i \in 1 .. Vector
    /\ equal_num + inc_continue_num <= i - 1
    /\ equal_num = i - 1 <=> \A l \in 1 .. i - 1 : index_ptr[l] = index_ptr[l - 1]
    /\ equal_num + inc_continue_num = i - 1
         <=> \A l \in 1 .. i - 1 : index_ptr[l] - index_ptr[l - 1] \in {0, 1}

Decided ==
  /\ pc # "order" => order_type = OrderOf(index_ptr)
  /\ pc = "mask" => order_type = "IncContinue"
  /\ pc \in {"blocks", "reduce"} => order_type = "DisOrder"

\* The heads among the lanes seen.
Masking ==
  /\ pc \in {"order", "blocks"} => mask = 1
  /\ pc = "mask" =>
       /\ i \in 1 .. Vector - 1
       /\ mask = Bits({h \in Heads(index_ptr) : h < i})
  /\ pc \in {"reduce", "done"} => mask = info.mask

\* The first block has taken the lanes of the block that starts at the lowest
\* index; a second is opened only if a lane lies behind it.
Blocks ==
  LET n == Len(column_begin_vec)
      first == {l \in Lane : index_ptr[l] < Lowest(index_ptr) + Vector}
  IN /\ pc \in {"order", "mask"} => n = 0
     /\ n = 0 => column_block = Lane /\ disorder_addr = NoAddr
     /\ n = 1 => /\ column_block = Lane \ first
                 /\ disorder_addr =
                      [l \in Lane |-> IF l \in first THEN index_ptr[l] - Lowest(index_ptr) ELSE 0]
     /\ n > 1 => first # Lane
     /\ pc = "reduce" \/ (pc = "done" /\ order_type = "DisOrder") => column_block = {}

\* The partner of each lane in the round after the first n.
PartnerIn(n, l) == Partner(index_ptr, l, Taken(index_ptr, 2 ^ n))

\* The rounds before are those of the plan; of the round that runs, the lanes
\* from the highest down to i have sought their partners.
Pairing ==
  LET n == Len(reduction_addr) IN
    /\ pc \in {"order", "mask", "blocks"} \/ OrderOf(index_ptr) # "DisOrder" \/ Vector = 4 =>
         has_reduce = {} /\ reduction_addr = <<>>
    /\ pc = "reduce" =>
         /\ Vector > 4
         /\ n <= reduce_num[LongestRepeat(index_ptr)]
         /\ i \in -1 .. Vector - 1
         /\ n = reduce_num[LongestRepeat(index_ptr)] => i = Vector - 1
         /\ reduction_addr = [r \in 1 .. n |-> [l \in Lane |-> PartnerIn(r - 1, l)]]
         /\ \A l \in i + 1 .. Vector - 1 : shuffle_index[l] = PartnerIn(n, l)
         /\ has_reduce = Taken(index_ptr, 2 ^ n)
                           \cup ({PartnerIn(n, l) : l \in i + 1 .. Vector - 1} \ {Vector})
    /\ pc = "done" /\ order_type = "DisOrder" /\ Vector > 4 =>
         reduction_addr = Rounds(index_ptr)

ScanInv == TypeOK /\ Counting /\ Decided /\ Masking /\ Blocks /\ Pairing
=============================================================================
