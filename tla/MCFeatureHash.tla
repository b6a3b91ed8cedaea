---------------------------- MODULE MCFeatureHash ----------------------------
(* The hash of every feature that a statement y[row] += f(x[column]) can    *)
(* meet, for four and for eight lanes, one word of the gather index column  *)
(* per step.  Indices are not enumerated: a mask of order IncContinue is    *)
(* any set of lanes with lane 0 and another one.                            *)
EXTENDS FeatureHash, FiniteSets
LOCAL INSTANCE FiniteSetsExt

F4 == INSTANCE Features WITH Vector <- 4
F8 == INSTANCE Features WITH Vector <- 8

OrderedWords(n) ==
  {F8!FeatureWord([order |-> "OrderEquel", mask |-> 1])} \cup
  {F8!FeatureWord([order |-> "IncContinue", mask |-> F8!Bits(heads \cup {0})]) :
     heads \in SUBSET (1 .. n - 1) \ {{}}}

\* Four lanes: a permutation of a block that is not in order.
BlockMasks ==
  {F4!Packed(addr) : addr \in {a \in [F4!Lane -> 0 .. 3] :
                                 F4!Lowest(a) = 0 /\ F4!OrderOf(a) = "DisOrder"}}

\* n stands for a gather, with one word as its mask for eight lanes.
DisOrderMasks(n) == (IF n = 4 THEN BlockMasks ELSE {1}) \cup {n}

ColumnWords(n) ==
  OrderedWords(n) \cup
  {F8!FeatureWord([order |-> "DisOrder", mask |-> m]) : m \in DisOrderMasks(n)}

\* Four lanes have no reduction of an unordered output index.
RowWords(n) ==
  {<<w, w, w>> : w \in OrderedWords(n)} \cup
  (IF n = 4 THEN {}
   ELSE {<<n, n, rounds>> : rounds \in {F8!reduce_num[m] : m \in 1 .. n - 1}})

-----------------------------------------------------------------------------
VARIABLES
  lanes,  \* Vector
  left,   \* column words not hashed yet
  seen    \* <<hash, row words, column word>> of every feature hashed

vars == <<lanes, left, seen>>

Init == lanes \in {4, 8} /\ left = ColumnWords(lanes) /\ seen = {}

HashColumn ==
  /\ left # {}
  /\ LET c == Min(left) IN
       /\ left' = left \ {c}
       /\ seen' = seen \cup {<<get_feature_hash(<<c>> \o r), r, c>> : r \in RowWords(lanes)}
  /\ UNCHANGED lanes

Next == HashColumn

Spec == Init /\ [][Next]_vars
-----------------------------------------------------------------------------
\* Features with one hash agree on the output index: its order type, its mask
\* and its reduction.  So the chunks of a group can share the way they are
\* added into the output, and combin_same_write_pattern_together_elem may ask
\* the first chunk of a group for the order type of all.
HashFixesOutput ==
  Cardinality({<<s[1], s[2]>> : s \in seen}) = Cardinality({s[1] : s \in seen})

\* Features of four lanes with one hash are one feature.
\* combin_same_feature_together assumes it of any number of lanes; it does
\* not hold for eight.
HashFixesFeature ==
  lanes = 4 => Cardinality({s[1] : s \in seen}) = Cardinality(seen)
=============================================================================
