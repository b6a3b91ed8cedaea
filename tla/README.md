# DynVec in TLA+

DynVec compiles a statement such as `y[row[i]] += data[i] * x[column[i]]` for one concrete
pair of index arrays. It looks at the index arrays one vector (a *chunk*) at a time, sorts the
chunks into groups that the same vector code can process, rearranges data and indices so that
this code reads them front to back, and generates one loop per group. This directory models
that pipeline, model-checks it with TLC and proves with TLAPS the properties of grouping, of reading a matrix file, of the construction of
the matrix from it, of the order of generated statements, of the streams that the compiler lays out and
its kernel reads, and of the output: under one hypothesis on the hash, it is the sum the statement asks for. It also models the micro-benchmarks the idea comes from.

All source paths below are relative to `src/spmv/DynVec/`, those of the micro-benchmarks to
`src/DynVec-motivation/`.

## 1. Inventory

One thread runs everything: `main` reads a matrix, calls `compiler`, which runs the stages below
once and returns the address of a function, and then calls that function. There are no threads,
no messages and no persistence. What is hard is of another kind: each stage leaves tables, lists
and streams that the next stages read *by position*, in the iteration order of hash maps, with
widths that are computed in three places from the same feature word. Nothing checks that the
three agree; if they do not, the kernel quietly adds wrong numbers.

| component | source | state | operations | correct when | model |
|---|---|---|---|---|---|
| matrix input | `io_matrix/csr_matrix.cpp`, `mmio.c` | type code of the banner, position in the file, coordinate lists, row counters, CSR arrays | read banner, sizes and entries; count, prefix sum, place (twice for a symmetric entry) | numbers are read with the format the banner gives; CSR holds every entry once, mirrored ones too | `MatrixInput`, `CsrBuild` |
| parser | `parse/parse.cpp` | static character cursor, current token, name and index sets, node tree | `ParseInput/Output/Lambda/Expr/InputExpr` | the tree is the statement; the sets name the arrays it indexes | `Parser` |
| feature extraction | `tools_set/tools_set.cpp` 28-294 | per chunk and index array: order type, mask, indices, permutation, reduction rounds | `get_order_type`, `get_mask`, `generate_*_info_elem` | the feature and the laid out words determine every lane | `Features`, `FeatureScan` |
| feature hash | `hash/hash_feature_table.hpp`, `tools_set.cpp` 296-326 | one `size_t` per chunk | `HashCombine` | equal hashes mean equal features | `FeatureHash` |
| grouping | `tools_set.cpp` 329-466 | hash -> chunks, hash -> ranges | `combin_same_feature_together`, `combin_same_write_pattern_together` | every chunk in exactly one place, ranges are maximal runs | `Grouping` |
| tree and compress plans | `bit2addr/bit2addr.cpp` | shuffle vectors per mask | `generate`, `generate_compress` | a run of lanes ends up summed in its first lane | `Features` |
| data transformation | `transform_data/transform_data.cpp` | the streams: data, gather, scatter, reduction | `malloc_new_data`, `rearrange*` | the words of a chunk lie where its loop iteration reads them | `Kernel`, `DynVec` |
| node tree to statements | `node/node2state.cpp` | work queue, node -> variable | `generate_func`, `generate_code_seed` | every node once, definitions before uses | `CodeSeed`, `Lowering` |
| statement passes | `pass/state_pass.cpp`, `state_formulation.cpp`, `state_redirect_var.cpp` | substitution of variables | visit every statement | no use of a replaced variable is left | `Lowering` |
| state optimization | `pass/state_optimization.cpp` | the loops | `pass_(Gather/Add/Scatter/Block)`, `optimization_state` | the loop computes the statement for every chunk of its group | `Kernel`, `DynVec` (values), `Lowering` (statements), `Typing` (types) |
| code generation, JIT | `llvm_lib/` | LLVM value or stack slot of each variable | one visit per statement | every variable is found, defined once, and dominates its uses | `Lowering` (variables, loops), `Types` (what there is code for); the JIT no |
| kernel driver | `app/spmv.cpp` | element cursor of the tail | run the kernel, then the tail | the output is that of the plain loop | `DynVec`, `SparseAdd` |
| statement objects, types | `statement/`, `type/` | the type of every variable and statement | constructors with type checks, `set_type` | no check fails, and operands nobody checks have one type | `Types`, `Typing`; printing no |
| micro-benchmarks | `gather.cpp`, `scatter.cpp`, `common.h`, `eval.h` | permutations and masks read from files, the arrays `B`, `C`, `C2` shared by all tests | `init_para_*`, `INIT*`, `EVAL`, `check` | the loads, permuted and blended, give what the gather gives | `LoadPermute` |
| logging, timers, utilities, baselines | `log/`, `Timer/`, `util/`, `../spmv_mkl/main.cpp` | - | - | - | no |

Interactions. `compiler` calls parser, `generate_information` (features, hash, grouping),
`transform_data`, `node_tree2state`, `formulation_state`, `optimization_state` and the LLVM
module in this order. The stages share the maps `gather_map`, `scatter_map`, `reduction_map`
(feature of every chunk), `same_feature_map` and `same_feature_range_map` (grouping), and the
streams, whose addresses are compiled into the kernel as constants. The kernel shares `x` and `y`
with its caller; the caller runs the tail loop afterwards.

Hard behaviour, and where it is looked at (the full list, with lines, is `hazards` in
`PROJECT.json`):

* the order in which two `unordered_map`s are iterated decides where words are laid out, and a
  later iteration decides when they are read: `StreamsInStep`, `StreamsConsumed`;
* a loop is generated from the *first* chunk of a group; for all others it relies on the hash:
  `HashFixesOutput`, `HashFixesFeature`, `StreamsInStep`;
* buffer sizes are added up by other formulas than those by which the buffers are filled, and in a traversal of
  their own: of all chunks for data, gather and reduction, of groups and ranges for scatter: `StreamsFit`;
* lanes of one vector that write one output element must be summed first, and the sum must sit in
  the lane that is stored last: `EveryLaneAddedOnce`;
* run detection advances two nested cursors by hand and relies on increasing index vectors:
  `GroupsIncreasing`, `ExactlyOnce`, `MatchesReference`;
* an index vector that run detection has emptied stays in the map and is read at position 0;
* `need_node_` is counted up by constructors while parsing and counted down while statements are made;
  a node whose count does not reach zero is never worked off: `NeedCountsUses`, `NothingMissing`;
* `gather_set`, `load_set` and the others are corrected by hand as the parser learns what an array is
  used for, and later stages trust them instead of the tree: `SetsMatchTree`;
* all loops are made from one list of statements, by passes that keep what they have loaded by the
  *name* of an index array and are each told which variables may be assigned to again:
  `KernelComputesStatement`, `NoFatal`, `EveryUseDominated`;
* the same list's variables have their types changed by every loop (`set_type`), and the next loop finds
  them so: `NoTypeFails`, `OperandsAgree`;
* the file of a matrix is read as numbers without lines; one entry in another format than the banner
  names shifts all behind it: `ReadsTheLines`;
* the blends, masks, permutations and addresses of the micro-benchmarks are written by hand for every number of
  loads, in the code and in files: `ChecksPass`, `ChecksCoverAll`;
* some legal inputs end the process half way through compilation (`LOG(FATAL)`, `CHECK`): `NoExit`.

## 2. The modules

| module | extends | what it is |
|---|---|---|
| `Grouping` | - | the two grouping passes, one action per iteration; state machine, properties, inductive invariant |
| `GroupingProofs` | `Grouping`, `TLAPS` | the proofs, with those that the ranges are the maximal runs |
| `CsrBuild` | - | from the entries of a file to CSR and `row_ptr_all`; state machine, properties, inductive invariant |
| `MatrixInput` | `CsrBuild` | from the first line of the file; refines an instance of `CsrBuild` |
| `MatrixInputProofs` | `MatrixInput`, `TLAPS` | the proofs about `CsrBuild`, with those that the arrays hold the matrix, and the refinement |
| `Features` | - | the feature of one chunk, as operators |
| `Kernel` | `Features` | what is laid out for a chunk, how much room is set aside, and what generated code does with the words, as operators on lanes |
| `FeatureScan` | `Kernel` | the scan loops over one chunk, one action per iteration, and what laying out and running their result gives; inductive invariant |
| `ScanProofs` | `FeatureScan`, `LaneProofs` | proofs: the scan loops compute the feature, and what is made of it gathers and adds the chunk |
| `FeatureHash` | - | `HashCombine` on four limbs of 16 bits (TLC's integers have 32) |
| `SparseAdd` | - | the abstract specification: elements are added in any order, each once |
| `DynVec` | `Kernel`, instances of `Grouping` and `SparseAdd` | one call of `compiler` and one run of its kernel, from index arrays to output; inductive invariant |
| `LaneProofs` | `Kernel`, `TLAPS` | lemmas: sequences laid end to end, sums over sets; proofs: what laying out, gathering and storing one chunk does, for every index vector |
| `DynVecProofs` | `DynVec`, `LaneProofs`, an instance of `GroupingProofs` | proofs: the words of a feature determine the code made from it; the cursors stay in step with the loops |
| `FitProofs` | `DynVecProofs` | proofs: the streams fit the memory set aside; the kernel implements `SparseAdd`; the result |
| `Parser` | an instance of `CodeSeed` | from tokens to the graph of nodes and the tables of names, one action per token; inductive invariant |
| `ParserProofs` | `Parser`, `TLAPS` | proofs: the graph is the text, and one that `CodeSeed` may start from |
| `CodeSeed` | - | the work queue that puts the nodes of a graph into the order of statements; inductive invariant |
| `CodeSeedProofs` | `CodeSeed`, `TLAPS` | the proofs |
| `Lowering` | `CodeSeed` | from the graph of nodes to the generated function, and one run of it on symbolic words |
| `Types` | - | types, the type and the `CHECK` of every constructor of a statement, the types there is code for, as operators |
| `Typing` | `Lowering`, an instance of `Types` | `Lowering` with the type of every variable, loop after loop |
| `LoadPermute` | - | the micro-benchmarks: one program from the files to the last check |
| `MCFeatureScan`, `MCFeatureHash`, `MCDynVec`, `MCMatrixInput`, `MCParser`, `MCLowering`, `MCLoadPermute` | the above | chunks, shapes, hash functions, banners, texts, statements and kinds of loops, programs with their files, for TLC |

### Grouping

`hash_info`, `order_type` and `write_local` are inputs (what the features say of each chunk);
`same_feature_map` and `same_write_pattern_map` are functions from hashes to sequences, an absent
key being the empty sequence. `CombinSameFeature` is an iteration of the first loop.
`VisitOther` and `VisitEqual` take *any* key that is left, because the order of an
`unordered_map` is unspecified; `ExtendRun`, `CloseRun`, `FinishKey` are the inner scan, with
`begin` and `j` for the cursors `i` and `j` of the code. The second pass of the code over
`range_vec`, which moves the runs already measured, is folded into `CloseRun`: it reads only what
the first pass wrote and what neither changes. `FinishKey` keeps a key whose index vector became
empty, as the code does.

`order_type` is a function of the hash in `Init`. That is a fact about the hash, not about this
component; run `hash` checks it (`HashFixesOutput`) for the real hash.

### CsrBuild

One action per iteration of each loop of `matrix_read_csr`: `ReadEntry`, `CountMirror`, `Scan`,
`PlaceEntry` or `PlaceMirrored`; `Allocate` is everything between scan and placing (lines 199 to
205), `ExpandRow` an iteration of the loop in `main` that makes `row_ptr_all`. `counter` is the one
array `csrRowPtrA_counter` in its three roles. The code tests `isSymmetric` once before each loop
and has a loop of its own for files that are not symmetric; its body is that of the diagonal, and
`OffDiagonal` joins the two. For such files `CountMirror` passes over the entries and changes
nothing. `Unset` is what `malloc` leaves behind.

`isSymmetric` is set for symmetric and hermitian banners only. A skew-symmetric file stores half of
its matrix too, and the code reads it as a general one. Values are not modelled: lines 254 to 263
replace all of them by `rand() % 10`.

### MatrixInput

`CsrBuild` is handed lines; `fscanf` sees numbers. `MatrixInput` has the file as the code sees it: a
banner (a sequence of words), a header (lines that are comments, blank, or hold the sizes) and
`Numbers`, the numbers of all entries one behind the other, two or three to an entry. `phase` is
how far the reader is, `line` and `at` are its places in the header and among the numbers, `matcode` is the
`MM_typecode`. `mm_read_banner` accepts and refuses as `mmio.c` and `main` do;
`mm_read_mtx_crd_size` looks for the sizes line by line up to the first line that is not a comment, and
number by number from then on, so that a comment behind a blank line ends the file (`SkipBlank`).
`ReadNumbers` is one `fscanf` and the rest of the first loop; `Reads` is the format it uses. From there
on the loops are those of `CsrBuild`.

`Lines == INSTANCE CsrBuild WITH isSymmetric <- Mirrors` is the refinement mapping: `isSymmetric` is a
flag the reader sets late, `Mirrors` what the banner says. `ReadsTheLines == Lines!Spec` holds if no
number is taken for another, whatever the banner. A file of format `array` is accepted, though its
sizes are two numbers; the phase is then `astray` and the model does not go on.

### Features, Kernel, FeatureScan

`Features` follows `tools_set.cpp` and `bit2addr.cpp` operator by operator: `OrderOf` is
`get_order_type`, `Heads` the lanes `get_mask` marks, `GatherInfo`, `ScatterInfo`,
`ReductionInfo` what `generate_*_info_elem` return. A mask is an integer as in the code, since
its value is a loop width for unordered indices and a bit set for increasing ones; for four lanes
it is the packed permutation itself (`Packed`).

`Kernel` has both sides of the layout convention: `GatherSlots`, `ReductionSlots` are what
`rearrange_elem` copies for a chunk, `GatherNeed`, `ScatterNeed`, `ReductionNeed` what
`malloc_new_data` counts, `GatherWidth`, `ReductionWidth` what one iteration of a generated loop
steps over. `GatheredFrom` and `Accumulated` are the meaning of the statements that
`OptimizationPass` builds: which array element ends up in which lane, and what the output holds
afterwards. A lane holds a *bag* of terms; floating point addition is bag union, so that a lost
term and a term added twice are both visible, and rounding is not.

`FeatureScan` runs `get_order_type`, `get_mask`, the block search of
`generate_gather_disorder_info_elem` and the search for partners of the reduction rounds lane by lane
and block by block and compares the result with `Features`; then it gathers and accumulates the chunk
with `Kernel`. `ScanInv` says what each loop knows in the middle: it is checked, and proved to be inductive.

### Parser

`pc` names the point of the code at which the next token is read, `frames` is the call stack of
`ParseInputExpr`, which is recursive. Each action reads at most one token and does everything up to
the next read or return, so that a path that ends in `LOG(FATAL)` still shows in what state it does.
`heap` holds the nodes in the order of their `new`, and a node is its position there. The text is
chosen while it is read: a beginning from `Given`, then at most `Free` tokens of `Loose`.
The characters of a token are not modelled; the tokenizer never makes `Equel` (it is in the enumeration
only), so "+=" is the one way to assign.

`TreeIsText` compares the graph with the text by writing the graph out again, and `SetsMatchTree` the
four sets with the graph. Four things the parser accepts without a word are visible in the model:
operators have no precedence and all associate to the right (`a * b + c` is `a * (b + c)`); the index
of the output need not be an iterate; a bare array or iterate may be an operand; `c[i] * x[c[i]]`
takes `c` out of `load_set` although it is loaded too. The last two end later stages with
`LOG(FATAL)` rather than wrong code.

### CodeSeed

A node is a number and its statement is the node. `kids[n]` are its operands in the order in which
`generate_code_seed` looks them up, one `find_var_from_node_tree` each; `Emit` is the rest of the loop
body. `Graph` says which graphs the parser hands over, and `Init` that `need` counts the uses. That the
parser ends only with such graphs is the property `HandsOver` of `Parser` (its tables and nodes, substituted for the
variables of `CodeSeed`, satisfy `Init`): the two modules meet there, and the theorem `ParserImplementsGraph` makes
everything proved of `CodeSeed` a statement about every text the parser accepts.

### Lowering

`stage` follows `IntelligentUnroll::compiler` from line 108 on: `function` (`generate_func`), `seed`
(a step is one of `CodeSeed`), `formulate`, then for every loop `loop`, `optimize` and `redirect`, and
`generate` (the code generator) and `run`. Each action is the visit of one statement. A variable is a
number: in the seed that of its node, later one from `fresh`; `mutable` are those with
`is_const_ = false`. `stream` has the pointer variables the loops step along, `has_load` the two
`gather_scatter_has_load_info` maps of the pass at hand, `change` the substitution of
`FormulationPass` and then of `RedirectVarPass`, and `var_val_map` the variables the code generator
knows. What the loops are made *for* is `plan`: per loop the order of every index array, the number of
rounds, and the number of chunks per iteration; `generate_information` decides it, and here any plan is
possible. Statements that only move lanes about (shuffles, masks, casts) are one instruction with the
gather or sum they belong to.

The function is then run. A word read from a stream is `<<"words", stream, place, width>>`, and other
values are terms over such words, so that two values are equal only if they were computed in the same
way from the same places. `Stored(u)` is the term the statement asks for, over the places at which
`transform_data` has put the words of unit `u`; `Layout` adds these places up without looking at the
loops.

The statements are `a[i]`, `x[c[i]]`, `a[i] * x[c[i]]`, `x[c[i]] / z[c[i]]` (two gathers with one
index, as in `app/pagerank.cpp`), `x[c[i]] * z[d[i]]`, `a[i] + b[i] * x[c[i]]` and
`x[c[i]] * (z[d[i]] + a[i])`, each added to `y[r[i]]`, in graphs with the nodes in the order in which
`Parser` makes them.

### Types, Typing

A type is a basic one with lanes or a pointer to a type, as in `type.hpp`. In `Types` a statement is its
type; a constructor whose `CHECK` fails gives `Fault`, and so does whatever is built on it. `Type::init_type`
leaves some types unset (`__double_ptr_v` for 16 lanes, `__float_v` for 4): these are `Unset`, the zeroed static object.
`Binary` looks at its first operand only, as the code does.

`Typing` runs `Lowering` with three more variables: `type[v]` is `type_` of variable `v`, `made[v]` that of the
statement `formulation_state` made for it, `precision` that of the data arrays. Each action is one of `Lowering` together with the types it
gives. That types are state matters since all loops are made from one list: `OptimizationPass` calls
`set_type` on the variables of that list before it makes its own statement (`state_optimization.cpp:111`), and the
loop after finds them so. `NoTypeFails` says that no order of loops makes a `CHECK` fail and that the
code generator has a case for every statement; `OperandsAgree` says what nothing checks, that the second operand of an operation
has the type of the first. Double data and rounds of a chunk that is not in order are left to run `select_types`.

### LoadPermute

A program is a member of `Builds`: gather or scatter, AVX2 or AVX512, the lanes, and the contents of
`perm.dat` and `select.dat` as they are in the repository (`MCLoadPermute`). A register is a function from words to
words of `A`, for AVX2 with doubles two words an element, since the permutation is one of words there. `Blends(n)`
is the order in which `read_with_<n>xload` joins its loads, `Blended` runs it with the
masks of its row of `select` and the rows of `perm`. `init_para_select` reads
the file up to `-1`, up to a full row or to the end. `B` is filled per lane for the gather and per load for the
loads (`INIT_GATHER_INDEX`, `INIT`), and `EvalReference`, `EvalLoads` are the calls of `EVAL` with growing sizes. `C` and `C2` keep
what the test before wrote. `Garbage` is what `malloc` or the stack may leave in a row of `perm` no line of the
file fills.

### DynVec

`stage` goes through `generate`, `optimize`, `kernel`, `tail`, `done` (or `exit`, where the code
calls `LOG(FATAL)` or fails a `CHECK`). `GenerateInformation` is a step of `Grouping`.
`TransformData` picks an iteration order for each map and lays out the four streams;
`OptimizationState` makes one record per loop, holding *only* the feature of the first chunk, and
the lengths of ranges; the two use one iteration order because neither changes a map between.
`GroupIteration`, `BeginRange`, `RangeIteration`, `NextLoop` execute the loops, advancing
`cursor`; words past the end of a stream read as `Lost`. `TailIteration` is the scalar loop of
`spmv_dynvec`. `HashOf` is a parameter: the identity on feature words (`IdealHash`) or the real
hash.

`A == INSTANCE SparseAdd WITH done <- Added` is the refinement mapping: `Added` are the elements
whose term is in the output.

`HashSeparates` is what `combin_same_feature_together` takes for granted of the hash: chunks of one hash
can share a loop. It is not an assumption of the module, since the real hash breaks it for eight lanes.

## 3. What is checked

| run | model | shows |
|---|---|---|
| `grouping` | 5 chunks, 2 hashes, 2 locations, all assignments, all orders of the map | every chunk is placed once; ranges are exactly the maximal runs (`MatchesReference` compares with a definition by intervals) |
| `matrix_input` | 3 x 3, all files of 3 entries, 20 banners (12 accepted), 4 headers | entries are read as the banner says; no place is written twice or in the wrong row; columns and `row_ptr_all` are the matrix |
| `scan` | all 4^7 chunks of 8 lanes with steps -3, 0, 1, 2 | the scans compute the feature and end, and know in between what `ScanInv` says; words laid out = words counted = words read; every lane gathered and added once |
| `hash` | all 1408 features of four lanes and all 17160 of eight | the 64-bit hash is injective for four lanes; for eight, chunks of one hash at least agree on how to write the output |
| `dynvec_4_lanes` | 4 chunks of 4 doubles and a tail | streams stay in step, are consumed to the end; the kernel implements `SparseAdd` |
| `dynvec_8_lanes` | 3 chunks of 8 floats and a tail | two and three reduction rounds next to ranges with none; the inductive invariants `IInv` and `SumInv`, hence streams in step; streams fit their buffers; the output is the plain sum; everything ends |
| `parser` | fixed beginnings of a text, then up to `Free` tokens of any kind in `Loose` (`MCParser`) | the graph is the text, and one `CodeSeed` may start from; the name sets agree with it; in between, for texts that are refused as well, the inductive invariant `ParserInv` |
| `lowering` | 7 statements; single loops with every order of the output and of two index arrays, 0 or 2 rounds, 2 chunks or ranges of 2 and 3; four pairs of loops | operands before uses, one statement a node, none missing; variables found, defined once, and their definitions dominate; the stores are the statement over exactly the words laid out; with float and double, no check of types fails and operands agree |
| `load_permute` | 8 programs with their files, `EVAL` at 16, 32, 64 | every check compares what its own test wrote, all of it, and passes where the file has the rows |
| `hash_collision` | 2 chunks of 8 floats, the real hash | **violated**: see below |
| `select_types` | 1 chunk of 8 doubles | **violated**: see below |
| `perm_rows` | the same 8 programs | **violated**: see below |

Bounds, and why they are enough.

* Lane counts are those of the targets: 4 (AVX2 double), 8 (AVX2 float, AVX512 double), 16
  (AVX512 float). All formulas branch on `Vector > 4` and `Vector > 8`, so no other value exists. `DynVec` is
  checked with 4 and 8, the scans with 8 (and proved for all three); registers of 16 lanes are in `load_permute`.
* Steps of a scan: the code compares a lane with the one before (equal, one more, else) and with
  the lowest lane (less than `Vector` above it, or not). 0, 1, 2 and -3 hit every outcome; seven of them span
  from one block to four, end exactly at the edge of a block, and repeat an index up to eight times, next to each other or apart.
* Five chunks: a run of two, a run of three, two runs apart by a chunk of another hash, and a run
  interrupted by another location all fit; the proofs cover every number.
* Three entries in three rows: empty rows, a full one, repeated entries, an entry together with its
  mirror image, and the diagonal; the proofs cover every size.
* Two iterations of a loop, and ranges of one to three chunks: an offset of a stream that is wrong after
  one iteration shows in the second; two loops one after another, in all three combinations of groups and
  ranges, and a group left empty by its range: a variable or pointer carried from one to the next wrongly shows there. Eight lanes: the
  permutation of a gather is part of the stream (with four it is part of the code and takes no words).
  The order of `CodeSeed` is proved for every graph.
* `EVAL` starts at 32, doubles up to 65536 and then adds 65536 up to 8388608. With 16, 32 and 64 it passes the
  change from doubling to adding and ends exactly at `nnz`, as the real sizes do; four registers of 16
  lanes are the fewest with more than one step of each kind.
* Four chunks in `dynvec_4_lanes`: two ranges, in one key or in two, or one range and two groups;
  all orders of both maps.
* Row shapes cover all three order types (`IncContinue` does not exist at 16 lanes); column shapes
  repeat, jump and permute.
* `CHECK_DEADLOCK FALSE`: all these programs end.

Fairness is `WF_vars(Next)` only: the program is one thread that does not block, so some step is
taken while one is possible. No order of map iteration is assumed.

### What the violated runs show

`hash_collision`. Chunks are grouped by the 64-bit key alone. For eight lanes, the column words
196815 and 196853 (both `IncContinue`: lanes {0,1,2,3,6,7} and {0,2,4,5,6,7} start a new element)
collide under the row word 196649. The second chunk is then expanded with the shuffle of the
first, every term of it that is not in the same place is multiplied with the wrong element of
`x`, and the test of `app/spmv.cpp:234` (`check_equal`) fails.
Run `hash` shows that no collision among the features of eight lanes changes how the *output*
is written, so the damage is confined to wrong operands.

`select_types`. `pass_(Add)` builds `Select` from `fzero_vec_const_` whatever the data type is,
and `Select` (`statement/statement.hpp:794`) requires its operands to have one type. Eight
doubles and an unordered output chunk that repeats a row end the process during compilation.

`perm_rows`. `avx512-input/single-input/perm.dat` has 15 rows of 16 numbers; `init_para_perm`
(`common.h:129`) reads `VECTOR_LEN = 16` of them and does not look at what `fscanf` returns. `perm[15]` is what the stack
held, the test of 16 loads permutes its last load by it, and its check (`gather.cpp:456`) prints `ERROR`
unless the stack held a row that puts the lane in its place. `ChecksPass` says the same of all tests whose rows are there, and holds.

## 4. What is proved

`GroupingProofs` proves for every number of chunks, every set of hashes and every set of
locations (`GroupingAssumption`: the number is natural, `NoKey` is no key):

| theorem | states |
|---|---|
| `InvariantHolds` | `Spec => []IInv` |
| `TypeCorrect` | `Spec => []TypeOK` |
| `GroupsStayIncreasing` | `Spec => []GroupsIncreasing` |
| `EveryChunkExactlyOnce` | `Spec => []ExactlyOnce` |
| `EveryRangeIsARun` | `Spec => []RangesAreRuns` |
| `RunsStayWhole` | `Spec => []WholeInv` |
| `ResultIsReference` | `Spec => []MatchesReference` |

`ExactlyOnce` speaks of the end only, so it is not inductive. The invariant `IInv` says what holds
in between: while chunks are appended, a group holds the chunks of its key below the cursor; a key
still to be visited holds all its chunks in its group and has no range; a visited key has each of
its chunks in exactly one place; and for the key being scanned, the chunks before `begin` in the
index vector are in exactly one of `new_index_vec` and the ranges, the chunks from `begin` on in
neither, and the stretch `begin .. j - 1` is a run without gaps. The last part is what makes
`RangeOfRun`, a pair of chunk *numbers* taken from *positions*, cover precisely the chunks
scanned, and it needs the index vector to be increasing, which is why `GroupsIncreasing` is part
of it.

`MatchesReference` says more than that every range is a run: no run may be cut short. For this `WholeInv`
keeps that each range, and each chunk left alone, has on both sides a chunk of another key or location, or
none. When the scan closes the stretch `begin .. j - 1`, it has compared the chunk at `j` with the one at
`j - 1`; that a *chunk* next to the run is not in the key at all follows from the index vector holding every
chunk of its key in increasing order (`RunIsWhole`). At the end, two runs bounded in this way that share a
chunk are equal (`BoundedHolds`), so the ranges are those of the reference definition.

`MatrixInputProofs` proves of `CsrBuild`, for every number of rows, columns and entries (`CsrAssumption`: rows and
columns are positive) and every file:

| theorem | states |
|---|---|
| `IInvCorrect` | `Spec => []IInv` |
| `TypeCorrect` | `Spec => []TypeOK` |
| `WritesFreePlaces` | `Spec => NeverOverwritten` |
| `ColumnsCounted` | `Spec => []MatrixInv` |
| `ArraysHoldTheMatrix` | `Spec => []CsrIsMatrix` |

`Count(r, k)` is what row `r` receives from the first `k` entries, mirror images included, and
`Total(r)` what it receives from all. The invariant says what `counter` is in each loop: a partial
histogram, then `Total(r)` above the cursor of the scan and starts of rows below it, then
`Count(r, i)`. The scan also keeps `counter[r] + Total(r) <= counter[s]` for all rows `r < s` it
has passed. This is carried along step by step since it cannot be had afterwards by induction over
rows, and it is what keeps rows apart. An entry still to be placed makes `Count(r, i)` smaller than
`Total(r)` (`CountStep`), so its place is free and in its row (`FreePlace`).

Which column is where needs no mapping from elements to places. `MatrixInv` counts: row `r` holds column `c`
in as many places as entries placed so far are an element `(r, c)` (`ColumnsPlaced`). An entry without
mirror image is one element and takes one place, in no other row (`FreePlaceInRow`); one with a mirror image is two
elements in two rows (`PlaceMirroredColumns`). The expansion writes the row into the places of
that row, and places below `row_ptr[i]` are those of the rows passed (`Expanded`), which needs `row_ptr[0]` to be 0.
At the end every place has its row, rows share no place (`RowsApart`), and the counts are those of the file.

Of `MatrixInput` it proves, for every size, every set of banners and of headers, and every file:

| theorem | states |
|---|---|
| `NumbersInStep` | `InputSpec => []InputInv` |
| `ReaderImplementsLines` | `InputSpec => ReadsTheLines` |

The invariant says that from the banner on `matcode` has the field and the symmetry of the file, and that
before each `fscanf` the place among the numbers is `PerEntry * i`: the field decides both how many numbers
an entry has and how many the code reads. Then a read of numbers is the read of a line (`NumbersOfEntry`,
`ReadStep`), the steps of the header change nothing `CsrBuild` can see (`HeaderStep`), and the other steps are
those of `CsrBuild` with `isSymmetric` equal to `Mirrors` (`BuildStep`). So the theorems about `CsrBuild`
hold of the reader.

`CodeSeedProofs` proves for every graph that `Graph` allows:

| theorem | states |
|---|---|
| `TypeCorrect`, `Invariance` | `Spec => []TypeOK`, `Spec => []IInv` |
| `DefinedBeforeUse` | `Spec => []UsersFirst` |
| `NoneTwice` | `Spec => []OncePerNode` |
| `Complete` | `Spec => []NothingMissing` |

The invariant needs to know what the queue is: exactly the nodes all of whose uses have been counted
down and that have not been worked off (`QueueIsWaiting`), and `need[m]` is the number of uses that
have not (`NeedCountsOpen`). Uses of the node being worked off count until their operand is looked up.
`NothingMissing` is then an argument about the end: were a node left out, take the youngest
one; all its users are younger, hence worked off, hence it has no open use, hence it is in the
queue, which is empty. Its well-foundedness is `WFMin` of the library.

`ParserProofs` proves for every set of names and every text (`ParserAssumption`: a name is none of the other tokens):

| theorem | states |
|---|---|
| `ParserInvariant` | `Spec => []ParserInv` |
| `TypeCorrect` | `Spec => []TypeOK` |
| `NeedIsCounted` | `Spec => []NeedCountsUses` |
| `TextIsTree` | `Spec => []TreeIsText` |
| `SetsAreOfTree` | `Spec => []SetsMatchTree` |
| `ParserImplementsGraph` | `Spec => []HandsOver` |

The parser is recursive, and what it has read is spread over the call stack, the nodes and the text. Three parts of
`ParserInv` tie them together. `Pending`: nodes wait for their user in the order in which they were made, those of the output first,
then what each call holds, then `node`, and every other node but a leaf has a user. This is why a node never gets one operand
twice and why uses are counted once (`MadeNode`, which all actions that make a node within an expression
share). `StatementRead`: the text ends with a colon and the pieces that the calls under way stand for, one after the
other, and then the words of `node`. A call adds a piece (`PiecesAppend`); a
return makes one node of the last piece and `node`, whose words are just these (`ReturnRightText`, `ReturnIndexText`).
Nothing is read before its node is made, so the argument needs no grammar and no induction over the depth of an expression: each step
changes only the end of the text and the top of the stack. `SetsFollowTree`: the four sets at any time, with the one
exception that an array loaded by itself after it served as an index is in `load_set` again.
`Words` is a recursive function over the heap; that it exists and that later nodes do not change the words of earlier
ones (`WordsExist`, `WordsKept`) rests on operands being older than their node (`HeapWellMade`). The rest of `ParserInv` says where in the code what can be
open (`Stack`, `Rooted`, `TokensRead`). `HandsOver` follows at the end: only the root is unused (`Rooted`), and counts are
those of `NeedCountsUses`. Run `parser` checks `ParserInv` before it is proved.

`LaneProofs`, `DynVecProofs` and `FitProofs` prove for every number of chunks, 4, 8 or 16 lanes, every set
of index arrays, every tail, every set of hashes and every order in which the two maps list their keys
(`DynVecAssumption`: there is a chunk, index arrays are arrays of naturals, the tail is shorter than a vector;
`HashAssumption`: `Key` has the hashes of the chunks):

| theorem | states |
|---|---|
| `WordsSeparate` | `NoCollision => HashSeparates` |
| `GatheredIsIndex` | the lanes that `GatheredFrom` fills from the words of a chunk are its indices |
| `AccumulatedIsSum` | `Accumulated` adds to each location the terms of the lanes that name it |
| `StepsKeepTheInvariant` | `HashSeparates => (Spec => []StepInv)` |
| `KernelStaysInside` | `HashSeparates => (Spec => []TypeOK)` |
| `LoopsReadTheirChunks` | `HashSeparates => (Spec => []StreamsInStep)` |
| `KernelReadsEveryWord` | `HashSeparates => (Spec => []StreamsConsumed)` |
| `CompilerKeepsTheInvariant` | `HashSeparates => (Spec => []IInv)` |
| `StreamsFitTheirMemory` | `HashSeparates => (Spec => []StreamsFit)` |
| `OutputIsKnown` | `HashSeparates => (Spec => []SumInv)` |
| `KernelAddsEveryElementOnce` | `HashSeparates => (Spec => AddsEveryElementOnce)` |
| `OutputIsTheSum` | `HashSeparates => (Spec => []ResultCorrect)` |

The hypothesis. `HashSeparates` says that two chunks of one hash have the same order types, the same masks
and the same number of rounds, which is all that `optimization_state` takes from a feature. Without it the
theorems are false: run `hash_collision` shows it for the real hash and eight lanes. `WordsSeparate`
proves that a hash without collisions is enough, so nothing else can go wrong: order and mask can be read
off a feature word (`WordIsFeature`), and the number of rounds off the word of a reduction. Run `hash`
finds that the real hash has no collision among all features of four lanes, so for four lanes
the theorems hold of the program as it is.

The invariant. The property wanted is that each iteration of each loop reads the words of its own chunk.
Its reason is that words are laid end to end in the order of the loops, so `StepInv` says: the four streams
are the words of the chunks of all groups and then of all ranges, one behind the other (`StreamsLaid`);
each loop is made from a feature that is that of every chunk it runs over (`LoopsMade`); and each cursor is
the length of the words of the chunks passed so far (`LoopsInStep`). How many chunks are passed is a function
of `at`, `iter` and `inner`. It differs from stream to stream: a range lays out its row once and its columns for every
chunk, and `inner` counts down, so the chunks passed in the middle of a range are those of all ranges
begun, less `inner`. `FeaturesKnown` ties features to hashes, `NotStarted` keeps the cursors at 0 before
there are loops. That no loop over ranges misses a chunk, and that a range is not empty, comes from
`Grouping`: its invariant is part of `StepInv`, and its lemmas `InitIInv` and `NextIInv` are used through
`INSTANCE GroupingProofs WITH Local <- Output`, so that they are not proved a second time.

`FlattenSeq` and `MapThenSumSet` are recursive functions. Both are folds; that a fold over a set or sequence has the value
its recursion asks for is proved once, in `LaneProofs`, from the fact that a set which has 0 and is closed under successors has all naturals (`SetInduction`). From then on
the proofs use `FlattenFacts` and `PartInPlace` (where the words of a chunk lie in the whole), and for sums
`SumsFacts` (a member can be taken out).

The buffers. For data, gather and reduction `malloc_new_data` adds up needs over all chunks while `rearrange` follows
groups and ranges; the scatter overload (`transform_data.cpp:141`) adds them up over the chunks left in groups and
the first chunk of each range (`CountedRows`). What is laid out fits for two reasons. No chunk is laid out that was
not counted. For scatter the two traversals agree place by place (`CountedRows = RowChunks`), so a sum with one term
for each place bounds it. For the others no chunk is laid out twice: a chunk is in one place of one group or range by
`ExactlyOnce` of `Grouping`, and no key is listed twice (`OrdersOnce`); a sequence that
lists no member twice, with at most `need[c]` words for each `c`, has at most as many words as the sum
of all needs (`LaidOutFits`). And each chunk has at most the words counted for it (`ChunkNeeds`). This is a
statement about masks, since `GatherNeed` counts bits where `GatherSlots` takes indices, and it is false for four lanes
and an unordered output chunk: the code ends the process at such chunks (`tools_set.cpp:258`), which is why
`Supported` is part of `IInv`.

The lanes. `LaneProofs` is about one chunk and any index vector; nothing in it depends on a state.
`GatheredIsIndex` has a case for each order. In an increasing chunk the index of a lane is the base plus the number
of heads up to the lane, less one (`IndexOfLane`), and the code knows the heads from the digits of a mask (`MaskIsHeads`,
`MaskLanes`). A chunk not in order that lies in one block is loaded from its base through a permutation, which is read from the mask with
four lanes (`PackedNibbles`) and from the stream with more (`PermIsAddr`); any other has an index laid out for each lane.

A store first sums the lanes of each location, in one of three ways: all lanes (`ReduceHolds`), the tree of `Bit2Addr` for
the runs of an increasing chunk (`TreeHolds`), rounds for a chunk not in order (`RoundsHold`). The last two are one
argument: number the lanes of a row 0, 1, 2, ...; when level `d` adds the lane `2^d` places on to every lane whose number is a
multiple of `2^(d+1)`, then such a lane holds `2^(d+1)` of them (`NextLevel`, `EveryLevel`). In a run lanes are numbered from the head
up, in a row of an unordered chunk from the highest lane down (`Taken`: those numbers that are no multiple are what `has_reduce`
marks). The levels suffice for the longest run (`TreeIsDeep`) and for the index that repeats most often
(`RoundsReach`). The sum is then where the store takes it from: `RunsAreRows` says that the compress plan brings the heads to the
front in the order of their locations, `LastWriter` that of all lanes that store to one location the one that
stays is the highest, which has number 0.

The sum. `StepInv` knows where the cursors are, not what has been added. `SumInv` adds what the output holds: the elements
of the chunks the data cursor has passed, except those that are only in the accumulator of the range being
summed (`HeldChunks`), and the elements of the tail below `element` (`Stored`, `AllAdded`); and the accumulator holds, in each
lane, the terms of that lane of the held chunks. Each step of the kernel then adds the elements of one chunk or
of one whole range: the words at the cursors are those of the chunk (`StreamsInStep`), hence each
lane has the term of its element (`ProductIsTerms`, from `GatheredIsIndex`), hence the store adds
these terms, each to its row (`StoreAdds`, from `AccumulatedIsSum`); no term is there already, since no chunk is laid out
twice. For a range the row is that of its first chunk; that it is the row of all of them is `RangesAreRuns`
of `Grouping` together with the order `OrderEquel` (`RangeRow`). `ArraysKnown` says that features are
those of the index arrays as they are now; `FeaturesKnown` says only that they are those of *some* arrays, which is enough
for cursors. The step of `SparseAdd` is the difference of `Stored` before and after (`StepAdds`).

The result. At the end the loops have passed all chunks laid out (`PassedFacts`), every chunk is laid out, since
`ExactlyOnce` puts it into a group or a range and the two maps list every key (`OrdersComplete`, `EveryChunkLaid`),
and no range is open; the tail is added to its end (`TailRead`). So `Stored` is `Element`, and the output is
`A!Sum(Element)`.

Run `dynvec_8_lanes` checks `SumInv`, of which `IInv` is a part, before it is proved; so was it with the constants of
`dynvec_4_lanes`.

`ScanProofs` proves for every chunk of 4, 8 or 16 lanes (`ChunksAssumption`: chunks are vectors of naturals):

| theorem | states |
|---|---|
| `LoopsKnowTheirLanes` | `Spec => []ScanInv` |
| `LanesShared` | `Spec => []TypeOK` |
| `ScanIsFeature` | `Spec => []ScanMatchesFeature` |
| `LayoutIsCode` | `Spec => []LayoutMatchesCode` |
| `LanesGathered` | `Spec => []EveryLaneGathered` |
| `LanesAdded` | `Spec => []EveryLaneAddedOnce` |

The properties speak of the end of the scan; `ScanInv` says what the loops know before. `Counting`: the two counters of
`get_order_type` count all lanes seen exactly if each of them is equal to the one before, or one above. `Masking`: the mask has the bits of
the heads seen, and a bit more is one power of two more (`OneLaneMore`). `Blocks`: the first block opened is that
of the lowest index, and when a second is opened a lane lies behind the first (`BlocksDone`). `Pairing` is about the
rounds. The code looks at the lanes from the highest down and marks in `has_reduce` each lane that another
takes in; `Features` says by counting which partner a lane has. That the two agree in the middle of a round
is `OneByOne`: number the lanes of an index from the highest down; a lane whose number is an even multiple of `w = 2^n` has not been
taken in, and no lane below it has been in this round, since the one that would take it in is at most `w` ahead; and a lane with an odd multiple has been, by one above it.
At the end of the round those left have the multiples of `2 w` (`RoundPairs`). So what the other modules take from `Features` is what
the loops of the source compute, and `GatheredIsIndex` and `AccumulatedIsSum` hold of it.

Only model-checked: of `DynVec` and `FeatureScan`, termination. `FeatureHash`: 64-bit products and shifts. `Lowering` and `Typing`, whose properties
are about the code for one statement; `LoadPermute`, where what is checked is tables of numbers. And liveness, which
is outside the prover's reach.

## 5. What is not modelled, and why

* The intrinsics the code generator chooses, the optimizations of LLVM and the JIT; printing of statements.
  `CodeGen_(Gather)` (`llvm_codegen.cpp:442`) tests its mask the wrong way round; since no gather of the
  program has one and LLVM takes a missing mask for all lanes, nothing comes of it.
* Arrays of float and double in one statement: `Typing` gives all data arrays one type, as the programs do.
* `DynVec` fixes one statement, with one array gathered and one scattered, and models values; `Lowering`
  takes any statement of its kind and models terms. They share the layout convention but are not composed.
* Statements the parser accepts and `Lowering` does not contain:
  `y[i] += ...`, which becomes a `Store` that `OptimizationPass` does not touch, so that every iteration
  would store at the beginning of `y`; an array loaded at two places (`x[i] * x[i]`), where each load
  steps the one stream; an output index that is gathered with too (`y[r[i]] += x[r[i]]`), whose stream and
  feature are overwritten by those of the gather; `c[i] * x[c[i]]` and bare arrays and iterates, which end
  with `LOG(FATAL)`.
* A second call of `compiler`: the character cursor of the tokenizer and the dispatch table of
  `LLVMCodeGen::CodeGen`, which holds the `this` pointer of the first object, are statics. No program of
  the repository compiles twice.
* Characters of a token.
* Rounding (bags instead of sums), and the reads past the end of `x` that a block load may make:
  no property here depends on the values in lanes that are not selected.
* `need_data_num` overflows after about 170,000 permuted chunks of four lanes, since the packed
  permutation is added up as if it were a count. No model has that many chunks.
* The functions of `mmio.c` nobody calls, the values of the matrix (replaced by random ones), and
  `pagerank_read`, a plain loop over a list of edges. A file that breaks the promise of its banner (too few
  numbers, a number that is none) and one of format `array`, whose first entry is read as sizes.
* A skew-symmetric matrix is read, as by the code, as a general one: no property says that its mirror images are there.
* The tests under `RUN_PURE`, which no Makefile defines; the addresses past the end of `A` that the last blocks of a
  test with many loads read are symbols like the others.
* Logging, timing, baselines.

## 6. Plan

1. (done) `Grouping` with proofs; `Features`, `Kernel`, `FeatureScan`; `FeatureHash`; `DynVec`
   against `SparseAdd`.
2. (done) `CsrBuild` with proofs, `MatrixInput` with the proof that it implements `CsrBuild`.
3. (done) `Parser` and `CodeSeed` with proofs, and the proof that the one hands over to the other.
4. (done) `Lowering`: `generate_func`, `formulation_state`, `optimization_state`, `redirect_var_state`
   and the table of variables of the code generator, up to a run of the code; `Typing` on top of it.
   (done) `LoadPermute`.
5. The statements named in section 5 as runs of `Lowering` that show what becomes of them: an array loaded
   twice, an index both gathered and scattered with, a store.
6. A second call of `compiler` with the static cursor of the tokenizer, in `Parser`.
7. Two gathered arrays in `DynVec` (`pagerank`), and `DynVec` composed with `Lowering`: the plan is what
   `Grouping` finds.
8. Proofs about `Lowering`: variables are defined once and definitions dominate uses, for every statement
   and every plan, from `UsersFirst` and an invariant that `fresh` is above every variable in use.
9. (done) The proof that `DynVec` implements `SparseAdd`.
10. (done) `FeatureScan`: the proof that its loops compute `Features` for every index vector.
