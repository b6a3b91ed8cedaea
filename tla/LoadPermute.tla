----------------------------- MODULE LoadPermute -----------------------------
(***************************************************************************)
(* The micro-benchmarks of DynVec-motivation: gather.cpp compares the      *)
(* gather instruction with loads that are permuted and blended into one    *)
(* vector, scatter.cpp compares a scatter with a permuted store.  It is    *)
(* the idea the plans of DynVec are built on, here with the permutations   *)
(* and the masks read from files.                                          *)
(*                                                                         *)
(* For k loads, load p is permuted by row p of perm.dat, and k - 1 blends  *)
(* join the loads, the n-th of them under the n-th mask of row k - 2 of    *)
(* select.dat.  Three things written by hand have to agree for every k:    *)
(* the rows of the two files, the order of the blends in the code, and the *)
(* two ways the array B is filled, with an index per lane for the gather   *)
(* and with an address per load for the loads.                             *)
(*                                                                         *)
(* A register is a function of words: with AVX2 a double is permuted as    *)
(* two words, elsewhere a word is an element.  The word <<a, h>> is part h *)
(* of A[a].  RUN_PURE is not defined: the tests under it are left out.     *)
(***************************************************************************)
EXTENDS Integers, Sequences, SequencesExt, FiniteSetsExt, TLC

CONSTANTS
  Builds,  \* a record for each program, width and type: see BuildType
  First,   \* 32, where EVAL starts
  Step,    \* STEP, the largest increase of EVAL
  Nnz,     \* TEST_SIZE
  Garbage, \* what an unset row of perm may hold, as a function of the words
  End,     \* the line -1 of select.dat
  Unset    \* what malloc leaves in an array

ASSUME LoadPermuteAssumption ==
  /\ First \in Nat \ {0}
  /\ Step \in Nat \ {0}
  /\ Nnz \in Nat \ {0}
  /\ \A b \in Builds :
       /\ b.program \in {"gather", "scatter"}
       /\ b.avx512 \in BOOLEAN
       /\ b.lanes \in {4, 8, 16}
       /\ First % b.lanes = 0 /\ Step % b.lanes = 0 /\ Nnz % b.lanes = 0

VARIABLES
  build,  \* the program and its macros
  pc,     \* where main is
  k,      \* the test: the number of loads (scatter: 0 in order, 1 in reverse)
  size,   \* the counter of EVAL
  reached,\* the size of the last call, for the reference and for the loads
  perm,
  select,
  cursor, \* the next line of select.dat
  B,      \* an index per lane, or (gather only) an address per load
  B2,     \* scatter: an address per store
  C, C2   \* the results, as words

input == <<perm, select, cursor>>
index == <<B, B2>>
results == <<C, C2>>
vars == <<build, pc, k, size, reached, input, index, results>>

VECTOR_LEN == build.lanes
Lane == 0 .. VECTOR_LEN - 1

\* The words of an element, and of a register: only AVX2 splits a double.
Halves == IF ~build.avx512 /\ VECTOR_LEN = 4 THEN 2 ELSE 1
Word == 0 .. Halves * VECTOR_LEN - 1
LaneOf(w) == w \div Halves
MaxMasks == IF build.avx512 THEN 15 ELSE 7

-----------------------------------------------------------------------------
(* Registers. *)

VLOAD(a) == [w \in Word |-> <<a + LaneOf(w), w % Halves>>]
VGATHER(ind) == [w \in Word |-> <<ind[LaneOf(w)], w % Halves>>]

\* The instructions look at the low bits of an index only.
VPERM(v, idx) == [w \in Word |-> v[idx[w] % (Halves * VECTOR_LEN)]]
VBLEND(a, b, sel) == [w \in Word |-> IF LaneOf(w) \in sel THEN b[w] ELSE a[w]]

\* perm2 of main: the elements of a register in reverse.
Reverse2 == [w \in Word |-> Halves * (VECTOR_LEN - 1 - LaneOf(w)) + (w % Halves)]

-----------------------------------------------------------------------------
(* The blends, in the order of the code: a positive number is a load, -n is *)
(* the result of the n-th blend.  Loads are first blended in pairs.         *)

\* LOAD_2(A, B, 2p - 2, 2p - 1, p - 1, res)
LOAD_2(n) == [p \in 1 .. n \div 2 |-> <<2 * p - 1, 2 * p>>]

\* read_with_2xload to read_with_4xload
FewLoads ==
  (2 :> << >>) @@ (3 :> << <<-1, 3>> >>) @@ (4 :> << <<-1, -2>> >>)

\* A slip: for 6 loads the last blend has its operands the other way round.
MoreLoadsSwapped ==
  (5 :> << <<-1, -2>>, <<-3, 5>> >>) @@
  (6 :> << <<-1, -2>>, <<-4, -3>> >>) @@
  (7 :> << <<-1, -2>>, <<-3, 7>>, <<-4, -5>> >>) @@
  (8 :> << <<-1, -2>>, <<-3, -4>>, <<-5, -6>> >>)

\* read_with_5xload to read_with_8xload, of builds with more than 4 lanes
MoreLoads ==
  (5 :> << <<-1, -2>>, <<-3, 5>> >>) @@
  (6 :> << <<-1, -2>>, <<-3, -4>> >>) @@
  (7 :> << <<-1, -2>>, <<-3, 7>>, <<-4, -5>> >>) @@
  (8 :> << <<-1, -2>>, <<-3, -4>>, <<-5, -6>> >>)

\* MERGE_2 in read_with_9xload to read_with_16xload, for 16 lanes
ManyLoads ==
  ( 9 :> << <<-1, -2>>, <<-3, -4>>, <<-5, -6>>, <<-7, 9>> >>) @@
  (10 :> << <<-1, -2>>, <<-3, -4>>, <<-6, -7>>, <<-8, -5>> >>) @@
  (11 :> << <<-1, -2>>, <<-3, -4>>, <<-5, 11>>, <<-6, -7>>, <<-9, -8>> >>) @@
  (12 :> << <<-1, -2>>, <<-3, -4>>, <<-5, -6>>, <<-7, -8>>, <<-10, -9>> >>) @@
  (13 :> << <<-1, -2>>, <<-3, -4>>, <<-5, -6>>, <<-7, -8>>, <<-10, -9>>,
            <<-11, 13>> >>) @@
  (14 :> << <<-1, -2>>, <<-3, -4>>, <<-5, -6>>, <<-8, -9>>, <<-11, -10>>,
            <<-12, -7>> >>) @@
  (15 :> << <<-1, -2>>, <<-3, -4>>, <<-5, -6>>, <<-7, 15>>, <<-8, -9>>,
            <<-10, -11>>, <<-12, -13>> >>) @@
  (16 :> << <<-1, -2>>, <<-3, -4>>, <<-5, -6>>, <<-7, -8>>, <<-9, -10>>,
            <<-11, -12>>, <<-13, -14>> >>)

Blends(n) == LOAD_2(n) \o (FewLoads @@ MoreLoads @@ ManyLoads)[n]

\* The register that n loads of the addresses from B[j] on end up in.
Blended(n, j) ==
  LET load(p) == VPERM(VLOAD(B[j + p - 1]), perm[p - 1])
      blended ==
        FoldLeft(LAMBDA done, b :
                   LET operand(x) == IF x > 0 THEN load(x) ELSE done[-x]
                   IN Append(done, VBLEND(operand(b[1]), operand(b[2]),
                                          select[n - 1][Len(done) + 1])),
                 << >>, Blends(n))
  IN Last(blended)

\* The stores of a loop over the first n elements: store b is of regs[b] at
\* addresses[b].
VSTORE(c, a, v) ==
  [w \in {a * Halves + x : x \in Word} |-> v[w - a * Halves]] @@ c

Loop(c, n, addresses, regs) ==
  FoldLeft(LAMBDA stored, b : VSTORE(stored, addresses[b], regs[b]),
           c, [b \in 1 .. n \div VECTOR_LEN |-> b - 1])

Block(n) == 0 .. (n \div VECTOR_LEN) - 1
InOrder(n) == [b \in Block(n) |-> b * VECTOR_LEN]

-----------------------------------------------------------------------------
(* The tests: what a call with nnz = n leaves in its array. *)

read_with_gather(c, n) ==
  Loop(c, n, InOrder(n),
       [b \in Block(n) |-> VGATHER([l \in Lane |-> B[b * VECTOR_LEN + l]])])

\* read_with_1xload_1xperm with perm2, and the tests of more loads
read_with_loads(c, n) ==
  Loop(c, n, InOrder(n),
       [b \in Block(n) |-> IF k = 1 THEN VPERM(VLOAD(B[b]), Reverse2)
                                    ELSE Blended(k, b * k)])

store_pure_inc(c, n) ==
  Loop(c, n, InOrder(n), [b \in Block(n) |-> VLOAD(b * VECTOR_LEN)])

store_pure(c, n) ==
  [w \in {B[i] * Halves + h : i \in 0 .. n - 1, h \in 0 .. Halves - 1} |->
     <<CHOOSE i \in 0 .. n - 1 : B[i] = LaneOf(w), w % Halves>>] @@ c

\* A scatter of AVX512 stores its lanes in order.
scatter(c, n) ==
  FoldLeft(LAMBDA stored, i :
             [w \in {B[i] * Halves + h : h \in 0 .. Halves - 1} |->
                <<i, w % Halves>>] @@ stored,
           c, [x \in 1 .. n |-> x - 1])

\* scatter_opt_1xstore_inc, and scatter_opt_1xstore with perm2
scatter_opt(c, n) ==
  Loop(c, n, B2,
       [b \in Block(n) |-> IF k = 0 THEN VLOAD(b * VECTOR_LEN)
                           ELSE VPERM(VLOAD(b * VECTOR_LEN), Reverse2)])

-----------------------------------------------------------------------------
Init ==
  /\ build \in Builds
  /\ pc = "perm"
  /\ k = IF build.program = "gather" THEN 1 ELSE 0
  /\ size = First
  /\ reached = [reference |-> 0, loads |-> 0]
  /\ perm = << >>
  /\ select = << >>
  /\ cursor = 1
  /\ B = << >>
  /\ B2 = << >>
  /\ C = [w \in 0 .. Nnz * Halves - 1 |-> Unset]
  /\ C2 = [w \in 0 .. Nnz * Halves - 1 |-> Unset]

\* A row the file does not have leaves its row of the array as it was.
init_para_perm ==
  /\ pc = "perm"
  /\ pc' = "select"
  /\ \E unset \in Garbage :
       perm' = [p \in Lane |-> IF p < Len(build.perm) THEN build.perm[p + 1]
                                                      ELSE unset]
  /\ UNCHANGED <<build, k, size, reached, select, cursor, index, results>>

\* A row ends behind the -1, or when it is full, or with the file.  What is
\* behind its last mask is not read by a test and left out.
init_para_select ==
  /\ pc = "select"
  /\ Len(select) < VECTOR_LEN - 1
  /\ LET rest == SubSeq(build.select, cursor, Len(build.select))
         ends == {m \in 1 .. Len(rest) : rest[m] = End}
         last == Min(ends \cup {MaxMasks, Len(rest)})
     IN /\ select' = Append(select, SelectSeq(SubSeq(rest, 1, last),
                                              LAMBDA mask : mask # End))
        /\ cursor' = cursor + last
  /\ UNCHANGED <<build, pc, k, size, reached, perm, index, results>>

EndSelect ==
  /\ pc = "select"
  /\ Len(select) = VECTOR_LEN - 1
  /\ pc' = "index"
  /\ B' = [i \in 0 .. Nnz - 1 |-> i]
  /\ UNCHANGED <<build, k, size, reached, input, B2, results>>

\* for k = 1 and in scatter: the elements of a register in reverse
FillReverse ==
  /\ pc = "index"
  /\ k <= 1
  /\ pc' = "reference"
  /\ B' = [x \in 0 .. Nnz - 1 |->
             LET j == x % VECTOR_LEN IN x - j + VECTOR_LEN - j - 1]
  /\ B2' = IF build.program = "scatter"
           THEN [b \in Block(Nnz) |-> b * VECTOR_LEN] ELSE B2
  /\ UNCHANGED <<build, k, size, reached, input, results>>

\* The first lanes go to the first elements of the k vectors from here on.
INIT_GATHER_INDEX ==
  /\ pc = "index"
  /\ k > 1
  /\ pc' = "reference"
  /\ B' = [x \in 0 .. Nnz - 1 |->
             LET j == x % VECTOR_LEN
             IN IF j < k THEN x - j + j * VECTOR_LEN ELSE x]
  /\ UNCHANGED <<build, k, size, reached, input, B2, results>>

\* Each block has k addresses, those of the k vectors; only the first
\* k * nnz / VECTOR_LEN places of B change.
INIT ==
  /\ pc = "pointers"
  /\ pc' = "loads"
  /\ B' = [x \in 0 .. k * (Nnz \div VECTOR_LEN) - 1 |->
             (x \div k) * VECTOR_LEN + (x % k) * VECTOR_LEN] @@ B
  /\ UNCHANGED <<build, k, size, reached, input, B2, results>>

-----------------------------------------------------------------------------
\* A slip: the size grows by STEP from the start.
AdvanceByStep(n) == n + Step

\* EVAL doubles the size up to STEP and then adds STEP.
Advance(n) == n + (IF n < Step THEN n ELSE Step)

EvalReference ==
  /\ pc = "reference"
  /\ size <= Nnz
  /\ C' = CASE build.program = "gather" -> read_with_gather(C, size)
            [] k = 0 -> store_pure_inc(C, size)
            [] OTHER -> store_pure(C, size)
  /\ reached' = [reached EXCEPT !.reference = size]
  /\ size' = Advance(size)
  /\ UNCHANGED <<build, pc, k, input, index, C2>>

\* In scatter the addresses are in B2 already, and with AVX512 the elements
\* in reverse are stored once more, with the instruction.
EndReference ==
  /\ pc = "reference"
  /\ size > Nnz
  /\ pc' = CASE build.program = "gather" -> "pointers"
            [] build.program = "scatter" /\ build.avx512 /\ k = 1 -> "scatter"
            [] OTHER -> "loads"
  /\ size' = First
  /\ UNCHANGED <<build, k, reached, input, index, results>>

EvalScatter ==
  /\ pc = "scatter"
  /\ size <= Nnz
  /\ C' = scatter(C, size)
  /\ size' = Advance(size)
  /\ UNCHANGED <<build, pc, k, reached, input, index, C2>>

EndScatter ==
  /\ pc = "scatter"
  /\ size > Nnz
  /\ pc' = "loads"
  /\ size' = First
  /\ UNCHANGED <<build, k, reached, input, index, results>>

EvalLoads ==
  /\ pc = "loads"
  /\ size <= Nnz
  /\ C2' = IF build.program = "gather" THEN read_with_loads(C2, size)
                                       ELSE scatter_opt(C2, size)
  /\ reached' = [reached EXCEPT !.loads = size]
  /\ size' = Advance(size)
  /\ UNCHANGED <<build, pc, k, input, index, C>>

EndLoads ==
  /\ pc = "loads"
  /\ size > Nnz
  /\ pc' = "check"
  /\ size' = First
  /\ UNCHANGED <<build, k, reached, input, index, results>>

LastTest == IF build.program = "gather" THEN VECTOR_LEN ELSE 1

\* check only prints: main goes on with the next test, or ends.
check ==
  /\ pc = "check"
  /\ IF k = LastTest THEN pc' = "done" /\ k' = k
     ELSE /\ pc' = IF build.program = "gather" THEN "index" ELSE "reference"
          /\ k' = k + 1
  /\ reached' = [reference |-> 0, loads |-> 0]
  /\ UNCHANGED <<build, size, input, index, results>>

Return == pc = "done" /\ UNCHANGED vars

Next ==
  \/ init_para_perm \/ init_para_select \/ EndSelect
  \/ FillReverse \/ INIT_GATHER_INDEX \/ INIT
  \/ EvalReference \/ EndReference \/ EvalScatter \/ EndScatter
  \/ EvalLoads \/ EndLoads
  \/ check \/ Return

Spec == Init /\ [][Next]_vars

-----------------------------------------------------------------------------
(* A check that finds no difference says that the two ways agree only if
   both arrays were written by this test, to their ends: the arrays keep what
   the test before left in them, and EVAL stops at the last size that is not
   larger than nnz. *)
ChecksCoverAll ==
  pc = "check" => reached = [reference |-> Nnz, loads |-> Nnz]

(* Every check prints PASS. *)
EveryCheckPasses == pc = "check" => C = C2

(* Every check prints PASS whose rows of perm.dat are there: the masks of its
   row of select.dat, the order of its blends and the two contents of B fit
   together. *)
ChecksPass ==
  pc = "check" /\ (k >= 2 => k <= Len(build.perm)) => C = C2
=============================================================================
