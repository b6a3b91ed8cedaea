------------------------------ MODULE CsrBuild ------------------------------
(***************************************************************************)
(* How matrix_read_csr (io_matrix/csr_matrix.cpp) turns the entries of a   *)
(* Matrix Market file into the row pointers and columns of a CSR matrix,   *)
(* and how app/spmv.cpp expands the row pointers into row_ptr_all, the     *)
(* access array that DynVec compiles.                                      *)
(*                                                                         *)
(* One array, csrRowPtrA_counter, is in turn the histogram of the rows,    *)
(* the exclusive scan of that histogram, and the number of places already  *)
(* taken in each row.  A symmetric file holds one of each pair of mirrored *)
(* entries; the other takes part in the histogram and in the placing, in   *)
(* two loops that have to agree.                                           *)
(*                                                                         *)
(* Rows, columns and places count from 0 as in the code, the entries of    *)
(* the file from 1.  Values are left out: the code puts random ones in     *)
(* their place.  The file is well formed: fscanf and the banner are not    *)
(* modelled.                                                               *)
(***************************************************************************)
EXTENDS Integers, Sequences, FiniteSets

CONSTANTS
  Rows,       \* m
  Cols,       \* n
  NumEntries, \* nnzA_mtx_report: the entries in the file
  Unset       \* what malloc leaves in an array

ASSUME CsrAssumption ==
  /\ Rows \in Nat \ {0}
  /\ Cols \in Nat \ {0}
  /\ NumEntries \in Nat
  /\ Unset \notin Int

Row == 0 .. Rows - 1
Col == 0 .. Cols - 1
Entry == 0 .. NumEntries - 1

VARIABLES
  file,        \* the lines of the file: row and column, from 1
  isSymmetric, \* the banner says symmetric
  pc,          \* which loop is running
  i,           \* its counter
  row_tmp,     \* csrRowIdxA_tmp
  col_tmp,     \* csrColIdxA_tmp
  counter,     \* csrRowPtrA_counter
  old_val,     \* the count the scan has replaced last
  row_ptr,     \* csrRowPtrA
  col,         \* csrColIdxA
  row_ptr_all  \* the row of each place

input == <<file, isSymmetric>>
tmp == <<row_tmp, col_tmp>>
vars == <<input, pc, i, tmp, counter, old_val, row_ptr, col, row_ptr_all>>

Init ==
  /\ file \in [Entry -> [row : 1 .. Rows, column : 1 .. Cols]]
  /\ isSymmetric \in BOOLEAN
  /\ isSymmetric => Rows = Cols
  /\ pc = "read"
  /\ i = 0
  /\ row_tmp = [e \in Entry |-> Unset]
  /\ col_tmp = [e \in Entry |-> Unset]
  /\ counter = [r \in 0 .. Rows |-> 0]
  /\ old_val = 0
  /\ row_ptr = [r \in 0 .. Rows |-> Unset]
  /\ col = <<>>
  /\ row_ptr_all = <<>>

-----------------------------------------------------------------------------
\* A slip: the diagonal is mirrored too.
SymmetricFile(e) == isSymmetric

\* The entry is off the diagonal of a symmetric file: it stands for two.
OffDiagonal(e) == isSymmetric /\ row_tmp[e] # col_tmp[e]

\* for (i < nnzA_mtx_report) fscanf
ReadEntry ==
  /\ pc = "read"
  /\ i < NumEntries
  /\ LET idxi == file[i].row - 1
         idxj == file[i].column - 1
     IN /\ counter' = [counter EXCEPT ![idxi] = @ + 1]
        /\ row_tmp' = [row_tmp EXCEPT ![i] = idxi]
        /\ col_tmp' = [col_tmp EXCEPT ![i] = idxj]
  /\ i' = i + 1
  /\ UNCHANGED <<input, pc, old_val, row_ptr, col, row_ptr_all>>

EndRead ==
  /\ pc = "read"
  /\ i = NumEntries
  /\ pc' = "mirror"
  /\ i' = 0
  /\ UNCHANGED <<input, tmp, counter, old_val, row_ptr, col, row_ptr_all>>

\* A slip: the mirror image is counted in the row of the entry.
CountTwice ==
  /\ pc = "mirror"
  /\ i < NumEntries
  /\ counter' = IF OffDiagonal(i) THEN [counter EXCEPT ![row_tmp[i]] = @ + 1]
                                  ELSE counter
  /\ i' = i + 1
  /\ UNCHANGED <<input, pc, tmp, old_val, row_ptr, col, row_ptr_all>>

\* if (isSymmetric): count the entry again, in the row of its mirror image.
CountMirror ==
  /\ pc = "mirror"
  /\ i < NumEntries
  /\ counter' = IF OffDiagonal(i) THEN [counter EXCEPT ![col_tmp[i]] = @ + 1]
                                  ELSE counter
  /\ i' = i + 1
  /\ UNCHANGED <<input, pc, tmp, old_val, row_ptr, col, row_ptr_all>>

StartScan ==
  /\ pc = "mirror"
  /\ i = NumEntries
  /\ pc' = "scan"
  /\ i' = 1
  /\ old_val' = counter[0]
  /\ counter' = [counter EXCEPT ![0] = 0]
  /\ UNCHANGED <<input, tmp, row_ptr, col, row_ptr_all>>

Scan ==
  /\ pc = "scan"
  /\ i <= Rows
  /\ counter' = [counter EXCEPT ![i] = old_val + counter[i - 1]]
  /\ old_val' = counter[i]
  /\ i' = i + 1
  /\ UNCHANGED <<input, pc, tmp, row_ptr, col, row_ptr_all>>

\* nnzA = counter[m]; memcpy, memset and the allocation of the columns.
Allocate ==
  /\ pc = "scan"
  /\ i = Rows + 1
  /\ row_ptr' = counter
  /\ counter' = [r \in 0 .. Rows |-> 0]
  /\ col' = [p \in 0 .. counter[Rows] - 1 |-> Unset]
  /\ pc' = "place"
  /\ i' = 0
  /\ UNCHANGED <<input, tmp, old_val, row_ptr_all>>

\* The first free place of row r.
Offset(r) == row_ptr[r] + counter[r]

PlaceEntry ==
  /\ pc = "place"
  /\ i < NumEntries
  /\ ~ OffDiagonal(i)
  /\ col' = [col EXCEPT ![Offset(row_tmp[i])] = col_tmp[i]]
  /\ counter' = [counter EXCEPT ![row_tmp[i]] = @ + 1]
  /\ i' = i + 1
  /\ UNCHANGED <<input, pc, tmp, old_val, row_ptr, row_ptr_all>>

\* The two rows differ: placing the entry leaves the mirror's row alone.
PlaceMirrored ==
  /\ pc = "place"
  /\ i < NumEntries
  /\ OffDiagonal(i)
  /\ col' = [col EXCEPT ![Offset(row_tmp[i])] = col_tmp[i],
                        ![Offset(col_tmp[i])] = row_tmp[i]]
  /\ counter' = [counter EXCEPT ![row_tmp[i]] = @ + 1, ![col_tmp[i]] = @ + 1]
  /\ i' = i + 1
  /\ UNCHANGED <<input, pc, tmp, old_val, row_ptr, row_ptr_all>>

\* main: row_ptr_all = SIMPLE_MALLOC(int, data_num)
StartExpand ==
  /\ pc = "place"
  /\ i = NumEntries
  /\ pc' = "expand"
  /\ i' = 0
  /\ row_ptr_all' = [p \in DOMAIN col |-> Unset]
  /\ UNCHANGED <<input, tmp, counter, old_val, row_ptr, col>>

ExpandRow ==
  /\ pc = "expand"
  /\ i < Rows
  /\ row_ptr_all' = [p \in DOMAIN row_ptr_all |->
                       IF p \in row_ptr[i] .. row_ptr[i + 1] - 1
                       THEN i ELSE row_ptr_all[p]]
  /\ i' = i + 1
  /\ UNCHANGED <<input, pc, tmp, counter, old_val, row_ptr, col>>

EndExpand ==
  /\ pc = "expand"
  /\ i = Rows
  /\ pc' = "done"
  /\ UNCHANGED <<input, i, tmp, counter, old_val, row_ptr, col, row_ptr_all>>

Next ==
  \/ ReadEntry \/ EndRead
  \/ CountMirror
  \/ StartScan \/ Scan \/ Allocate
  \/ PlaceEntry \/ PlaceMirrored
  \/ StartExpand \/ ExpandRow \/ EndExpand

Spec == Init /\ [][Next]_vars

-----------------------------------------------------------------------------
(***************************************************************************)
(* Properties                                                              *)
(***************************************************************************)
Step == {"read", "mirror", "scan", "place", "expand", "done"}

TypeOK ==
  /\ file \in [Entry -> [row : 1 .. Rows, column : 1 .. Cols]]
  /\ isSymmetric \in BOOLEAN
  /\ pc \in Step
  /\ i \in Nat
  /\ row_tmp \in [Entry -> Row \cup {Unset}]
  /\ col_tmp \in [Entry -> Col \cup {Unset}]
  /\ counter \in [0 .. Rows -> Nat]
  /\ old_val \in Nat
  /\ row_ptr \in [0 .. Rows -> Nat \cup {Unset}]
  /\ col \in [DOMAIN col -> Col \cup {Unset}]

\* Every write of a column goes to a place of the row it belongs to, and to
\* one that nothing was written to before: the loop that counts and the loop
\* that places agree on every row (lines 180 to 187 and 209 to 243).
NeverOverwritten ==
  [][pc = "place" /\ pc' = "place" =>
       \A r \in Row : counter'[r] > counter[r] =>
         /\ Offset(r) < row_ptr[r + 1]
         /\ col[Offset(r)] = Unset
         /\ col'[Offset(r)] # Unset]_vars

\* The places at which row r holds column c.
Places(r, c) == {p \in DOMAIN col : row_ptr_all[p] = r /\ col[p] = c}

\* The entries of the file that are the element (r, c) of the matrix.
Elements(r, c) ==
  {e \in Entry : \/ file[e] = [row |-> r + 1, column |-> c + 1]
                 \/ isSymmetric /\ file[e] = [row |-> c + 1, column |-> r + 1]}

\* In the end columns and row_ptr_all hold every element of the matrix as
\* often as the file gives it, with the mirror images of a symmetric file, and
\* no place is left as malloc returned it.
CsrIsMatrix ==
  pc = "done" =>
    /\ \A p \in DOMAIN col : col[p] \in Col /\ row_ptr_all[p] \in Row
    /\ \A r \in Row, c \in Col :
         Cardinality(Places(r, c)) = Cardinality(Elements(r, c))

-----------------------------------------------------------------------------
(***************************************************************************)
(* The inductive invariant                                                 *)
(***************************************************************************)
\* The entries that row r holds, as they are in the file and mirrored.
Own(r) == {e \in Entry : row_tmp[e] = r}
Mirrored(r) == {e \in Entry : OffDiagonal(e) /\ col_tmp[e] = r}

\* How many members of a set of entries the loop has passed at k.
Below(k, S) == Cardinality((0 .. k - 1) \cap S)

Count(r, k) == Below(k, Own(r)) + Below(k, Mirrored(r))
Total(r) == Count(r, NumEntries)

\* While the file is read the counter is the histogram of what was read.
Reading ==
  pc = "read" =>
    /\ i <= NumEntries
    /\ \A e \in 0 .. i - 1 : row_tmp[e] \in Row /\ col_tmp[e] \in Col
    /\ \A r \in Row : counter[r] = Below(i, Own(r))

\* Afterwards every entry has a row, and in a symmetric file the column of
\* an entry is a row too.
HaveRead ==
  /\ isSymmetric => Rows = Cols
  /\ pc # "read" => /\ row_tmp \in [Entry -> Row]
                    /\ col_tmp \in [Entry -> Col]

Mirroring ==
  pc = "mirror" =>
    /\ i <= NumEntries
    /\ \A r \in Row :
         counter[r] = Below(NumEntries, Own(r)) + Below(i, Mirrored(r))

\* The scan has turned the counts below i into starts of rows.
Scanning ==
  pc = "scan" =>
    /\ i \in 1 .. Rows + 1
    /\ i <= Rows => old_val = Total(i - 1)
    /\ \A r \in Row : r >= i => counter[r] = Total(r)
    /\ \A r \in Row, s \in 0 .. Rows :
         r < s /\ s < i => counter[r] + Total(r) <= counter[s]
    /\ \A r \in Row : r + 1 < i => counter[r + 1] = counter[r] + Total(r)

\* The rows lie apart from each other, and a place is taken exactly if its
\* number within its row is below the counter of the row.
Placed ==
  pc \in {"place", "expand", "done"} =>
    /\ row_ptr \in [0 .. Rows -> Nat]
    /\ \A r \in Row, s \in 0 .. Rows :
         r < s => row_ptr[r] + Total(r) <= row_ptr[s]
    /\ \A r \in Row : row_ptr[r + 1] = row_ptr[r] + Total(r)
    /\ DOMAIN col = 0 .. row_ptr[Rows] - 1
    /\ \A r \in Row : \A c \in 0 .. Total(r) - 1 :
         col[row_ptr[r] + c] # Unset <=> c < counter[r]

Placing ==
  /\ pc = "place" => i <= NumEntries /\ \A r \in Row : counter[r] = Count(r, i)
  /\ pc \in {"expand", "done"} => \A r \in Row : counter[r] = Total(r)

Expanding ==
  pc = "expand" => i <= Rows

IInv ==
  /\ TypeOK
  /\ Reading
  /\ HaveRead
  /\ Mirroring
  /\ Scanning
  /\ Placed
  /\ Placing
  /\ Expanding

-----------------------------------------------------------------------------
(***************************************************************************)
(* What CsrIsMatrix needs beside IInv: which column each place holds       *)
(***************************************************************************)
\* The entries read so far are in the temporary arrays, counted from 0.
FileRead ==
  \A e \in IF pc = "read" THEN 0 .. i - 1 ELSE Entry :
    /\ row_tmp[e] = file[e].row - 1
    /\ col_tmp[e] = file[e].column - 1

StartsAtZero ==
  /\ pc = "scan" => counter[0] = 0
  /\ pc \in {"place", "expand", "done"} => row_ptr[0] = 0

InRow(r) == row_ptr[r] .. row_ptr[r + 1] - 1
Holding(r, c) == {p \in InRow(r) : col[p] = c}

\* A row holds a column as often as the entries placed so far ask for it.
ColumnsPlaced ==
  pc \in {"place", "expand", "done"} =>
    \A r \in Row, c \in Col :
      Cardinality(Holding(r, c))
        = Below(IF pc = "place" THEN i ELSE NumEntries, Elements(r, c))

\* The places of the rows passed know their row.
Expanded ==
  pc \in {"expand", "done"} =>
    /\ DOMAIN row_ptr_all = DOMAIN col
    /\ i <= Rows
    /\ pc = "done" => i = Rows
    /\ \A p \in DOMAIN col :
         p < row_ptr[i] => /\ row_ptr_all[p] \in Row
                           /\ p \in InRow(row_ptr_all[p])

MatrixInv == FileRead /\ StartsAtZero /\ ColumnsPlaced /\ Expanded

=============================================================================
