-------------------------- MODULE MatrixInputProofs --------------------------
(***************************************************************************)
(* Proofs about the matrix input: the arrays of CsrBuild hold the matrix,  *)
(* for every size and every file, and the reader of MatrixInput implements *)
(* CsrBuild: whatever the banner, the header and the sizes, the loops of   *)
(* CsrBuild run on the lines of the file, with the symmetry the banner     *)
(* gives.                                                                  *)
(***************************************************************************)
EXTENDS MatrixInput, FiniteSetTheorems, TLAPS

\* What passing one more entry does to the number of members passed.
LEMMA BelowStep ==
  ASSUME NEW S, NEW k \in Nat
  PROVE  /\ Below(k, S) \in Nat
         /\ Below(k + 1, S) = Below(k, S) + (IF k \in S THEN 1 ELSE 0)
  <1> DEFINE T == (0 .. k - 1) \cap S
  <1>1. IsFiniteSet(0 .. k - 1)
    BY FS_Interval
  <1>2. IsFiniteSet(T)
    BY <1>1, FS_Subset
  <1>3. Cardinality(T) \in Nat
    BY <1>2, FS_CardinalityType
  <1>4. k \notin T
    OBVIOUS
  <1>5. CASE k \in S
    <2>1. (0 .. (k + 1) - 1) \cap S = T \cup {k}
      BY <1>5
    <2>2. Cardinality(T \cup {k}) = Cardinality(T) + 1
      BY <1>2, <1>4, FS_AddElement
    <2> QED
      BY <1>3, <1>5, <2>1, <2>2 DEF Below
  <1>6. CASE k \notin S
    <2>1. (0 .. (k + 1) - 1) \cap S = T
      BY <1>6
    <2> QED
      BY <1>3, <1>6, <2>1 DEF Below
  <1> QED
    BY <1>5, <1>6

\* Nothing is below 0.
LEMMA BelowZero ==
  ASSUME NEW S
  PROVE  Below(0, S) = 0
  <1>1. (0 .. 0 - 1) \cap S = {}
    OBVIOUS
  <1> QED
    BY <1>1, FS_EmptySet DEF Below

\* What is passed later includes what is passed earlier.
LEMMA BelowMonotone ==
  ASSUME NEW S, NEW k \in Nat, NEW n \in Nat, k <= n
  PROVE  Below(k, S) <= Below(n, S)
  <1>0. IsFiniteSet(0 .. n - 1)
    BY FS_Interval
  <1>1. IsFiniteSet((0 .. n - 1) \cap S)
    BY <1>0, FS_Subset
  <1>2. (0 .. k - 1) \cap S \subseteq (0 .. n - 1) \cap S
    OBVIOUS
  <1> QED
    BY <1>1, <1>2, FS_Subset DEF Below

\* The counts of a row are natural numbers and grow towards its total.
LEMMA CountFacts ==
  ASSUME NEW r, NEW k \in Nat, k <= NumEntries
  PROVE  /\ Count(r, k) \in Nat
         /\ Total(r) \in Nat
         /\ Count(r, k) <= Total(r)
         /\ Below(NumEntries, Own(r)) \in Nat
         /\ Below(k, Mirrored(r)) \in Nat
  <1> USE CsrAssumption
  <1>1. /\ Below(k, Own(r)) \in Nat /\ Below(k, Mirrored(r)) \in Nat
        /\ Below(NumEntries, Own(r)) \in Nat
        /\ Below(NumEntries, Mirrored(r)) \in Nat
    BY BelowStep
  <1>2. /\ Below(k, Own(r)) <= Below(NumEntries, Own(r))
        /\ Below(k, Mirrored(r)) <= Below(NumEntries, Mirrored(r))
    BY BelowMonotone
  <1> QED
    BY <1>1, <1>2 DEF Count, Total

\* The count of a row when entry k is passed.
LEMMA CountStep ==
  ASSUME NEW r, NEW k \in Entry
  PROVE  /\ Count(r, k + 1) = Count(r, k) + (IF row_tmp[k] = r THEN 1 ELSE 0)
              + (IF OffDiagonal(k) /\ col_tmp[k] = r THEN 1 ELSE 0)
         /\ Count(r, k + 1) \in Nat
         /\ Count(r, k + 1) <= Total(r)
  <1> USE CsrAssumption
  <1>1. k \in Nat /\ k + 1 \in Nat /\ k + 1 <= NumEntries
    BY DEF Entry
  <1>2. k \in Own(r) <=> row_tmp[k] = r
    BY DEF Own
  <1>3. k \in Mirrored(r) <=> OffDiagonal(k) /\ col_tmp[k] = r
    BY DEF Mirrored
  <1>4. /\ Below(k + 1, Own(r)) = Below(k, Own(r)) + (IF k \in Own(r) THEN 1 ELSE 0)
        /\ Below(k, Own(r)) \in Nat
    BY <1>1, BelowStep
  <1>5. /\ Below(k + 1, Mirrored(r))
             = Below(k, Mirrored(r)) + (IF k \in Mirrored(r) THEN 1 ELSE 0)
        /\ Below(k, Mirrored(r)) \in Nat
    BY <1>1, BelowStep
  <1>6. Count(r, k + 1) \in Nat /\ Count(r, k + 1) <= Total(r)
    BY <1>1, CountFacts
  <1> QED
    BY <1>2, <1>3, <1>4, <1>5, <1>6 DEF Count

\* The invariant holds before the file is read.
LEMMA InitIInv == Init => IInv
  <1> SUFFICES ASSUME Init PROVE IInv
    OBVIOUS
  <1> USE CsrAssumption DEF Init
  <1>1. TypeOK
    BY DEF TypeOK, Step
  <1>2. Reading
    BY BelowZero DEF Reading, Row
  <1>3. HaveRead
    BY DEF HaveRead
  <1> QED
    BY <1>1, <1>2, <1>3
    DEF IInv, Mirroring, Scanning, Placed, Placing, Expanding

\* Reading one entry.
LEMMA ReadEntryStep ==
  ASSUME IInv, ReadEntry
  PROVE  IInv'
  <1> DEFINE idxi == file[i].row - 1
             idxj == file[i].column - 1
  <1> USE CsrAssumption
  <1>1. /\ pc = "read" /\ pc' = "read" /\ i \in Entry /\ i' = i + 1
        /\ idxi \in Row /\ idxj \in Col
        /\ row_tmp' = [row_tmp EXCEPT ![i] = idxi]
        /\ col_tmp' = [col_tmp EXCEPT ![i] = idxj]
        /\ counter' = [counter EXCEPT ![idxi] = @ + 1]
        /\ UNCHANGED <<file, isSymmetric, old_val, row_ptr, col>>
    BY DEF IInv, TypeOK, ReadEntry, Entry, Row, Col, input
  <1>2. TypeOK'
    <2>1. counter' \in [0 .. Rows -> Nat]
      BY <1>1 DEF IInv, TypeOK, Row
    <2>2. /\ row_tmp' \in [Entry -> Row \cup {Unset}]
          /\ col_tmp' \in [Entry -> Col \cup {Unset}]
      BY <1>1 DEF IInv, TypeOK
    <2>3. i' \in Nat /\ pc' \in Step
      BY <1>1 DEF Entry, Step
    <2>4. /\ file' \in [Entry -> [row : 1 .. Rows, column : 1 .. Cols]]
          /\ isSymmetric' \in BOOLEAN
      BY <1>1 DEF IInv, TypeOK
    <2>5. /\ old_val' \in Nat
          /\ row_ptr' \in [0 .. Rows -> Nat \cup {Unset}]
      BY <1>1 DEF IInv, TypeOK
    <2>6. col' \in [DOMAIN col' -> Col \cup {Unset}]
      BY <1>1 DEF IInv, TypeOK
    <2> QED
      BY <2>1, <2>2, <2>3, <2>4, <2>5, <2>6 DEF TypeOK
  <1>3. Reading'
    <2>1. \A e \in 0 .. i' - 1 : row_tmp'[e] \in Row /\ col_tmp'[e] \in Col
      BY <1>1 DEF IInv, TypeOK, Reading, Entry
    <2>2. ASSUME NEW r \in Row
          PROVE  counter'[r] = Below(i', Own(r)')
      <3>1. (0 .. i - 1) \cap Own(r)' = (0 .. i - 1) \cap Own(r)
        BY <1>1 DEF IInv, TypeOK, Own, Entry
      <3>2. Below(i, Own(r)') = Below(i, Own(r))
        BY <3>1 DEF Below
      <3>3. i \in Own(r)' <=> r = idxi
        BY <1>1 DEF IInv, TypeOK, Own, Entry
      <3>4. /\ Below(i + 1, Own(r)')
                 = Below(i, Own(r)') + (IF i \in Own(r)' THEN 1 ELSE 0)
            /\ Below(i, Own(r)') \in Nat
        BY <1>1, BelowStep DEF Entry
      <3>5. counter[r] = Below(i, Own(r))
        BY <1>1, <2>2 DEF IInv, Reading
      <3>6. counter'[r] = counter[r] + (IF r = idxi THEN 1 ELSE 0)
        BY <1>1, <2>2 DEF IInv, TypeOK, Row
      <3> QED
        BY <1>1, <3>2, <3>3, <3>4, <3>5, <3>6
    <2>3. Below(i, Own(0))' = Below(i', Own(0)')
      BY DEF Below
    <2> QED
      BY <1>1, <2>1, <2>2 DEF Reading, Entry, Below
  <1>4. HaveRead'
    BY <1>1 DEF IInv, HaveRead
  <1> QED
    BY <1>1, <1>2, <1>3, <1>4
    DEF IInv, Mirroring, Scanning, Placed, Placing, Expanding

\* The file is read: no mirror image has been counted yet.
LEMMA EndReadStep ==
  ASSUME IInv, EndRead
  PROVE  IInv'
  <1> USE CsrAssumption
  <1>1. /\ pc = "read" /\ pc' = "mirror" /\ i = NumEntries /\ i' = 0
        /\ UNCHANGED <<file, isSymmetric, row_tmp, col_tmp, counter, old_val,
                      row_ptr, col>>
    BY DEF EndRead, input, tmp
  <1>2. TypeOK'
    BY <1>1 DEF IInv, TypeOK, Step
  <1>3. HaveRead'
    BY <1>1 DEF IInv, TypeOK, Reading, HaveRead, Entry
  <1>4. Mirroring'
    <2>1. ASSUME NEW r \in Row
          PROVE  counter[r] = Below(NumEntries, Own(r)) + Below(0, Mirrored(r))
      <3>1. counter[r] = Below(NumEntries, Own(r)) /\ counter[r] \in Nat
        BY <1>1 DEF IInv, TypeOK, Reading, Row
      <3> QED
        BY <3>1, BelowZero
    <2> QED
      BY <1>1, <2>1 DEF Mirroring, Below, Own, Mirrored, OffDiagonal
  <1> QED
    BY <1>1, <1>2, <1>3, <1>4
    DEF IInv, Reading, Scanning, Placed, Placing, Expanding

\* Counting the mirror image of one entry.
LEMMA CountMirrorStep ==
  ASSUME IInv, CountMirror
  PROVE  IInv'
  <1> USE CsrAssumption
  <1>1. /\ pc = "mirror" /\ pc' = "mirror" /\ i \in Entry /\ i' = i + 1
        /\ row_tmp \in [Entry -> Row] /\ col_tmp \in [Entry -> Col]
        /\ counter \in [0 .. Rows -> Nat]
        /\ UNCHANGED <<file, isSymmetric, row_tmp, col_tmp, old_val, row_ptr,
                      col>>
    BY DEF IInv, TypeOK, HaveRead, CountMirror, Entry, input, tmp
  <1>2. OffDiagonal(i) => col_tmp[i] \in Row
    BY <1>1 DEF IInv, HaveRead, OffDiagonal, Row, Col
  <1>3. /\ counter' \in [0 .. Rows -> Nat]
        /\ \A r \in Row : counter'[r] = counter[r]
              + (IF OffDiagonal(i) /\ col_tmp[i] = r THEN 1 ELSE 0)
    <2>1. CASE OffDiagonal(i)
      <3>1. counter' = [counter EXCEPT ![col_tmp[i]] = @ + 1]
        BY <2>1 DEF CountMirror
      <3> QED
        BY <1>1, <1>2, <2>1, <3>1 DEF Row
    <2>2. CASE ~ OffDiagonal(i)
      <3>1. counter' = counter
        BY <2>2 DEF CountMirror
      <3> QED
        BY <1>1, <2>2, <3>1 DEF Row
    <2> QED
      BY <2>1, <2>2
  <1>4. TypeOK'
    BY <1>1, <1>3 DEF IInv, TypeOK, Entry
  <1>5. HaveRead'
    BY <1>1 DEF IInv, HaveRead
  <1>6. Mirroring'
    <2>1. ASSUME NEW r \in Row
          PROVE  counter'[r]
                   = Below(NumEntries, Own(r)) + Below(i + 1, Mirrored(r))
      <3>1. counter[r] = Below(NumEntries, Own(r)) + Below(i, Mirrored(r))
        BY <1>1 DEF IInv, Mirroring
      <3>2. i \in Mirrored(r) <=> OffDiagonal(i) /\ col_tmp[i] = r
        BY <1>1 DEF Mirrored
      <3>3. /\ Below(i + 1, Mirrored(r))
                 = Below(i, Mirrored(r)) + (IF i \in Mirrored(r) THEN 1 ELSE 0)
            /\ Below(i, Mirrored(r)) \in Nat
        <4>1. i \in Nat
          BY <1>1 DEF Entry
        <4> QED
          BY <4>1, BelowStep
      <3>4. Below(NumEntries, Own(r)) \in Nat
        BY BelowStep
      <3> QED
        BY <1>3, <3>1, <3>2, <3>3, <3>4
    <2>2. i' <= NumEntries
      BY <1>1 DEF Entry
    <2> QED
      BY <1>1, <2>1, <2>2 DEF Mirroring, Below, Own, Mirrored, OffDiagonal
  <1> QED
    BY <1>1, <1>4, <1>5, <1>6
    DEF IInv, Reading, Scanning, Placed, Placing, Expanding

\* Every entry and every mirror image is counted, and the scan starts.
LEMMA StartScanStep ==
  ASSUME IInv, StartScan
  PROVE  IInv'
  <1> USE CsrAssumption
  <1>1. /\ pc = "mirror" /\ pc' = "scan" /\ i = NumEntries /\ i' = 1
        /\ counter \in [0 .. Rows -> Nat]
        /\ old_val' = counter[0]
        /\ counter' = [counter EXCEPT ![0] = 0]
        /\ UNCHANGED <<file, isSymmetric, row_tmp, col_tmp, row_ptr, col>>
    BY DEF IInv, TypeOK, StartScan, input, tmp
  <1>2. TypeOK'
    BY <1>1 DEF IInv, TypeOK, Step
  <1>3. HaveRead'
    BY <1>1 DEF IInv, HaveRead
  <1>4. \A r : Total(r)' = Total(r)
    BY <1>1 DEF Total, Count, Below, Own, Mirrored, OffDiagonal
  <1>5. \A r \in Row : counter[r] = Total(r)
    BY <1>1 DEF IInv, Mirroring, Total, Count
  <1>6. Scanning'
    <2>1. old_val' = Total(0)'
      BY <1>1, <1>4, <1>5 DEF Row
    <2>2. \A r \in Row : r >= 1 => counter'[r] = Total(r)'
      BY <1>1, <1>4, <1>5 DEF Row
    <2>3. i' \in 1 .. Rows + 1 /\ i' - 1 = 0
      BY <1>1
    <2> QED
      BY <1>1, <2>1, <2>2, <2>3 DEF Scanning, Row
  <1> QED
    BY <1>1, <1>2, <1>3, <1>6
    DEF IInv, Reading, Mirroring, Placed, Placing, Expanding

\* One step of the scan: the start of row i is the end of row i - 1.
LEMMA ScanStep ==
  ASSUME IInv, Scan
  PROVE  IInv'
  <1> USE CsrAssumption
  <1>1. /\ pc = "scan" /\ pc' = "scan" /\ i \in 1 .. Rows /\ i' = i + 1
        /\ counter \in [0 .. Rows -> Nat] /\ old_val \in Nat
        /\ counter' = [counter EXCEPT ![i] = old_val + counter[i - 1]]
        /\ old_val' = counter[i]
        /\ UNCHANGED <<file, isSymmetric, row_tmp, col_tmp, row_ptr, col>>
    BY DEF IInv, TypeOK, Scanning, Scan, input, tmp
  <1>2. counter' \in [0 .. Rows -> Nat]
    BY <1>1
  <1>3. TypeOK'
    BY <1>1, <1>2 DEF IInv, TypeOK
  <1>4. HaveRead'
    BY <1>1 DEF IInv, HaveRead
  <1>5. \A r : Total(r)' = Total(r)
    BY <1>1 DEF Total, Count, Below, Own, Mirrored, OffDiagonal
  <1>6. \A r : Total(r) \in Nat
    BY CountFacts
  <1>7. counter'[i] = counter[i - 1] + Total(i - 1)
    BY <1>1, <1>6 DEF IInv, Scanning
  <1>8. Scanning'
    <2>1. (i <= Rows => old_val = Total(i - 1))'
      <3>1. i' <= Rows => counter[i] = Total(i)
        BY <1>1 DEF IInv, Scanning, Row
      <3>2. i' - 1 = i
        BY <1>1
      <3> QED
        BY <1>1, <1>5, <3>1, <3>2
    <2>2. ASSUME NEW r \in Row, r >= i'
          PROVE  counter'[r] = Total(r)'
      BY <1>1, <1>5, <2>2 DEF IInv, Scanning, Row
    <2>3. ASSUME NEW r \in Row, NEW s \in 0 .. Rows, r < s, s < i'
          PROVE  counter'[r] + Total(r)' <= counter'[s]
      <3>1. CASE s < i
        BY <1>1, <1>5, <2>3, <3>1 DEF IInv, Scanning, Row
      <3>2. CASE s = i /\ r = i - 1
        BY <1>1, <1>2, <1>5, <1>6, <1>7, <3>2 DEF Row
      <3>3. CASE s = i /\ r < i - 1
        <4>1. counter[r] + Total(r) <= counter[i - 1]
          BY <1>1, <3>3 DEF IInv, Scanning, Row
        <4> QED
          BY <1>1, <1>5, <1>6, <1>7, <3>3, <4>1 DEF Row
      <3> QED
        BY <1>1, <2>3, <3>1, <3>2, <3>3 DEF Row
    <2>4. ASSUME NEW r \in Row, r + 1 < i'
          PROVE  counter'[r + 1] = counter'[r] + Total(r)'
      <3>1. CASE r + 1 < i
        BY <1>1, <1>5, <2>4, <3>1 DEF IInv, Scanning, Row
      <3>2. CASE r + 1 = i
        <4>1. r = i - 1
          BY <3>2 DEF Row
        <4>2. counter'[r] = counter[i - 1]
          BY <1>1, <4>1 DEF Row
        <4> QED
          BY <1>5, <1>7, <3>2, <4>1, <4>2
      <3> QED
        BY <1>1, <2>4, <3>1, <3>2 DEF Row
    <2> QED
      BY <1>1, <2>1, <2>2, <2>3, <2>4 DEF Scanning
  <1> QED
    BY <1>1, <1>3, <1>4, <1>8
    DEF IInv, Reading, Mirroring, Placed, Placing, Expanding

\* The scan becomes the row pointers, and no place is taken yet.
LEMMA AllocateStep ==
  ASSUME IInv, Allocate
  PROVE  IInv'
  <1> USE CsrAssumption
  <1>1. /\ pc = "scan" /\ pc' = "place" /\ i = Rows + 1 /\ i' = 0
        /\ counter \in [0 .. Rows -> Nat]
        /\ row_ptr' = counter
        /\ counter' = [r \in 0 .. Rows |-> 0]
        /\ col' = [p \in 0 .. counter[Rows] - 1 |-> Unset]
        /\ UNCHANGED <<file, isSymmetric, row_tmp, col_tmp, old_val>>
    BY DEF IInv, TypeOK, Allocate, input, tmp
  <1>2. TypeOK'
    BY <1>1 DEF IInv, TypeOK, Step
  <1>3. HaveRead'
    BY <1>1 DEF IInv, HaveRead
  <1>4. \A r : Total(r)' = Total(r) /\ Count(r, 0)' = Count(r, 0)
    BY <1>1 DEF Total, Count, Below, Own, Mirrored, OffDiagonal
  <1>5. \A r : Total(r) \in Nat
    BY CountFacts
  <1>6. Placed'
    <2>1. \A r \in Row, s \in 0 .. Rows :
            r < s => counter[r] + Total(r) <= counter[s]
      BY <1>1 DEF IInv, Scanning
    <2>2. \A r \in Row : counter[r + 1] = counter[r] + Total(r)
      BY <1>1 DEF IInv, Scanning, Row
    <2>3. ASSUME NEW r \in Row, NEW c \in 0 .. Total(r) - 1
          PROVE  col'[counter[r] + c] = Unset /\ ~ c < counter'[r]
      <3>1. counter[r] + c \in 0 .. counter[Rows] - 1
        <4>1. counter[r] + Total(r) <= counter[Rows]
          BY <2>1 DEF Row
        <4> QED
          BY <1>1, <1>5, <4>1 DEF Row
      <3> QED
        BY <1>1, <1>5, <3>1 DEF Row
    <2> QED
      BY <1>1, <1>4, <2>1, <2>2, <2>3 DEF Placed
  <1>7. Placing'
    <2>1. \A r : Count(r, 0) = 0
      BY BelowZero DEF Count
    <2> QED
      BY <1>1, <1>4, <2>1 DEF Placing, Row
  <1> QED
    BY <1>1, <1>2, <1>3, <1>6, <1>7
    DEF IInv, Reading, Mirroring, Scanning, Expanding

\* The places of a row are places of the matrix.
LEMMA PlaceInRow ==
  ASSUME IInv, pc \in {"place", "expand", "done"},
         NEW r \in Row, NEW c \in 0 .. Total(r) - 1
  PROVE  row_ptr[r] + c \in DOMAIN col
  <1> USE CsrAssumption
  <1>1. /\ row_ptr \in [0 .. Rows -> Nat]
        /\ DOMAIN col = 0 .. row_ptr[Rows] - 1
        /\ row_ptr[r] + Total(r) <= row_ptr[Rows]
    BY DEF IInv, Placed, Row
  <1>2. Total(r) \in Nat
    BY CountFacts
  <1> QED
    BY <1>1, <1>2 DEF Row

\* A row that waits for an entry has a free place for it, and no place of
\* another row.
LEMMA FreePlace ==
  ASSUME IInv, pc = "place", i \in Entry, NEW r \in Row,
         row_tmp[i] = r \/ (OffDiagonal(i) /\ col_tmp[i] = r)
  PROVE  /\ counter[r] \in 0 .. Total(r) - 1
         /\ Offset(r) \in DOMAIN col
         /\ Offset(r) < row_ptr[r + 1]
         /\ col[Offset(r)] = Unset
         /\ \A s \in Row : \A c \in 0 .. Total(s) - 1 :
              row_ptr[s] + c = Offset(r) <=> s = r /\ c = counter[r]
  <1> USE CsrAssumption
  <1>1. /\ counter[r] = Count(r, i) /\ Count(r, i) \in Nat
        /\ \A s \in Row : Total(s) \in Nat
    <2>1. i \in Nat /\ i <= NumEntries
      BY DEF Entry
    <2> QED
      BY <2>1, CountFacts DEF IInv, Placing
  <1>2. Count(r, i + 1) <= Total(r) /\ Count(r, i + 1) \in Nat
        /\ Count(r, i + 1) > Count(r, i)
    BY <1>1, CountStep
  <1>3. counter[r] \in 0 .. Total(r) - 1
    BY <1>1, <1>2
  <1>4. /\ row_ptr \in [0 .. Rows -> Nat]
        /\ \A s \in Row, t \in 0 .. Rows :
             s < t => row_ptr[s] + Total(s) <= row_ptr[t]
        /\ row_ptr[r + 1] = row_ptr[r] + Total(r)
        /\ DOMAIN col = 0 .. row_ptr[Rows] - 1
        /\ col[row_ptr[r] + counter[r]] # Unset <=> counter[r] < counter[r]
    BY <1>3 DEF IInv, Placed
  <1>5. Offset(r) = row_ptr[r] + counter[r] /\ row_ptr[r] \in Nat
    BY <1>4 DEF Offset, Row
  <1>6. Offset(r) < row_ptr[r + 1]
    BY <1>1, <1>3, <1>4, <1>5
  <1>7. Offset(r) \in DOMAIN col
    <2>1. row_ptr[r] + Total(r) <= row_ptr[Rows] /\ row_ptr[Rows] \in Nat
      BY <1>4 DEF Row
    <2> QED
      BY <1>1, <1>3, <1>4, <1>5, <2>1
  <1>8. col[Offset(r)] = Unset
    BY <1>1, <1>4, <1>5
  <1>9. ASSUME NEW s \in Row, NEW c \in 0 .. Total(s) - 1
        PROVE  row_ptr[s] + c = Offset(r) <=> s = r /\ c = counter[r]
    <2>0. /\ row_ptr[s] \in Nat /\ row_ptr[r] \in Nat
          /\ Total(s) \in Nat /\ Total(r) \in Nat
      BY <1>1, <1>4 DEF Row
    <2>1. CASE s = r
      BY <1>3, <1>5, <2>0, <2>1
    <2>2. CASE s < r
      <3>1. row_ptr[s] + Total(s) <= row_ptr[r]
        BY <1>4, <2>2 DEF Row
      <3> QED
        BY <1>3, <1>5, <2>0, <2>2, <3>1
    <2>3. CASE r < s
      <3>1. row_ptr[r] + Total(r) <= row_ptr[s]
        BY <1>4, <2>3 DEF Row
      <3> QED
        BY <1>3, <1>5, <2>0, <2>3, <3>1
    <2> QED
      BY <2>1, <2>2, <2>3 DEF Row
  <1> QED
    BY <1>3, <1>6, <1>7, <1>8, <1>9

\* Placing one entry that has no mirror image.
LEMMA PlaceEntryStep ==
  ASSUME IInv, PlaceEntry
  PROVE  IInv'
  <1> DEFINE q == row_tmp[i]
  <1> USE CsrAssumption
  <1>1. /\ pc = "place" /\ pc' = "place" /\ i \in Entry /\ i' = i + 1
        /\ ~ OffDiagonal(i)
        /\ counter \in [0 .. Rows -> Nat]
        /\ q \in Row /\ col_tmp[i] \in Col
        /\ counter' = [counter EXCEPT ![q] = @ + 1]
        /\ col' = [col EXCEPT ![Offset(q)] = col_tmp[i]]
        /\ UNCHANGED <<file, isSymmetric, row_tmp, col_tmp, old_val, row_ptr>>
    BY DEF IInv, TypeOK, HaveRead, PlaceEntry, Entry, input, tmp
  <1>2. /\ counter[q] \in 0 .. Total(q) - 1
        /\ Offset(q) \in DOMAIN col
        /\ \A s \in Row : \A c \in 0 .. Total(s) - 1 :
             row_ptr[s] + c = Offset(q) <=> s = q /\ c = counter[q]
    BY <1>1, FreePlace
  <1>3. /\ counter' \in [0 .. Rows -> Nat]
        /\ \A r \in Row : counter'[r] = counter[r] + (IF r = q THEN 1 ELSE 0)
    BY <1>1 DEF Row
  <1>4. /\ DOMAIN col' = DOMAIN col
        /\ col' \in [DOMAIN col' -> Col \cup {Unset}]
    BY <1>1 DEF IInv, TypeOK
  <1>5. TypeOK'
    BY <1>1, <1>3, <1>4, SMTT(30) DEF IInv, TypeOK, Entry
  <1>6. HaveRead'
    BY <1>1 DEF IInv, HaveRead
  <1>7. \A r, k : Total(r)' = Total(r) /\ Count(r, k)' = Count(r, k)
    BY <1>1 DEF Total, Count, Below, Own, Mirrored, OffDiagonal
  <1>8. Placed'
    <2>1. ASSUME NEW r \in Row, NEW c \in 0 .. Total(r) - 1
          PROVE  col'[row_ptr[r] + c] # Unset <=> c < counter'[r]
      <3>1. /\ row_ptr[r] + c \in DOMAIN col
            /\ col[row_ptr[r] + c] # Unset <=> c < counter[r]
        BY <1>1, PlaceInRow DEF IInv, Placed
      <3>2. counter[r] \in Nat /\ c \in Int /\ col_tmp[i] # Unset
        BY <1>1 DEF Row, Col
      <3>3. CASE row_ptr[r] + c = Offset(q)
        BY <1>1, <1>2, <1>3, <3>2, <3>3
      <3>4. CASE row_ptr[r] + c # Offset(q)
        <4>1. ~ (r = q /\ c = counter[q])
          BY <1>2, <3>4
        <4>2. col'[row_ptr[r] + c] = col[row_ptr[r] + c]
          BY <1>1, <3>1, <3>4
        <4> QED
          BY <1>3, <3>1, <3>2, <4>1, <4>2
      <3> QED
        BY <3>3, <3>4
    <2> QED
      BY <1>1, <1>4, <1>7, <2>1 DEF IInv, Placed
  <1>9. Placing'
    <2>1. ASSUME NEW r \in Row
          PROVE  counter'[r] = Count(r, i + 1)
      <3>1. counter[r] = Count(r, i) /\ counter[r] \in Nat
        BY <1>1 DEF IInv, Placing, Row
      <3>2. Count(r, i + 1) = Count(r, i) + (IF row_tmp[i] = r THEN 1 ELSE 0)
              + (IF OffDiagonal(i) /\ col_tmp[i] = r THEN 1 ELSE 0)
        BY <1>1, CountStep
      <3> QED
        BY <1>1, <1>3, <3>1, <3>2
    <2>2. i' <= NumEntries
      BY <1>1 DEF Entry
    <2> QED
      BY <1>1, <1>7, <2>1, <2>2 DEF Placing
  <1> QED
    BY <1>1, <1>5, <1>6, <1>8, <1>9
    DEF IInv, Reading, Mirroring, Scanning, Expanding

\* Placing one entry and its mirror image, in two different rows.
LEMMA PlaceMirroredStep ==
  ASSUME IInv, PlaceMirrored
  PROVE  IInv'
  <1> DEFINE q == row_tmp[i]
             m == col_tmp[i]
  <1> USE CsrAssumption
  <1>1. /\ pc = "place" /\ pc' = "place" /\ i \in Entry /\ i' = i + 1
        /\ OffDiagonal(i)
        /\ counter \in [0 .. Rows -> Nat]
        /\ q \in Row /\ m \in Row /\ q # m /\ q \in Col /\ m \in Col
        /\ counter' = [counter EXCEPT ![q] = @ + 1, ![m] = @ + 1]
        /\ col' = [col EXCEPT ![Offset(q)] = m, ![Offset(m)] = q]
        /\ UNCHANGED <<file, isSymmetric, row_tmp, col_tmp, old_val, row_ptr>>
    BY DEF IInv, TypeOK, HaveRead, PlaceMirrored, OffDiagonal, Entry, Row, Col,
           input, tmp
  <1>2. /\ counter[q] \in 0 .. Total(q) - 1
        /\ Offset(q) \in DOMAIN col
        /\ \A s \in Row : \A c \in 0 .. Total(s) - 1 :
             row_ptr[s] + c = Offset(q) <=> s = q /\ c = counter[q]
    BY <1>1, FreePlace
  <1>3. /\ counter[m] \in 0 .. Total(m) - 1
        /\ Offset(m) \in DOMAIN col
        /\ \A s \in Row : \A c \in 0 .. Total(s) - 1 :
             row_ptr[s] + c = Offset(m) <=> s = m /\ c = counter[m]
    BY <1>1, FreePlace
  <1>4. /\ counter' \in [0 .. Rows -> Nat]
        /\ \A r \in Row :
             counter'[r] = counter[r] + (IF r = q \/ r = m THEN 1 ELSE 0)
    <2>1. /\ DOMAIN counter' = 0 .. Rows
          /\ \A r \in 0 .. Rows :
               counter'[r] = IF r = q \/ r = m THEN counter[r] + 1
                                               ELSE counter[r]
      BY <1>1
    <2>2. counter' = [r \in 0 .. Rows |-> counter'[r]]
      BY <1>1, <2>1
    <2>3. \A r \in 0 .. Rows : counter[r] \in Nat /\ counter'[r] \in Nat
      BY <1>1, <2>1
    <2> QED
      BY <2>1, <2>2, <2>3 DEF Row
  <1>5. /\ DOMAIN col' = DOMAIN col
        /\ col' \in [DOMAIN col' -> Col \cup {Unset}]
    BY <1>1 DEF IInv, TypeOK
  <1>6. TypeOK'
    <2>1. i' \in Nat /\ pc' \in Step
      BY <1>1 DEF Entry, Step
    <2>2. UNCHANGED <<file, isSymmetric, row_tmp, col_tmp, old_val, row_ptr>>
      BY <1>1
    <2> QED
      BY <1>4, <1>5, <2>1, <2>2 DEF IInv, TypeOK
  <1>7. HaveRead'
    BY <1>1 DEF IInv, HaveRead
  <1>8. \A r, k : Total(r)' = Total(r) /\ Count(r, k)' = Count(r, k)
    BY <1>1 DEF Total, Count, Below, Own, Mirrored, OffDiagonal
  <1>9. Placed'
    <2>1. ASSUME NEW r \in Row, NEW c \in 0 .. Total(r) - 1
          PROVE  col'[row_ptr[r] + c] # Unset <=> c < counter'[r]
      <3>1. /\ row_ptr[r] + c \in DOMAIN col
            /\ col[row_ptr[r] + c] # Unset <=> c < counter[r]
        BY <1>1, PlaceInRow DEF IInv, Placed
      <3>2. counter[r] \in Nat /\ c \in Int /\ m # Unset /\ q # Unset
        BY <1>1 DEF Row, Col
      <3>3. CASE row_ptr[r] + c = Offset(q) \/ row_ptr[r] + c = Offset(m)
        <4>1. (r = q \/ r = m) /\ c = counter[r]
          BY <1>2, <1>3, <3>3
        <4>2. col'[row_ptr[r] + c] \in {q, m}
          BY <1>1, <3>1, <3>3
        <4> QED
          BY <1>4, <3>2, <4>1, <4>2
      <3>4. CASE row_ptr[r] + c # Offset(q) /\ row_ptr[r] + c # Offset(m)
        <4>1. ~ (r = q /\ c = counter[q]) /\ ~ (r = m /\ c = counter[m])
          BY <1>2, <1>3, <3>4
        <4>2. col'[row_ptr[r] + c] = col[row_ptr[r] + c]
          BY <1>1, <3>1, <3>4
        <4> QED
          BY <1>4, <3>1, <3>2, <4>1, <4>2
      <3> QED
        BY <3>3, <3>4
    <2> QED
      BY <1>1, <1>5, <1>8, <2>1, ZenonT(30) DEF IInv, Placed
  <1>10. Placing'
    <2>1. ASSUME NEW r \in Row
          PROVE  counter'[r] = Count(r, i + 1)
      <3>1. counter[r] = Count(r, i) /\ counter[r] \in Nat
        BY <1>1 DEF IInv, Placing, Row
      <3>2. Count(r, i + 1) = Count(r, i) + (IF row_tmp[i] = r THEN 1 ELSE 0)
              + (IF OffDiagonal(i) /\ col_tmp[i] = r THEN 1 ELSE 0)
        BY <1>1, CountStep
      <3>3. counter'[r] = counter[r] + (IF r = q \/ r = m THEN 1 ELSE 0)
        BY <1>4
      <3>4. OffDiagonal(i) /\ q # m /\ Count(r, i) \in Nat
        BY <1>1, <3>1
      <3> QED
        BY <3>1, <3>2, <3>3, <3>4
    <2>2. i' <= NumEntries
      BY <1>1 DEF Entry
    <2> QED
      BY <1>1, <1>8, <2>1, <2>2 DEF Placing
  <1> QED
    BY <1>1, <1>6, <1>7, <1>9, <1>10
    DEF IInv, Reading, Mirroring, Scanning, Expanding

\* The expansion reads the row pointers and changes nothing but row_ptr_all.
LEMMA ExpandStep ==
  ASSUME IInv, StartExpand \/ ExpandRow \/ EndExpand
  PROVE  IInv'
  <1> USE CsrAssumption
  <1>1. /\ pc \in {"place", "expand"} /\ pc' \in {"expand", "done"}
        /\ UNCHANGED <<file, isSymmetric, row_tmp, col_tmp, counter, old_val,
                      row_ptr, col>>
    BY DEF StartExpand, ExpandRow, EndExpand, input, tmp
  <1>2. i' \in Nat /\ (pc' = "expand" => i' <= Rows)
    BY DEF IInv, TypeOK, StartExpand, ExpandRow, EndExpand
  <1>3. TypeOK'
    BY <1>1, <1>2 DEF IInv, TypeOK, Step
  <1>4. HaveRead'
    BY <1>1 DEF IInv, HaveRead
  <1>5. \A r : Total(r)' = Total(r)
    BY <1>1 DEF Total, Count, Below, Own, Mirrored, OffDiagonal
  <1>6. Placed'
    BY <1>1, <1>5 DEF IInv, Placed
  <1>7. Placing'
    <2>1. \A r \in Row : counter[r] = Total(r)
      <3>1. CASE StartExpand
        BY <3>1 DEF IInv, Placing, StartExpand, Total
      <3>2. CASE ExpandRow \/ EndExpand
        BY <3>2 DEF IInv, Placing, ExpandRow, EndExpand
      <3> QED
        BY <3>1, <3>2
    <2> QED
      BY <1>1, <1>5, <2>1 DEF Placing
  <1>8. Expanding'
    BY <1>2 DEF Expanding
  <1> QED
    BY <1>1, <1>3, <1>4, <1>6, <1>7, <1>8
    DEF IInv, Reading, Mirroring, Scanning

\* The invariant is inductive.
LEMMA NextIInv ==
  ASSUME IInv, [Next]_vars
  PROVE  IInv'
  <1>1. CASE Next
    BY <1>1, ReadEntryStep, EndReadStep, CountMirrorStep, StartScanStep,
       ScanStep, AllocateStep, PlaceEntryStep, PlaceMirroredStep, ExpandStep
    DEF Next
  <1>2. CASE UNCHANGED vars
    <2>1. UNCHANGED <<file, isSymmetric, pc, i, row_tmp, col_tmp, counter,
                      old_val, row_ptr, col>>
      BY <1>2 DEF vars, input, tmp
    <2>2. TypeOK' /\ HaveRead' /\ Expanding'
      BY <2>1 DEF IInv, TypeOK, HaveRead, Expanding
    <2>3. \A r, k : Total(r)' = Total(r) /\ Count(r, k)' = Count(r, k)
      BY <2>1 DEF Total, Count, Below, Own, Mirrored, OffDiagonal
    <2>4. Scanning' /\ Placed' /\ Placing'
      <3>1. Scanning'
        BY <2>1 DEF IInv, Scanning, Total, Count, Below, Own, Mirrored,
                    OffDiagonal
      <3>2. Placed'
        BY <2>1, <2>3 DEF IInv, Placed
      <3>3. Placing'
        BY <2>1 DEF IInv, Placing, Total, Count, Below, Own, Mirrored,
                    OffDiagonal
      <3> QED
        BY <3>1, <3>2, <3>3
    <2>5. Reading' /\ Mirroring'
      BY <2>1 DEF IInv, Reading, Mirroring, Below, Own, Mirrored, OffDiagonal
    <2> QED
      BY <2>2, <2>4, <2>5 DEF IInv
  <1> QED
    BY <1>1, <1>2

\* In every reachable state the counter is what its loop takes it for, and the
\* rows of the matrix lie apart from each other.
THEOREM IInvCorrect == Spec => []IInv
  BY InitIInv, NextIInv, PTL DEF Spec

\* Type correctness of matrix_read_csr and of the expansion.
THEOREM TypeCorrect == Spec => []TypeOK
  <1>1. IInv => TypeOK
    BY DEF IInv
  <1> QED
    BY <1>1, IInvCorrect, PTL

\* Whatever the size of the matrix and the file, an entry and its mirror image
\* are written into the rows they belong to, at places not written before.
THEOREM WritesFreePlaces == Spec => NeverOverwritten
  <1> DEFINE A == pc = "place" /\ pc' = "place" =>
                    \A r \in Row : counter'[r] > counter[r] =>
                      /\ Offset(r) < row_ptr[r + 1]
                      /\ col[Offset(r)] = Unset
                      /\ col'[Offset(r)] # Unset
  <1>1. ASSUME IInv, [Next]_vars
        PROVE  [A]_vars
    <2> SUFFICES ASSUME pc = "place", pc' = "place",
                        NEW r \in Row, counter'[r] > counter[r]
                 PROVE  /\ Offset(r) < row_ptr[r + 1]
                        /\ col[Offset(r)] = Unset
                        /\ col'[Offset(r)] # Unset
      OBVIOUS
    <2> USE CsrAssumption
    <2>0. counter \in [0 .. Rows -> Nat]
      BY <1>1 DEF IInv, TypeOK
    <2>1. CASE PlaceEntry
      <3>1. /\ i \in Entry
            /\ row_tmp[i] \in Row /\ col_tmp[i] \in Col
            /\ counter' = [counter EXCEPT ![row_tmp[i]] = @ + 1]
            /\ col' = [col EXCEPT ![Offset(row_tmp[i])] = col_tmp[i]]
        BY <1>1, <2>1 DEF IInv, TypeOK, HaveRead, PlaceEntry, Entry
      <3>2. r = row_tmp[i]
        BY <2>0, <3>1 DEF Row
      <3>3. /\ Offset(r) \in DOMAIN col /\ Offset(r) < row_ptr[r + 1]
            /\ col[Offset(r)] = Unset
        BY <1>1, <3>1, <3>2, FreePlace
      <3> QED
        BY <3>1, <3>2, <3>3 DEF Col
    <2>2. CASE PlaceMirrored
      <3>1. /\ i \in Entry
            /\ OffDiagonal(i)
            /\ row_tmp[i] \in Row /\ col_tmp[i] \in Row
            /\ counter' = [counter EXCEPT ![row_tmp[i]] = @ + 1,
                                          ![col_tmp[i]] = @ + 1]
            /\ col' = [col EXCEPT ![Offset(row_tmp[i])] = col_tmp[i],
                                  ![Offset(col_tmp[i])] = row_tmp[i]]
        BY <1>1, <2>2 DEF IInv, TypeOK, HaveRead, PlaceMirrored, OffDiagonal, Entry,
                    Row, Col
      <3>2. r = row_tmp[i] \/ r = col_tmp[i]
        <4>1. ASSUME r # row_tmp[i], r # col_tmp[i]
              PROVE  counter'[r] = counter[r]
          BY <2>0, <3>1, <4>1 DEF Row
        <4>2. counter[r] \in Nat
          BY <2>0 DEF Row
        <4> QED
          BY <4>1, <4>2
      <3>3. /\ Offset(r) \in DOMAIN col /\ Offset(r) < row_ptr[r + 1]
            /\ col[Offset(r)] = Unset
        BY <1>1, <3>1, <3>2, FreePlace
      <3>4. col'[Offset(r)] \in {row_tmp[i], col_tmp[i]}
        BY <3>1, <3>2, <3>3
      <3> QED
        BY <3>1, <3>3, <3>4 DEF Row
    <2>3. CASE UNCHANGED vars
      BY <2>0, <2>3 DEF vars, Row
    <2> QED
      BY <1>1, <2>1, <2>2, <2>3
      DEF Next, ReadEntry, EndRead, CountMirror, StartScan, Scan, Allocate,
          StartExpand, ExpandRow, EndExpand
  <1> QED
    BY <1>1, IInvCorrect, PTL DEF Spec, NeverOverwritten

-----------------------------------------------------------------------------
(***************************************************************************)
(* The arrays that matrix_read_csr leaves behind hold the matrix of the    *)
(* file, for every size of the matrix and every file.                      *)
(*                                                                         *)
(* Nothing maps elements to places: each row counts, column by column, the *)
(* places that hold the column, and entry by entry this count grows as the *)
(* number of elements passed does.                                         *)
(***************************************************************************)
\* A place of a row is some free or taken place of it.
LEMMA RowPlaces ==
  ASSUME IInv, pc \in {"place", "expand", "done"}, NEW r \in Row
  PROVE  /\ row_ptr[r] \in Nat /\ row_ptr[r + 1] \in Nat
         /\ Total(r) \in Nat
         /\ InRow(r) \subseteq DOMAIN col
         /\ IsFiniteSet(InRow(r))
         /\ \A p \in InRow(r) : /\ p \in Int
                                /\ p - row_ptr[r] \in 0 .. Total(r) - 1
                                /\ p = row_ptr[r] + (p - row_ptr[r])
  <1> USE CsrAssumption
  <1>1. /\ row_ptr \in [0 .. Rows -> Nat]
        /\ row_ptr[r + 1] = row_ptr[r] + Total(r)
    BY DEF IInv, Placed
  <1>2. /\ row_ptr[r] \in Nat /\ row_ptr[r + 1] \in Nat
        /\ Total(r) \in Nat
    <2>1. r \in 0 .. Rows /\ r + 1 \in 0 .. Rows
      BY DEF Row
    <2> QED
      BY <1>1, <2>1, CountFacts
  <1>3. \A p \in InRow(r) : /\ p \in Int
                            /\ p - row_ptr[r] \in 0 .. Total(r) - 1
                            /\ p = row_ptr[r] + (p - row_ptr[r])
    BY <1>1, <1>2 DEF InRow
  <1>4. InRow(r) \subseteq DOMAIN col
    BY <1>3, PlaceInRow
  <1>5. IsFiniteSet(InRow(r))
    <2>1. row_ptr[r] \in Int /\ row_ptr[r + 1] - 1 \in Int
      BY <1>2
    <2> QED
      BY <2>1, FS_Interval DEF InRow
  <1> QED
    BY <1>2, <1>3, <1>4, <1>5

\* No place is in two rows.
LEMMA RowsApart ==
  ASSUME IInv, pc \in {"place", "expand", "done"},
         NEW r \in Row, NEW s \in Row, NEW p \in InRow(r), p \in InRow(s)
  PROVE  r = s
  <1> USE CsrAssumption
  <1>1. \A t \in Row : /\ row_ptr[t] \in Nat /\ row_ptr[t + 1] \in Nat
                       /\ Total(t) \in Nat
                       /\ row_ptr[t + 1] = row_ptr[t] + Total(t)
    BY RowPlaces DEF IInv, Placed
  <1>2. \A t \in Row, u \in Row :
          t < u => row_ptr[t] + Total(t) <= row_ptr[u]
    BY DEF IInv, Placed, Row
  <1>3. \A t \in Row : p \in InRow(t) => /\ p \in Int /\ row_ptr[t] <= p
                                         /\ p < row_ptr[t] + Total(t)
    BY <1>1 DEF InRow
  <1>4. ~ r < s
    BY <1>1, <1>2, <1>3
  <1>5. ~ s < r
    BY <1>1, <1>2, <1>3
  <1> QED
    BY <1>4, <1>5 DEF Row

\* The free place of a row is a place of that row and of no other.
LEMMA FreePlaceInRow ==
  ASSUME IInv, pc = "place", i \in Entry, NEW r \in Row,
         row_tmp[i] = r \/ (OffDiagonal(i) /\ col_tmp[i] = r)
  PROVE  /\ Offset(r) \in InRow(r)
         /\ \A s \in Row : s # r => Offset(r) \notin InRow(s)
         /\ Offset(r) \in DOMAIN col
         /\ col[Offset(r)] = Unset
  <1> USE CsrAssumption
  <1>1. /\ counter[r] \in 0 .. Total(r) - 1
        /\ Offset(r) \in DOMAIN col
        /\ Offset(r) < row_ptr[r + 1]
        /\ col[Offset(r)] = Unset
    BY FreePlace
  <1>2. row_ptr[r] \in Nat /\ row_ptr[r + 1] \in Nat /\ Total(r) \in Nat
    BY RowPlaces
  <1>3. Offset(r) \in InRow(r)
    BY <1>1, <1>2 DEF Offset, InRow
  <1> QED
    BY <1>1, <1>3, RowsApart

\* The elements passed when an entry is placed, in terms of the arrays.
LEMMA ElementPlaced ==
  ASSUME IInv, MatrixInv, pc = "place", i \in Entry,
         NEW r \in Row, NEW c \in Col
  PROVE  i \in Elements(r, c) <=>
           \/ row_tmp[i] = r /\ col_tmp[i] = c
           \/ isSymmetric /\ row_tmp[i] = c /\ col_tmp[i] = r
  <1>1. /\ row_tmp[i] = file[i].row - 1
        /\ col_tmp[i] = file[i].column - 1
    BY DEF MatrixInv, FileRead
  <1>2. file[i] \in [row : 1 .. Rows, column : 1 .. Cols]
    BY DEF IInv, TypeOK
  <1>3. /\ file[i] = [row |-> file[i].row, column |-> file[i].column]
        /\ file[i].row \in Int /\ file[i].column \in Int
    BY <1>2
  <1>4. /\ file[i] = [row |-> r + 1, column |-> c + 1]
             <=> file[i].row = r + 1 /\ file[i].column = c + 1
        /\ file[i] = [row |-> c + 1, column |-> r + 1]
             <=> file[i].row = c + 1 /\ file[i].column = r + 1
    BY <1>3
  <1>5. i \in Elements(r, c) <=>
           \/ file[i].row = r + 1 /\ file[i].column = c + 1
           \/ isSymmetric /\ file[i].row = c + 1 /\ file[i].column = r + 1
    BY <1>4 DEF Elements
  <1> QED
    BY <1>1, <1>3, <1>5 DEF Row, Col

\* Before the file is read there is nothing to say about it.
LEMMA InitMatrixInv == Init => MatrixInv
  <1> SUFFICES ASSUME Init PROVE MatrixInv
    OBVIOUS
  <1> USE CsrAssumption DEF Init
  <1>1. FileRead
    BY DEF FileRead
  <1> QED
    BY <1>1 DEF MatrixInv, StartsAtZero, ColumnsPlaced, Expanded

\* The temporary arrays follow the file.
LEMMA FileReadStep ==
  ASSUME IInv, MatrixInv, Next
  PROVE  FileRead'
  <1> USE CsrAssumption
  <1>1. CASE ReadEntry
    <2>1. /\ pc = "read" /\ pc' = "read" /\ i \in Entry /\ i' = i + 1
          /\ row_tmp' = [row_tmp EXCEPT ![i] = file[i].row - 1]
          /\ col_tmp' = [col_tmp EXCEPT ![i] = file[i].column - 1]
          /\ file' = file
      BY <1>1 DEF IInv, TypeOK, ReadEntry, Entry, input
    <2>2. DOMAIN row_tmp = Entry /\ DOMAIN col_tmp = Entry
      BY DEF IInv, TypeOK
    <2> SUFFICES ASSUME NEW e \in 0 .. i
                 PROVE  /\ row_tmp'[e] = file[e].row - 1
                        /\ col_tmp'[e] = file[e].column - 1
      BY <2>1 DEF FileRead, Entry
    <2>3. CASE e = i
      BY <2>1, <2>2, <2>3
    <2>4. CASE e # i
      <3>1. e \in 0 .. i - 1 /\ e \in Entry
        BY <2>1, <2>4 DEF Entry
      <3>2. row_tmp[e] = file[e].row - 1 /\ col_tmp[e] = file[e].column - 1
        BY <2>1, <3>1 DEF MatrixInv, FileRead
      <3> QED
        BY <2>1, <2>2, <2>4, <3>1, <3>2
    <2> QED
      BY <2>3, <2>4
  <1>2. CASE EndRead
    <2>1. /\ pc = "read" /\ pc' = "mirror" /\ i = NumEntries
          /\ UNCHANGED <<file, row_tmp, col_tmp>>
      BY <1>2 DEF EndRead, input, tmp
    <2> QED
      BY <2>1 DEF MatrixInv, FileRead, Entry
  <1>3. CASE ~ ReadEntry /\ ~ EndRead
    <2>1. pc # "read" /\ pc' # "read" /\ UNCHANGED <<file, row_tmp, col_tmp>>
      BY <1>3 DEF Next, CountMirror, StartScan, Scan, Allocate, PlaceEntry,
                  PlaceMirrored, StartExpand, ExpandRow, EndExpand, input, tmp
    <2> QED
      BY <2>1 DEF MatrixInv, FileRead
  <1> QED
    BY <1>1, <1>2, <1>3

\* The first row starts at the first place.
LEMMA StartsAtZeroStep ==
  ASSUME IInv, MatrixInv, Next
  PROVE  StartsAtZero'
  <1> USE CsrAssumption
  <1>0. counter \in [0 .. Rows -> Nat]
    BY DEF IInv, TypeOK
  <1>1. CASE StartScan
    BY <1>0, <1>1 DEF StartScan, StartsAtZero
  <1>2. CASE Scan
    <2>1. i \in 1 .. Rows /\ pc' = "scan" /\ counter[0] = 0
      BY <1>2 DEF IInv, Scanning, Scan, MatrixInv, StartsAtZero
    <2>2. counter'[0] = counter[0]
      BY <1>0, <1>2, <2>1 DEF Scan
    <2> QED
      BY <2>1, <2>2 DEF StartsAtZero
  <1>3. CASE Allocate
    BY <1>3 DEF Allocate, MatrixInv, StartsAtZero
  <1>4. CASE PlaceEntry \/ PlaceMirrored \/ StartExpand
             \/ ExpandRow \/ EndExpand
    BY <1>4 DEF PlaceEntry, PlaceMirrored, StartExpand, ExpandRow, EndExpand,
                MatrixInv, StartsAtZero
  <1>5. CASE ReadEntry \/ EndRead \/ CountMirror
    BY <1>5 DEF ReadEntry, EndRead, CountMirror, StartsAtZero
  <1> QED
    BY <1>1, <1>2, <1>3, <1>4, <1>5 DEF Next

\* No row holds a column before the first entry is placed.
LEMMA AllocateColumns ==
  ASSUME IInv, MatrixInv, Allocate
  PROVE  ColumnsPlaced'
  <1> USE CsrAssumption
  <1>1. /\ pc = "scan" /\ i = Rows + 1 /\ pc' = "place" /\ i' = 0
        /\ row_ptr' = counter
        /\ DOMAIN col' = 0 .. counter[Rows] - 1
        /\ \A p \in DOMAIN col' : col'[p] = Unset
    BY DEF Allocate
  <1>2. /\ counter \in [0 .. Rows -> Nat]
        /\ \A r \in Row : r < Rows => counter[r] + Total(r) <= counter[Rows]
        /\ \A r \in Row : counter[r + 1] = counter[r] + Total(r)
    BY <1>1 DEF IInv, TypeOK, Scanning, Row
  <1>3. ASSUME NEW r \in Row, NEW c \in Col
        PROVE  Holding(r, c)' = {}
    <2>1. InRow(r)' \subseteq DOMAIN col'
      <3>1. /\ counter[r] \in Nat /\ counter[r + 1] \in Nat
            /\ counter[r + 1] <= counter[Rows] /\ counter[Rows] \in Nat
        <4>1. r \in 0 .. Rows /\ r + 1 \in 0 .. Rows /\ Rows \in 0 .. Rows
          BY DEF Row
        <4>2. counter[r + 1] <= counter[Rows]
          <5>1. r < Rows
            BY DEF Row
          <5>2. counter[r + 1] = counter[r] + Total(r)
            BY <1>2
          <5>3. counter[r] + Total(r) <= counter[Rows]
            BY <1>2, <5>1
          <5> QED
            BY <5>2, <5>3
        <4> QED
          BY <1>2, <4>1, <4>2
      <3> QED
        BY <1>1, <3>1 DEF InRow
    <2>2. c # Unset
      BY DEF Col
    <2> QED
      BY <1>1, <2>1, <2>2 DEF Holding
  <1>4. \A S : Below(0, S) = 0
    BY BelowZero
  <1> QED
    BY <1>1, <1>3, <1>4, FS_EmptySet DEF ColumnsPlaced, Below

\* What placing entry i does to the columns of the rows, all cases at once:
\* row r takes column c in one place more if the entry is an element (r, c).
LEMMA PlaceColumns ==
  ASSUME IInv, MatrixInv, pc = "place", i \in Entry, pc' = "place", i' = i + 1,
         UNCHANGED <<file, isSymmetric, row_ptr>>,
         \A r \in Row, c \in Col :
           IF i \in Elements(r, c)
             THEN \E p : /\ p \notin Holding(r, c)
                         /\ Holding(r, c)' = Holding(r, c) \cup {p}
             ELSE Holding(r, c)' = Holding(r, c)
  PROVE  ColumnsPlaced'
  <1> USE CsrAssumption
  <1> SUFFICES ASSUME NEW r \in Row, NEW c \in Col
               PROVE  Cardinality(Holding(r, c)') = Below(i + 1, Elements(r, c))
    BY DEF ColumnsPlaced, Below, Elements
  <1>1. Cardinality(Holding(r, c)) = Below(i, Elements(r, c))
    BY DEF MatrixInv, ColumnsPlaced
  <1>2. IsFiniteSet(Holding(r, c))
    <2>1. IsFiniteSet(InRow(r))
      BY RowPlaces
    <2> QED
      BY <2>1, FS_Subset DEF Holding
  <1>3. /\ Below(i, Elements(r, c)) \in Nat
        /\ Below(i + 1, Elements(r, c))
             = Below(i, Elements(r, c))
               + (IF i \in Elements(r, c) THEN 1 ELSE 0)
    <2>1. i \in Nat
      BY DEF Entry
    <2> QED
      BY <2>1, BelowStep
  <1>4. CASE i \in Elements(r, c)
    <2>1. PICK p : /\ p \notin Holding(r, c)
                   /\ Holding(r, c)' = Holding(r, c) \cup {p}
      BY <1>4
    <2>2. Cardinality(Holding(r, c) \cup {p}) = Cardinality(Holding(r, c)) + 1
      BY <1>2, <2>1, FS_AddElement
    <2> QED
      BY <1>1, <1>3, <1>4, <2>1, <2>2
  <1>5. CASE i \notin Elements(r, c)
    <2>1. Holding(r, c)' = Holding(r, c)
      BY <1>5
    <2> QED
      BY <1>1, <1>3, <1>5, <2>1
  <1> QED
    BY <1>4, <1>5

\* An entry without mirror image is one element, and takes one place.
LEMMA PlaceEntryColumns ==
  ASSUME IInv, MatrixInv, PlaceEntry
  PROVE  ColumnsPlaced'
  <1> DEFINE q == row_tmp[i]
             m == col_tmp[i]
  <1> USE CsrAssumption
  <1>1. /\ pc = "place" /\ pc' = "place" /\ i \in Entry /\ i' = i + 1
        /\ isSymmetric => q = m
        /\ q \in Row /\ m \in Col
        /\ col' = [col EXCEPT ![Offset(q)] = m]
        /\ UNCHANGED <<file, isSymmetric, row_ptr>>
    BY DEF IInv, TypeOK, HaveRead, PlaceEntry, OffDiagonal, Entry, input, tmp
  <1>2. /\ Offset(q) \in InRow(q)
        /\ \A s \in Row : s # q => Offset(q) \notin InRow(s)
        /\ Offset(q) \in DOMAIN col
        /\ col[Offset(q)] = Unset
    BY <1>1, FreePlaceInRow
  <1>3. ASSUME NEW r \in Row, NEW c \in Col
        PROVE  IF i \in Elements(r, c)
                 THEN \E p : /\ p \notin Holding(r, c)
                             /\ Holding(r, c)' = Holding(r, c) \cup {p}
                 ELSE Holding(r, c)' = Holding(r, c)
    <2>1. i \in Elements(r, c) <=> r = q /\ c = m
      BY <1>1, ElementPlaced
    <2>2. InRow(r)' = InRow(r) /\ InRow(r) \subseteq DOMAIN col /\ c # Unset
      <3>1. InRow(r) \subseteq DOMAIN col
        BY <1>1, RowPlaces
      <3> QED
        BY <1>1, <3>1 DEF InRow, Col
    <2>3. \A p \in InRow(r) : col'[p] = IF p = Offset(q) THEN m ELSE col[p]
      BY <1>1, <2>2
    <2>4. Offset(q) \notin Holding(r, c)
      BY <1>2, <2>2 DEF Holding
    <2>5. CASE r = q /\ c = m
      <3>1. Holding(r, c)' = Holding(r, c) \cup {Offset(q)}
        BY <1>2, <2>2, <2>3, <2>5 DEF Holding
      <3> QED
        BY <2>1, <2>4, <2>5, <3>1
    <2>6. CASE ~ (r = q /\ c = m)
      <3>1. Holding(r, c)' = Holding(r, c)
        BY <1>2, <2>2, <2>3, <2>6 DEF Holding
      <3> QED
        BY <2>1, <2>6, <3>1
    <2> QED
      BY <2>5, <2>6
  <1> QED
    BY <1>1, <1>3, PlaceColumns

\* An entry and its mirror image are two elements, in two rows.
LEMMA PlaceMirroredColumns ==
  ASSUME IInv, MatrixInv, PlaceMirrored
  PROVE  ColumnsPlaced'
  <1> DEFINE q == row_tmp[i]
             m == col_tmp[i]
  <1> USE CsrAssumption
  <1>1. /\ pc = "place" /\ pc' = "place" /\ i \in Entry /\ i' = i + 1
        /\ OffDiagonal(i) /\ isSymmetric /\ q # m
        /\ q \in Row /\ m \in Row
        /\ col' = [col EXCEPT ![Offset(q)] = m, ![Offset(m)] = q]
        /\ UNCHANGED <<file, isSymmetric, row_ptr>>
    BY DEF IInv, TypeOK, HaveRead, PlaceMirrored, OffDiagonal, Entry, Row, Col,
           input, tmp
  <1>2. /\ Offset(q) \in InRow(q)
        /\ \A s \in Row : s # q => Offset(q) \notin InRow(s)
        /\ Offset(q) \in DOMAIN col
        /\ col[Offset(q)] = Unset
    BY <1>1, FreePlaceInRow
  <1>3. /\ Offset(m) \in InRow(m)
        /\ \A s \in Row : s # m => Offset(m) \notin InRow(s)
        /\ Offset(m) \in DOMAIN col
        /\ col[Offset(m)] = Unset
    BY <1>1, FreePlaceInRow
  <1>4. ASSUME NEW r \in Row, NEW c \in Col
        PROVE  IF i \in Elements(r, c)
                 THEN \E p : /\ p \notin Holding(r, c)
                             /\ Holding(r, c)' = Holding(r, c) \cup {p}
                 ELSE Holding(r, c)' = Holding(r, c)
    <2>1. i \in Elements(r, c) <=> (r = q /\ c = m) \/ (r = m /\ c = q)
      BY <1>1, ElementPlaced
    <2>2. InRow(r)' = InRow(r) /\ InRow(r) \subseteq DOMAIN col /\ c # Unset
      <3>1. InRow(r) \subseteq DOMAIN col
        BY <1>1, RowPlaces
      <3> QED
        BY <1>1, <3>1 DEF InRow, Col
    <2>3. \A p \in InRow(r) : col'[p] = IF p = Offset(m) THEN q
                                        ELSE IF p = Offset(q) THEN m ELSE col[p]
      BY <1>1, <2>2
    <2>4. Offset(q) \notin Holding(r, c) /\ Offset(m) \notin Holding(r, c)
      BY <1>2, <1>3, <2>2 DEF Holding
    <2>5. CASE r = q /\ c = m
      <3>1. Holding(r, c)' = Holding(r, c) \cup {Offset(q)}
        BY <1>1, <1>2, <1>3, <2>2, <2>3, <2>5 DEF Holding
      <3> QED
        BY <2>1, <2>4, <2>5, <3>1
    <2>6. CASE r = m /\ c = q
      <3>1. Holding(r, c)' = Holding(r, c) \cup {Offset(m)}
        BY <1>1, <1>2, <1>3, <2>2, <2>3, <2>6 DEF Holding
      <3> QED
        BY <2>1, <2>4, <2>6, <3>1
    <2>7. CASE ~ (r = q /\ c = m) /\ ~ (r = m /\ c = q)
      <3>1. Holding(r, c)' = Holding(r, c)
        BY <1>1, <1>2, <1>3, <2>2, <2>3, <2>7 DEF Holding
      <3> QED
        BY <2>1, <2>7, <3>1
    <2> QED
      BY <2>5, <2>6, <2>7
  <1> QED
    BY <1>1, <1>4, PlaceColumns

\* The columns placed, in every step.
LEMMA ColumnsPlacedStep ==
  ASSUME IInv, MatrixInv, Next
  PROVE  ColumnsPlaced'
  <1>1. CASE ReadEntry \/ EndRead \/ CountMirror \/ StartScan \/ Scan
    BY <1>1 DEF ReadEntry, EndRead, CountMirror, StartScan, Scan, ColumnsPlaced
  <1>2. CASE StartExpand \/ ExpandRow \/ EndExpand
    <2>1. /\ pc \in {"place", "expand"} /\ pc' \in {"expand", "done"}
          /\ pc = "place" => i = NumEntries
          /\ UNCHANGED <<file, isSymmetric, row_ptr, col>>
      BY <1>2 DEF StartExpand, ExpandRow, EndExpand, input
    <2> QED
      BY <2>1 DEF MatrixInv, ColumnsPlaced, Holding, InRow, Below, Elements
  <1> QED
    BY <1>1, <1>2, AllocateColumns, PlaceEntryColumns, PlaceMirroredColumns
    DEF Next

\* The expansion, row by row.
LEMMA ExpandedStep ==
  ASSUME IInv, MatrixInv, Next
  PROVE  Expanded'
  <1> USE CsrAssumption
  <1>1. CASE StartExpand
    <2>1. /\ pc = "place" /\ pc' = "expand" /\ i' = 0
          /\ DOMAIN row_ptr_all' = DOMAIN col
          /\ UNCHANGED <<row_ptr, col>>
      BY <1>1 DEF StartExpand
    <2>2. row_ptr'[0] = 0 /\ \A p \in DOMAIN col : p >= 0
      BY <2>1 DEF MatrixInv, StartsAtZero, IInv, Placed
    <2>3. \A p \in DOMAIN col : p \in Int
      BY <2>1 DEF IInv, Placed
    <2>4. \A p \in DOMAIN col : ~ p < 0
      BY <2>2, <2>3
    <2> QED
      BY <2>1, <2>2, <2>4 DEF Expanded
  <1>2. CASE ExpandRow
    <2>1. /\ pc = "expand" /\ pc' = "expand" /\ i \in Row /\ i' = i + 1
          /\ DOMAIN row_ptr_all' = DOMAIN row_ptr_all
          /\ \A p \in DOMAIN row_ptr_all :
               row_ptr_all'[p] = IF p \in InRow(i) THEN i ELSE row_ptr_all[p]
          /\ UNCHANGED <<row_ptr, col>>
      BY <1>2 DEF ExpandRow, IInv, TypeOK, Row, InRow
    <2>2. /\ DOMAIN row_ptr_all = DOMAIN col
          /\ \A p \in DOMAIN col :
               p < row_ptr[i] => /\ row_ptr_all[p] \in Row
                                 /\ p \in InRow(row_ptr_all[p])
      BY <2>1 DEF MatrixInv, Expanded
    <2>3. /\ row_ptr[i] \in Nat /\ row_ptr[i + 1] \in Nat
          /\ \A p \in DOMAIN col : p \in Int
      BY <2>1, RowPlaces DEF IInv, Placed
    <2>4. ASSUME NEW p \in DOMAIN col, p < row_ptr[i + 1]
          PROVE  row_ptr_all'[p] \in Row /\ p \in InRow(row_ptr_all'[p])
      <3>1. CASE p \in InRow(i)
        BY <2>1, <2>2, <3>1
      <3>2. CASE p \notin InRow(i)
        <4>1. p < row_ptr[i]
          BY <2>3, <2>4, <3>2 DEF InRow
        <4> QED
          BY <2>1, <2>2, <3>2, <4>1
      <3> QED
        BY <3>1, <3>2
    <2>5. (\A p \in DOMAIN col :
             p < row_ptr[i] => /\ row_ptr_all[p] \in Row
                               /\ p \in InRow(row_ptr_all[p]))'
      BY <2>1, <2>4 DEF InRow
    <2>6. i' <= Rows
      BY <2>1 DEF Row
    <2>7. DOMAIN row_ptr_all' = DOMAIN col'
      BY <2>1, <2>2
    <2> QED
      BY <2>1, <2>5, <2>6, <2>7 DEF Expanded
  <1>3. CASE EndExpand
    BY <1>3 DEF EndExpand, MatrixInv, Expanded, InRow
  <1>4. CASE ~ StartExpand /\ ~ ExpandRow /\ ~ EndExpand
    BY <1>4 DEF Next, ReadEntry, EndRead, CountMirror, StartScan, Scan,
                Allocate, PlaceEntry, PlaceMirrored, Expanded
  <1> QED
    BY <1>1, <1>2, <1>3, <1>4

\* The invariants are inductive together.
LEMMA NextMatrixInv ==
  ASSUME IInv, MatrixInv, [Next]_vars
  PROVE  MatrixInv'
  <1>1. CASE Next
    BY <1>1, FileReadStep, StartsAtZeroStep, ColumnsPlacedStep, ExpandedStep
    DEF MatrixInv
  <1>2. CASE UNCHANGED vars
    <2>1. UNCHANGED <<file, isSymmetric, pc, i, row_tmp, col_tmp, counter,
                      row_ptr, col, row_ptr_all>>
      BY <1>2 DEF vars, input, tmp
    <2>2. FileRead' /\ StartsAtZero'
      BY <2>1 DEF MatrixInv, FileRead, StartsAtZero
    <2>3. ColumnsPlaced'
      BY <2>1 DEF MatrixInv, ColumnsPlaced, Holding, InRow, Below, Elements
    <2>4. Expanded'
      BY <2>1 DEF MatrixInv, Expanded, InRow
    <2> QED
      BY <2>2, <2>3, <2>4 DEF MatrixInv
  <1> QED
    BY <1>1, <1>2

\* At every step each row holds each column as often as the entries placed so
\* far ask for it.
THEOREM ColumnsCounted == Spec => []MatrixInv
  <1>1. Spec => [](IInv /\ MatrixInv)
    BY InitIInv, InitMatrixInv, NextIInv, NextMatrixInv, PTL DEF Spec
  <1> QED
    BY <1>1, PTL

\* When every row is expanded, the arrays are the matrix of the file.
LEMMA DoneIsMatrix ==
  ASSUME IInv, MatrixInv, pc = "done"
  PROVE  CsrIsMatrix
  <1> USE CsrAssumption
  <1>1. ASSUME NEW p \in DOMAIN col
        PROVE  row_ptr_all[p] \in Row /\ p \in InRow(row_ptr_all[p])
    <2>1. /\ DOMAIN col = 0 .. row_ptr[Rows] - 1
          /\ row_ptr[Rows] \in Nat /\ i = Rows
      BY DEF IInv, Placed, MatrixInv, Expanded
    <2>2. p < row_ptr[i]
      BY <1>1, <2>1
    <2> QED
      BY <2>2 DEF MatrixInv, Expanded
  <1>2. ASSUME NEW p \in DOMAIN col
        PROVE  col[p] \in Col
    <2> DEFINE r == row_ptr_all[p]
    <2>1. r \in Row /\ p \in InRow(r)
      BY <1>1, <1>2
    <2>2. /\ p - row_ptr[r] \in 0 .. Total(r) - 1
          /\ p = row_ptr[r] + (p - row_ptr[r])
          /\ Total(r) \in Nat
      BY <2>1, RowPlaces
    <2>3. counter[r] = Total(r)
      BY <2>1 DEF IInv, Placing
    <2>4. col[row_ptr[r] + (p - row_ptr[r])] # Unset
            <=> p - row_ptr[r] < counter[r]
      BY <2>1, <2>2 DEF IInv, Placed
    <2>5. p - row_ptr[r] < counter[r]
      BY <2>2, <2>3
    <2>6. col[p] # Unset
      BY <2>2, <2>4, <2>5
    <2>7. col[p] \in Col \cup {Unset}
      BY <1>2 DEF IInv, TypeOK
    <2> QED
      BY <2>6, <2>7
  <1>3. ASSUME NEW r \in Row, NEW c \in Col
        PROVE  Cardinality(Places(r, c)) = Cardinality(Elements(r, c))
    <2>1. InRow(r) \subseteq DOMAIN col
      BY RowPlaces
    <2>2. \A p \in InRow(r) : row_ptr_all[p] = r
      BY <1>1, <2>1, RowsApart
    <2>3. Places(r, c) = Holding(r, c)
      BY <1>1, <2>1, <2>2 DEF Places, Holding
    <2>4. Cardinality(Holding(r, c)) = Below(NumEntries, Elements(r, c))
      BY DEF MatrixInv, ColumnsPlaced
    <2>5. (0 .. NumEntries - 1) \cap Elements(r, c) = Elements(r, c)
      BY DEF Elements, Entry
    <2> QED
      BY <2>3, <2>4, <2>5 DEF Below
  <1> QED
    BY <1>1, <1>2, <1>3 DEF CsrIsMatrix

\* Whatever the size of the matrix and the file, the arrays hold every element
\* of the matrix as often as the file gives it, mirror images included, and
\* no place is left as malloc returned it.
THEOREM ArraysHoldTheMatrix == Spec => []CsrIsMatrix
  <1>1. IInv /\ MatrixInv => CsrIsMatrix
    BY DoneIsMatrix DEF CsrIsMatrix
  <1> QED
    BY <1>1, IInvCorrect, ColumnsCounted, PTL

-----------------------------------------------------------------------------
(***************************************************************************)
(* The reader                                                              *)
(***************************************************************************)
USE DEF Lines!OffDiagonal, OffDiagonal, Lines!Entry, Entry, Lines!Offset, Offset,
        Lines!Row, Row, Lines!input, input, Lines!tmp, tmp

\* The numbers at which an entry begins are its row and its column.
LEMMA NumbersOfEntry ==
  ASSUME NumEntries \in Nat, NEW e \in Entry,
         NEW x, x = PerEntry * e
  PROVE  /\ x \in DOMAIN Numbers => Numbers[x] = file[e].row
         /\ x + 1 \in DOMAIN Numbers => Numbers[x + 1] = file[e].column
<1>1. CASE Field = "pattern"
  <2>1. PerEntry = 2
    BY <1>1 DEF PerEntry
  <2>2. x \div 2 = e /\ (x + 1) \div 2 = e /\ x % 2 = 0 /\ (x + 1) % 2 = 1
    BY <2>1 DEF Entry
  <2> QED
    BY <2>1, <2>2 DEF Numbers
<1>2. CASE Field # "pattern"
  <2>1. PerEntry = 3
    BY <1>2 DEF PerEntry
  <2>2. x \div 3 = e /\ (x + 1) \div 3 = e /\ x % 3 = 0 /\ (x + 1) % 3 = 1
    BY <2>1 DEF Entry
  <2> QED
    BY <2>1, <2>2 DEF Numbers
<1> QED
  BY <1>1, <1>2

\* The steps of the loops behind the first: with the symmetry of the banner
\* they are those of CsrBuild, and none of them reads an entry.
LEMMA BuildStep ==
  ASSUME InputInv, Build
  PROVE  Lines!Next /\ pc' # "read"
<1>1. isSymmetric = Mirrors /\ Mirrors' = Mirrors
  BY DEF InputInv, AtEntry, Build, readerVars, text, Mirrors, Storage
<1>2. CASE EndRead
  BY <1>1, <1>2 DEF EndRead, Lines!Next, Lines!EndRead
<1>3. CASE CountMirror
  BY <1>1, <1>3 DEF CountMirror, Lines!Next, Lines!CountMirror
<1>4. CASE StartScan
  BY <1>1, <1>4 DEF StartScan, Lines!Next, Lines!StartScan
<1>5. CASE Scan
  BY <1>1, <1>5 DEF Scan, Lines!Next, Lines!Scan
<1>6. CASE Allocate
  BY <1>1, <1>6 DEF Allocate, Lines!Next, Lines!Allocate
<1>7. CASE PlaceEntry
  BY <1>1, <1>7 DEF PlaceEntry, Lines!Next, Lines!PlaceEntry
<1>8. CASE PlaceMirrored
  BY <1>1, <1>8 DEF PlaceMirrored, Lines!Next, Lines!PlaceMirrored
<1>9. CASE StartExpand
  BY <1>1, <1>9 DEF StartExpand, Lines!Next, Lines!StartExpand
<1>10. CASE ExpandRow
  BY <1>1, <1>10 DEF ExpandRow, Lines!Next, Lines!ExpandRow
<1>11. CASE EndExpand
  BY <1>1, <1>11 DEF EndExpand, Lines!Next, Lines!EndExpand
<1> QED
  BY <1>2, <1>3, <1>4, <1>5, <1>6, <1>7, <1>8, <1>9, <1>10, <1>11 DEF Build

\* A read of numbers is the read of the next line.
LEMMA ReadStep ==
  ASSUME NumEntries \in Nat, InputInv, ReadNumbers
  PROVE  Lines!ReadEntry
<1>1. i \in Entry /\ at = PerEntry * i
  BY DEF InputInv, AtEntry, ReadNumbers
<1>2. at \in DOMAIN Numbers /\ at + 1 \in DOMAIN Numbers
  <2>1. at \in Nat
    BY <1>1 DEF PerEntry
  <2> QED
    BY <2>1 DEF ReadNumbers, Numbers, PerEntry
<1>3. Numbers[at] = file[i].row /\ Numbers[at + 1] = file[i].column
  BY <1>1, <1>2, NumbersOfEntry
<1>4. Mirrors' = Mirrors
  BY DEF ReadNumbers, text, Mirrors, Storage
<1> QED
  BY <1>3, <1>4 DEF ReadNumbers, Lines!ReadEntry

\* The steps of the header are none of CsrBuild: only the flag changes that
\* CsrBuild has from the start.
LEMMA HeaderStep ==
  ASSUME \/ mm_read_banner \/ SkipComment \/ BlankLine
         \/ SkipBlank \/ NoSizes \/ Sizes
  PROVE  UNCHANGED Lines!vars
BY DEF mm_read_banner, SkipComment, BlankLine, SkipBlank, NoSizes, Sizes,
       vars, Lines!vars, text, Mirrors, Storage

-----------------------------------------------------------------------------
\* The invariant holds before the banner is read.
LEMMA InitInv == InputInit => InputInv
BY DEF InputInit, Init, InputInv, HeaderRead, AtEntry

\* Reading the banner and the header keeps it.
LEMMA HeaderKeepsInv ==
  ASSUME InputInv,
         \/ mm_read_banner \/ SkipComment \/ BlankLine
         \/ SkipBlank \/ NoSizes \/ Sizes
  PROVE  InputInv'
<1> USE DEF InputInv, HeaderRead, AtEntry, Reject, text, vars, Field, Storage
<1>1. CASE mm_read_banner
  BY <1>1 DEF mm_read_banner
<1>2. CASE SkipComment
  BY <1>2 DEF SkipComment
<1>3. CASE BlankLine
  BY <1>3 DEF BlankLine
<1>4. CASE SkipBlank
  BY <1>4 DEF SkipBlank
<1>5. CASE NoSizes
  BY <1>5 DEF NoSizes
<1>6. CASE Sizes
  <2>1. i' = 0 /\ at' = 0 /\ pc' = "read"
    BY <1>6 DEF Sizes
  <2>2. banner' = banner /\ matcode' = matcode /\ HeaderRead
    BY <1>6 DEF Sizes
  <2>3. HeaderRead'
    BY <1>6, <2>2 DEF Sizes
  <2>4. IsSymmetric(matcode) = Mirrors /\ Mirrors' = Mirrors
    BY <1>6, <2>2 DEF Sizes, Mirrors, IsSymmetric
  <2>5. isSymmetric' = Mirrors'
    BY <1>6, <2>4 DEF Sizes
  <2>6. PerEntry' = 2 \/ PerEntry' = 3
    BY DEF PerEntry
  <2>7. at' = PerEntry' * i'
    BY <2>1, <2>6
  <2> QED
    BY <2>1, <2>3, <2>5, <2>7
<1> QED
  BY <1>1, <1>2, <1>3, <1>4, <1>5, <1>6

\* No step breaks it.
LEMMA StepKeepsInv ==
  ASSUME InputInv, [InputNext]_inputVars
  PROVE  InputInv'
<1>1. CASE \/ mm_read_banner \/ SkipComment \/ BlankLine
           \/ SkipBlank \/ NoSizes \/ Sizes
  BY <1>1, HeaderKeepsInv
<1>2. CASE ReadNumbers
  <2>1. phase = "data" /\ phase' = "data" /\ i \in Nat /\ at = PerEntry * i
    BY <1>2 DEF ReadNumbers, InputInv, AtEntry
  <2>2. matcode' = matcode /\ banner' = banner /\ isSymmetric' = isSymmetric
    BY <1>2 DEF ReadNumbers, text
  <2>3. Reads(matcode) = PerEntry
    BY <2>1 DEF Reads, PerEntry, InputInv, HeaderRead
  <2>4. PerEntry' = PerEntry /\ PerEntry \in Nat /\ Mirrors' = Mirrors
    BY <2>2 DEF PerEntry, Field, Mirrors, Storage
  <2>5. i' = i + 1 /\ at' = at + PerEntry
    BY <1>2, <2>3 DEF ReadNumbers
  <2>6. i' \in Nat /\ at' = PerEntry * i'
    BY <2>1, <2>4, <2>5
  <2> QED
    BY <2>1, <2>2, <2>4, <2>6 DEF InputInv, HeaderRead, AtEntry, Field, Storage
<1>3. CASE Build
  <2>1. pc' # "read"
    BY <1>3, BuildStep
  <2>2. UNCHANGED readerVars /\ isSymmetric' = isSymmetric /\ phase = "data"
    BY <1>3 DEF Build, EndRead, CountMirror, StartScan, Scan, Allocate,
                PlaceEntry, PlaceMirrored, StartExpand, ExpandRow, EndExpand
  <2> QED
    BY <2>1, <2>2 DEF readerVars, text, InputInv, HeaderRead, AtEntry, Mirrors,
                      Storage, Field
<1>4. CASE UNCHANGED inputVars
  BY <1>4 DEF inputVars, vars, readerVars, text, InputInv, HeaderRead, AtEntry,
              Mirrors, Storage, Field, PerEntry
<1> QED
  BY <1>1, <1>2, <1>3, <1>4 DEF InputNext

\* The code of the banner is that of the file, and while the entries are read
\* the next number is the first of the next entry (lines 148 to 175).
THEOREM NumbersInStep == InputSpec => []InputInv
<1>1. InputInit => InputInv
  BY InitInv
<1>2. InputInv /\ [InputNext]_inputVars => InputInv'
  BY StepKeepsInv
<1> QED
  BY <1>1, <1>2, PTL DEF InputSpec

\* For every banner, header and file, what the reader does to the arrays is
\* what CsrBuild does with the lines of the file: the properties proved of
\* CsrBuild hold of the program that reads text.
THEOREM ReaderImplementsLines == InputSpec => ReadsTheLines
<1>1. InputInit => Lines!Init
  BY DEF InputInit, Init, Lines!Init, Mirrors
<1>2. InputInv /\ [InputNext]_inputVars => [Lines!Next]_(Lines!vars)
  <2> SUFFICES ASSUME InputInv, [InputNext]_inputVars
               PROVE  [Lines!Next]_(Lines!vars)
    OBVIOUS
  <2>1. CASE \/ mm_read_banner \/ SkipComment \/ BlankLine
             \/ SkipBlank \/ NoSizes \/ Sizes
    BY <2>1, HeaderStep
  <2>2. CASE ReadNumbers
    BY <2>2, ReadStep, CsrAssumption DEF Lines!Next
  <2>3. CASE Build
    BY <2>3, BuildStep
  <2>4. CASE UNCHANGED inputVars
    BY <2>4 DEF inputVars, vars, readerVars, text, Lines!vars, Mirrors, Storage
  <2> QED
    BY <2>1, <2>2, <2>3, <2>4 DEF InputNext
<1> QED
  BY <1>1, <1>2, NumbersInStep, PTL DEF InputSpec, ReadsTheLines, Lines!Spec
=============================================================================
