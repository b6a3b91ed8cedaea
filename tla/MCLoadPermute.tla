---------------------------- MODULE MCLoadPermute ----------------------------
(***************************************************************************)
(* The eight programs of the two Makefiles, with the files they read as     *)
(* they are in avx2-input and avx512-input.                                 *)
(***************************************************************************)
EXTENDS LoadPermute

\* The masks of select.dat for n loads, of registers with the given lanes.
Masks(n, lanes) ==
  LET singles == [p \in 1 .. n \div 2 |-> {2 * p - 1}]
      joined ==
        (2 :> << >>) @@ (3 :> << {2} >>) @@ (4 :> << {2, 3} >>) @@
        (5 :> << {2, 3}, {4} >>) @@
        (6 :> << {2, 3}, (0 .. lanes - 1) \ {4, 5} >>) @@
        (7 :> << {2, 3}, {6}, {4, 5, 6} >>) @@
        (8 :> << {2, 3}, {6, 7}, 4 .. 7 >>) @@
        (9 :> << {2, 3}, {6, 7}, 4 .. 7, {8} >>) @@
        (10 :> << {2, 3}, {6, 7}, 4 .. 7, {8, 9} >>) @@
        (11 :> << {2, 3}, {6, 7}, {10}, 4 .. 7, 8 .. 10 >>) @@
        (12 :> << {2, 3}, {6, 7}, {10, 11}, 4 .. 7, 8 .. 11 >>) @@
        (13 :> << {2, 3}, {6, 7}, {10, 11}, 4 .. 7, 8 .. 11, {12} >>) @@
        (14 :> << {2, 3}, {6, 7}, {10, 11}, 4 .. 7, 8 .. 11, {12, 13} >>) @@
        (15 :> << {2, 3}, {6, 7}, {10, 11}, {14}, 4 .. 7, 12 .. 14,
                  8 .. 14 >>) @@
        (16 :> << {2, 3}, {6, 7}, {10, 11}, {14, 15}, 4 .. 7, 12 .. 15,
                  8 .. 15 >>)
  IN singles \o joined[n]

\* select.dat: a row for 2 up to all lanes; the last -1 is missing for 8.
SelectFile(lanes) ==
  LET row(n) == Masks(n, lanes)
                  \o IF n = 8 /\ lanes = 8 THEN << >> ELSE <<End>>
  IN FlattenSeq([r \in 1 .. lanes - 1 |-> row(r + 1)])

\* The rows of perm.dat, as functions of the words.
Numbers(row) == [w \in 0 .. Len(row) - 1 |-> row[w + 1]]
Shifted(p, words) == [w \in 0 .. words - 1 |-> IF w < p THEN 0 ELSE w - p]
Zeros(words) == [w \in 0 .. words - 1 |-> 0]

PermAvx2Single == [r \in 1 .. 8 |-> Shifted(r - 1, 8)]
PermAvx2Double ==
  << Shifted(0, 8), Numbers(<<0, 1, 0, 1, 2, 3, 4, 5>>),
     Numbers(<<0, 1, 0, 1, 0, 1, 2, 3>>), Numbers(<<0, 1, 0, 1, 0, 1, 0, 1>>) >>
PermAvx512Double ==
  << Shifted(0, 8), Shifted(1, 8), Numbers(<<0, 0, 0, 1, 0, 1, 2, 3>>),
     Numbers(<<0, 0, 0, 0, 0, 1, 0, 1>>) >> \o [r \in 1 .. 4 |-> Zeros(8)]

\* Behind row 0 only 8 numbers are shifted; there are 15 rows for 16 lanes.
PermAvx512Single ==
  <<Shifted(0, 16)>> \o
    [r \in 1 .. 14 |-> [w \in 0 .. 15 |-> IF w \in r .. 7 THEN w - r ELSE 0]]

BuildOf(avx512, lanes, rows) ==
  [program |-> "gather", avx512 |-> avx512, lanes |-> lanes, perm |-> rows,
   select |-> SelectFile(lanes)]

Gathers ==
  {BuildOf(FALSE, 4, PermAvx2Double), BuildOf(FALSE, 8, PermAvx2Single),
   BuildOf(TRUE, 8, PermAvx512Double), BuildOf(TRUE, 16, PermAvx512Single)}

\* perm-store.dat has one row of 8 numbers; perm is not used in scatter.
Scatters ==
  {[b EXCEPT !.program = "scatter", !.perm = <<Zeros(16)>>] : b \in Gathers}

AllBuilds == Gathers \cup Scatters

\* What the stack may leave in a row of perm.
GarbageRows == {[w \in 0 .. 15 |-> w], Zeros(16)}
=============================================================================
