----------------------------- MODULE MatrixInput -----------------------------
(***************************************************************************)
(* matrix_read_csr from the first byte of the file: the banner, the line   *)
(* with the sizes and the entries (mmio.c and io_matrix/csr_matrix.cpp),   *)
(* in front of the loops of CsrBuild.                                      *)
(*                                                                         *)
(* CsrBuild is given the lines of the file.  Here the file is what fscanf  *)
(* sees of it: a sequence of numbers without lines, in which an entry is   *)
(* found only if every entry before it was read with the format the banner *)
(* calls for.  ReadsTheLines says that the reader implements CsrBuild, so  *)
(* that what is proved of CsrBuild for every size holds of it.             *)
(*                                                                         *)
(* A word of the banner is a string in lower case, as the reader makes it. *)
(* A file keeps the promises of its banner: the numbers are there, and     *)
(* they are what their format reads.                                       *)
(***************************************************************************)
EXTENDS CsrBuild

CONSTANTS
  Banners, \* the banner lines: sequences of words
  Headers  \* the lines up to the sizes: sequences of kinds of line

VARIABLES
  banner, header,
  phase,   \* how far the reader is
  matcode, \* MM_typecode: object, format, field, symmetry
  line,    \* the next line of the header
  at       \* the number of the entries fscanf reads next

text == <<banner, header>>
readerVars == <<text, phase, matcode, line, at>>
inputVars == <<vars, readerVars>>

\* mm_clear_typecode
NoCode == [object |-> " ", format |-> " ", field |-> " ", symmetry |-> "general"]

\* The words of a banner that has all five.
Format == banner[3]
Field == banner[4]
Storage == banner[5]

Mirrors == Len(banner) = 5 /\ Storage \in {"symmetric", "hermitian"}

\* The numbers behind the sizes: a value is left out of a pattern.
PerEntry == IF Field = "pattern" THEN 2 ELSE 3
Numbers ==
  [x \in 0 .. PerEntry * NumEntries - 1 |->
     LET e == file[x \div PerEntry]
     IN CASE x % PerEntry = 0 -> e.row
          [] x % PerEntry = 1 -> e.column
          [] OTHER -> 0]

InputInit ==
  /\ Init
  /\ isSymmetric = FALSE
  /\ banner \in Banners
  /\ header \in Headers
  /\ Mirrors => Rows = Cols
  /\ phase = "banner"
  /\ matcode = NoCode
  /\ line = 1
  /\ at = 0

-----------------------------------------------------------------------------
(* mm_read_banner *)

Known(word) ==
  CASE word = 1 -> {"%%MatrixMarket"}
    [] word = 2 -> {"matrix"}
    [] word = 3 -> {"coordinate", "array"}
    [] word = 4 -> {"real", "complex", "pattern", "integer"}
    [] word = 5 -> {"general", "symmetric", "hermitian", "skew-symmetric"}

\* main prints that the matrix is not supported, and returns.
Reject == phase' = "rejected"

mm_read_banner ==
  /\ phase = "banner"
  /\ IF Len(banner) = 5 /\ \A w \in 1 .. 5 : banner[w] \in Known(w)
     THEN /\ matcode' = [object |-> banner[2], format |-> Format,
                         field |-> Field, symmetry |-> Storage]
          /\ IF Field = "complex" THEN Reject ELSE phase' = "size"
     ELSE Reject /\ UNCHANGED matcode
  /\ UNCHANGED <<vars, text, line, at>>

-----------------------------------------------------------------------------
(* mm_read_mtx_crd_size.  A kind of line is "comment", "blank" or "sizes". *)

\* do fgets while (line[0] == '%')
SkipComment ==
  /\ phase = "size"
  /\ line <= Len(header)
  /\ header[line] = "comment"
  /\ line' = line + 1
  /\ UNCHANGED <<vars, text, phase, matcode, at>>

\* sscanf does not find three numbers: from here on numbers are read across
\* lines.
BlankLine ==
  /\ phase = "size"
  /\ line <= Len(header)
  /\ header[line] = "blank"
  /\ phase' = "numbers"
  /\ line' = line + 1
  /\ UNCHANGED <<vars, text, matcode, at>>

\* fscanf skips blank lines, but stops at a comment; the reader takes that for
\* the end of the file.
SkipBlank ==
  /\ phase = "numbers"
  /\ line <= Len(header)
  /\ header[line] # "sizes"
  /\ line' = line + 1
  /\ IF header[line] = "comment" THEN Reject ELSE UNCHANGED phase
  /\ UNCHANGED <<vars, text, matcode, at>>

NoSizes ==
  /\ phase \in {"size", "numbers"}
  /\ line > Len(header)
  /\ Reject
  /\ UNCHANGED <<vars, text, matcode, line, at>>

\* A slip: a hermitian matrix is not taken for symmetric.
SymmetricOnly(code) == code.symmetry = "symmetric"

\* if (mm_is_symmetric(matcode) || mm_is_hermitian(matcode)) isSymmetric = 1
IsSymmetric(code) == code.symmetry \in {"symmetric", "hermitian"}

\* The sizes of an array are two numbers: the first entry is read as the
\* sizes, and what follows is not followed here.
Sizes ==
  /\ phase \in {"size", "numbers"}
  /\ line <= Len(header)
  /\ header[line] = "sizes"
  /\ phase' = IF matcode.format = "array" THEN "astray" ELSE "data"
  /\ isSymmetric' = IsSymmetric(matcode)
  /\ line' = line + 1
  /\ UNCHANGED <<file, pc, i, tmp, counter, old_val, row_ptr, col, row_ptr_all>>
  /\ UNCHANGED <<text, matcode, at>>

-----------------------------------------------------------------------------
\* A slip: the value behind the row and the column is never read.
ReadsNoValue(code) == 2

\* The numbers that one of the three calls of fscanf reads.
Reads(code) == IF code.field = "pattern" THEN 2 ELSE 3

\* fscanf and the rest of the first loop
ReadNumbers ==
  /\ phase = "data"
  /\ pc = "read"
  /\ i < NumEntries
  /\ at + 1 \in DOMAIN Numbers
  /\ LET idxi == Numbers[at] - 1
         idxj == Numbers[at + 1] - 1
     IN /\ counter' = [counter EXCEPT ![idxi] = @ + 1]
        /\ row_tmp' = [row_tmp EXCEPT ![i] = idxi]
        /\ col_tmp' = [col_tmp EXCEPT ![i] = idxj]
  /\ i' = i + 1
  /\ at' = at + Reads(matcode)
  /\ UNCHANGED <<file, isSymmetric, pc, old_val, row_ptr, col, row_ptr_all>>
  /\ UNCHANGED <<text, phase, matcode, line>>

\* The loops of CsrBuild.
Build ==
  /\ phase = "data"
  /\ \/ EndRead \/ CountMirror \/ StartScan \/ Scan \/ Allocate
     \/ PlaceEntry \/ PlaceMirrored \/ StartExpand \/ ExpandRow \/ EndExpand
  /\ UNCHANGED readerVars

InputNext ==
  \/ mm_read_banner
  \/ SkipComment \/ BlankLine \/ SkipBlank \/ NoSizes \/ Sizes
  \/ ReadNumbers \/ Build

InputSpec == InputInit /\ [][InputNext]_inputVars

-----------------------------------------------------------------------------
\* The loops run on the lines of the file, with the symmetry the banner gives:
\* a file is read to its end with the format of its banner, however far the
\* header is from the form the reader takes for granted.
Lines == INSTANCE CsrBuild WITH isSymmetric <- Mirrors
ReadsTheLines == Lines!Spec

-----------------------------------------------------------------------------
(***************************************************************************)
(* The inductive invariant                                                 *)
(***************************************************************************)
\* While the header is read no entry is; the code holds the last words of the
\* banner from the banner on, and the numbers read are those of i entries.
HeaderRead ==
  phase \in {"size", "numbers", "data"} =>
    /\ Len(banner) = 5
    /\ matcode.field = Field
    /\ matcode.symmetry = Storage

AtEntry ==
  /\ phase \in {"banner", "size", "numbers"} => pc = "read" /\ i = 0 /\ at = 0
  /\ phase = "data" => isSymmetric = Mirrors
  /\ phase = "data" /\ pc = "read" => i \in Nat /\ at = PerEntry * i

InputInv == HeaderRead /\ AtEntry
=============================================================================
