------------------------------ MODULE MCDynVec ------------------------------
(* Index arrays for TLC: every chunk takes one of a few shapes that between *)
(* them have every order type, and repeat rows within and across chunks.    *)
EXTENDS DynVec

Lanes(s) == [l \in Lane |-> s[l + 1]]

\* A hash without collisions, and the one of the code.
IdealHash(words) == words

H == INSTANCE FeatureHash
RealHash(words) == H!get_feature_hash(words)

Keys == {HashOf(Words(GatherInfo(c), ScatterInfo(r), ReductionInfo(r))) :
           r \in RowShapes, c \in ColumnShapes}

NoTail == <<>>
OneTail(n) == [l \in {0} |-> n]
TailRowZero == OneTail(0)
TailColumnTwo == OneTail(2)

Rows4 == {Lanes(<<0, 0, 0, 0>>), Lanes(<<1, 1, 1, 1>>), Lanes(<<0, 0, 0, 1>>)}
Columns4 == {Lanes(<<2, 2, 3, 4>>), Lanes(<<0, 9, 3, 1>>)}

\* Eight lanes: an unordered row chunk of two rounds and one of three.
Rows8 == {Lanes(<<0, 0, 0, 0, 0, 0, 0, 0>>),
          Lanes(<<1, 0, 1, 3, 0, 1, 2, 2>>), Lanes(<<3, 0, 0, 0, 2, 0, 0, 2>>)}
Columns8 == {Lanes(<<2, 0, 1, 1, 7, 5, 6, 0>>), Lanes(<<0, 9, 3, 1, 20, 9, 0, 4>>)}

\* Two IncContinue columns that, with this row, have one hash.
CollidingRows == {Lanes(<<0, 0, 0, 1, 1, 2, 2, 2>>)}
CollidingColumns == {Lanes(<<0, 1, 2, 3, 3, 3, 4, 5>>), Lanes(<<0, 0, 1, 1, 2, 3, 4, 5>>)}
=============================================================================
