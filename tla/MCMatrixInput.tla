---------------------------- MODULE MCMatrixInput ----------------------------
(***************************************************************************)
(* Banners and headers for MatrixInput: all that are accepted, and for each *)
(* way to be refused one that is.                                           *)
(***************************************************************************)
EXTENDS MatrixInput

Banner(format, field, storage) ==
  <<"%%MatrixMarket", "matrix", format, field, storage>>

Accepted ==
  {Banner("coordinate", field, storage) :
     field \in {"real", "integer", "pattern"},
     storage \in {"general", "symmetric", "hermitian", "skew-symmetric"}}

Refused ==
  {Banner("coordinate", "complex", "hermitian"),
   Banner("coordinate", "double", "general"),
   Banner("sparse", "real", "general"),
   Banner("coordinate", "real", "lower"),
   <<"%MatrixMarket", "matrix", "coordinate", "real", "general">>,
   <<"%%MatrixMarket", "vector", "coordinate", "real", "general">>,
   <<"%%MatrixMarket", "matrix", "coordinate", "real">>}

AllBanners == Accepted \cup Refused \cup {Banner("array", "real", "general")}

AllHeaders ==
  {<<"sizes">>, <<"comment", "blank", "sizes">>,
   <<"blank", "blank", "comment", "sizes">>, <<"comment">>}
=============================================================================
