------------------------------ MODULE MCParser ------------------------------
(***************************************************************************)
(* Texts for Parser: headers with everything that can follow them, and     *)
(* statements with everything that can stand to the right of "+=".         *)
(***************************************************************************)
EXTENDS Parser

Declarations ==
  <<"Input", "Colon", "Int", "Mult", "r", "Comma", "Int", "Mult", "c", "Comma",
    "Double", "Mult", "x", "Output", "Colon", "Double", "Mult", "y",
    "Lambda", "i", "Colon">>

StatementOf(index) ==
  Declarations \o <<"y", "LeftBracket">> \o index
    \o <<"RightBracket", "AddEquel">>

Load(a) == <<a, "LeftBracket", "i", "RightBracket">>
Gather(a, c) == <<a, "LeftBracket">> \o Load(c) \o <<"RightBracket">>

\* y[r[i]], y[i], and y[c[i]] whose index is gathered with as well.
\* The text goes on behind "+=", or behind a first operand.
StatementStarts ==
  {StatementOf(index) \o first :
     index \in {Load("r"), Load("c"), <<"i">>},
     first \in {<<>>, Gather("x", "c") \o <<"Mult">>, Load("c") \o <<"Div">>}}

Names == {"r", "c", "x", "y", "i"}
Starts == StatementStarts \cup {<<>>, Declarations}
LooseTokens == Token \ {"r", "Int", "Float", "Add", "Div"}
=============================================================================
