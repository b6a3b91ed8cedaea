----------------------------- MODULE MCLowering -----------------------------
(***************************************************************************)
(* Statements y[r[i]] += E, as Parser builds them, for expressions E with  *)
(* loads, gathers over one and two index arrays, two gathers over one      *)
(* index array, and gathers left and right of an operator.                 *)
(***************************************************************************)
EXTENDS Typing

Graph0(kind, kids_, node, addr, index) ==
  [kind |-> kind, kids |-> kids_, node_name |-> node, addr_name |-> addr,
   index_name |-> index]
Var(a) == Graph0("var", <<>>, a, "", "")

\* x[i] and x[c[i]] after a heap h; the variable i is a node without a use.
LoadOf(h, a) ==
  h \o <<Var(a), Var("i"), Graph0("load", <<Len(h) + 1>>, "i", a, "i")>>
GatherOf(h, x, c) ==
  LET index == LoadOf(Append(h, Var(x)), c)
  IN  Append(index, Graph0("gather", <<Len(h) + 1, Len(index)>>, c, x, c))
Operation(h, op, left, right) == Append(h, Graph0(op, <<left, right>>, "", "", ""))

\* y[r[i]] += the last node of a heap that begins with y and r[i].
Output == LoadOf(<<Var("y")>>, "r")
Complete(h) ==
  h \o <<Graph0("gather", <<1, 4>>, "r", "y", "r"),
         Graph0("Add", <<Len(h) + 1, Len(h)>>, "y", "", "r"),
         Graph0("scatter", <<1, 4, Len(h) + 2>>, "", "y", "r")>>

AfterA == LoadOf(Output, "a")
AfterXC == GatherOf(Output, "x", "c")

MCStatements ==
  LET a  == Len(AfterA)
      xc == Len(AfterXC)
      ax == GatherOf(AfterA, "x", "c")
      xz == GatherOf(AfterXC, "z", "c")
      xd == GatherOf(AfterXC, "z", "d")
      abx == GatherOf(LoadOf(AfterA, "b"), "x", "c")
      xxa == LoadOf(xd, "a")
      Op(h, op, left) == Operation(h, op, left, Len(h))
  IN  {Complete(h) : h \in
        {AfterA, AfterXC, Op(ax, "Mult", a), Op(xz, "Div", xc),
         Op(xd, "Mult", xc), Op(Op(abx, "Mult", a + 3), "Add", a),
         Op(Op(xxa, "Add", Len(xd)), "Mult", xc)}}

Orders == {"block", "gather", "IncContinue", "OrderEquel"}
Column == [{"c", "d"} -> Orders]
Group(row, rounds, column, chunks) ==
  [kind |-> "group", row |-> row, rounds |-> rounds, column |-> column,
   sizes |-> [n \in 1 .. chunks |-> 1]]
RangeLoop(column, sizes) ==
  [kind |-> "range", row |-> "OrderEquel", rounds |-> 0, column |-> column,
   sizes |-> sizes]

\* A loop of each kind, and kinds of loops one after another.  One of them
\* is for a group all of whose chunks went into a range.
MCPlans ==
  LET row(column) == {Group("gather", 0, column, 2), Group("gather", 2, column, 2),
                      Group("IncContinue", 0, column, 2),
                      Group("OrderEquel", 0, column, 2),
                      RangeLoop(column, <<2, 3>>)}
      some == [c |-> "block", d |-> "gather"]
      other == [c |-> "gather", d |-> "IncContinue"]
      group(column) == Group("gather", 1, column, 1)
  IN  {<<loop>> : loop \in UNION {row(column) : column \in Column}}
      \cup {<<group(some), Group("IncContinue", 0, other, 2)>>,
            <<Group("OrderEquel", 0, other, 0), RangeLoop(some, <<2>>)>>,
            <<Group("OrderEquel", 0, some, 1), Group("IncContinue", 0, other, 1),
              RangeLoop(some, <<2>>)>>,
            <<group(other), RangeLoop(some, <<1, 2>>)>>,
            <<RangeLoop(some, <<2>>), RangeLoop(other, <<1, 3>>)>>}
=============================================================================
