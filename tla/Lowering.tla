------------------------------ MODULE Lowering ------------------------------
(***************************************************************************)
(* From the graph of a statement to code: node_tree2state,                 *)
(* formulation_state, optimization_state with redirect_var_state, and the  *)
(* visit of LLVMCodeGen.  CodeSeed makes the list of statements; here they *)
(* are rewritten, once for every loop, until the values they compute come  *)
(* from the streams of transform_data.  At last the code is run.           *)
(*                                                                         *)
(* A variable (Varience) is a number: that of its node in CodeSeed, and    *)
(* "fresh" for every one made afterwards.  The order of an index array in  *)
(* the chunks of a loop is "block" or "gather" (two kinds of DisOrder),    *)
(* IncContinue or OrderEquel; an output index has "gather" as its DisOrder.*)
(***************************************************************************)
EXTENDS CodeSeed

CONSTANTS
  Vector,      \* lanes
  Statements,  \* node graphs as Parser makes them
  Plans        \* what generate_information finds: a loop for each group of
               \* chunks, and then one for each group of ranges

ASSUME LoweringAssumption == Vector \in {4, 8, 16}

VARIABLES
  heap,         \* the nodes: kind, kids and the three names
  plan,         \* the loops to make
  stage,        \* what runs
  fresh,        \* the next variable
  mutable,      \* the variables that are not is_const_
  stream,       \* *_name_new_var_map_: the variables that walk the streams
  change,       \* change_var_var_ of the pass that runs
  formed,       \* statements of formulation_state
  at,           \* the loop under construction
  work,         \* statements to be optimized, and where the result belongs
  parts,        \* results: before, inside and after the inner loop
  inner_num,    \* inner_for_num; 0 in a loop over chunks
  has_load,     \* gather_scatter_has_load_info_*
  body,         \* the loop, before redirect_var_state
  program,      \* the function
  pos,          \* a place in code, body or program
  var_val_map,  \* the variables the code generator knows
  env,          \* their values, when the function runs
  loops,        \* loops being run: where they begin, iterations left
  stores        \* what was stored into the output

tree == <<heap, plan>>
names == <<fresh, mutable, stream>>
form == <<change, formed>>
optimizer == <<at, work, parts, inner_num, has_load, body>>
function == <<program, pos, var_val_map>>
machine == <<env, loops, stores>>
lower == <<tree, stage, names, form, optimizer, function, machine>>

-----------------------------------------------------------------------------
(***************************************************************************)
(* What the stages before know of the statement.                           *)
(***************************************************************************)
output_name == heap[root].addr_name
scatter_index == heap[root].index_name

OfKind(kind) == {n \in Node : heap[n].kind = kind}
gather_set == {heap[n].index_name : n \in OfKind("gather")} \ {scatter_index}
load_set ==
  {heap[n].addr_name : n \in OfKind("load")} \ (gather_set \cup {scatter_index})

Streams ==
  {<<"gather", c>> : c \in gather_set \cup {scatter_index}} \cup
  {<<"reduction", scatter_index>>} \cup {<<"data", a>> : a \in load_set}

Loop == plan[at]
OrderOf(loop, index) ==
  IF index = scatter_index THEN loop.row ELSE loop.column[index]

\* Words that hold a permutation of lanes, of a sum and of a gather (which
\* is part of the code with four lanes), and words before it that hold the
\* indices.
RoundWords == Vector \div 4
PermWords == IF Vector > 4 THEN RoundWords ELSE 0
IndexWords(order) == IF order = "gather" THEN Vector ELSE 1

\* An instruction assigns to res, if that is not 0.  "name" is the array
\* of a gather, the order of a store.
I(op, res, args, name, n) ==
  [op |-> op, res |-> res, args |-> args, name |-> name, n |-> n]

Step(s, n) == I("step", s, <<s>>, "", n)
Pointer(s) == I("pointer", s, <<>>, "", 0)

-----------------------------------------------------------------------------
LoweringInit ==
  /\ heap \in Statements
  /\ plan \in Plans
  /\ kids = [n \in DOMAIN heap |-> heap[n].kids]
  /\ root = Len(heap)
  /\ iterate = {}
  /\ Init
  /\ stage = "function"
  /\ fresh = Len(heap) + 1
  /\ mutable = {}
  /\ stream = <<>>
  /\ change = <<>> /\ formed = <<>>
  /\ at = 1 /\ work = <<>> /\ parts = <<>> /\ inner_num = 0
  /\ has_load = <<>> /\ body = <<>>
  /\ program = <<>> /\ pos = 1 /\ var_val_map = {}
  /\ env = <<>> /\ loops = <<>> /\ stores = <<>>

\* generate_func: a pointer for every stream.  The pointer of the scatter
\* indices is that of the gather of the output.
GenerateFunc ==
  /\ stage = "function"
  /\ LET list == SetToSeq(Streams)
         new == fresh .. fresh + Len(list) - 1
     IN  /\ stream' = [s \in Streams |->
                         fresh - 1 + (CHOOSE p \in DOMAIN list : list[p] = s)]
         /\ program' = [p \in DOMAIN list |-> Pointer(fresh - 1 + p)]
         /\ fresh' = fresh + Len(list)
         /\ mutable' = mutable \cup new
  /\ stage' = "seed"
  /\ UNCHANGED <<vars, tree, form, optimizer, pos, var_val_map, machine>>

GenerateCodeSeed ==
  /\ stage = "seed"
  /\ Next
  /\ UNCHANGED lower

CodeSeedDone ==
  /\ stage = "seed"
  /\ code # <<>>
  /\ stage' = "formulate"
  /\ UNCHANGED <<vars, tree, names, form, optimizer, function, machine>>

-----------------------------------------------------------------------------
(***************************************************************************)
(* FormulationPass                                                         *)
(***************************************************************************)
Changed(v) == IF v \in DOMAIN change THEN change[v] ELSE v

\* The operands but for the array, which is an argument of the function.
Operands(n) ==
  IF heap[n].kind \in {"load", "gather", "scatter"} THEN Tail(kids[n])
  ELSE kids[n]

\* The names of a statement, as its constructor takes them from operands.
Names(n) ==
  CASE heap[n].kind \in {"gather", "scatter"} ->
         [node |-> heap[n].addr_name, index |-> heap[kids[n][2]].addr_name]
    [] heap[n].kind = "load" ->
         [node |-> heap[n].addr_name, index |-> ""]
    [] OTHER ->
         [node |-> heap[n].node_name, index |-> heap[n].index_name]

\* Arrays are taken from the two variables of their name from now on.
DropArgument ==
  /\ stage = "formulate"
  /\ pos <= Len(code)
  /\ heap[code[pos]].kind = "var"
  /\ pos' = pos + 1
  /\ UNCHANGED <<vars, tree, stage, names, form, optimizer, program,
                 var_val_map, machine>>

\* A statement gets operands and a result of its own.
FormulateStatement ==
  /\ stage = "formulate"
  /\ pos <= Len(code)
  /\ LET n == code[pos]
         operands == Operands(n)
         res == IF n = root THEN 0 ELSE fresh
     IN  /\ heap[n].kind # "var"
         /\ formed' = Append(formed,
              [op |-> heap[n].kind, res |-> res,
               args |-> [p \in DOMAIN operands |-> Changed(operands[p])],
               array |-> heap[n].addr_name,
               index |-> Names(n).index, node |-> Names(n).node])
         /\ change' = change @@ (n :> res)
  /\ fresh' = fresh + 1
  /\ pos' = pos + 1
  /\ UNCHANGED <<vars, tree, stage, mutable, stream, optimizer, program,
                 var_val_map, machine>>

Formulated ==
  /\ stage = "formulate"
  /\ pos > Len(code)
  /\ stage' = "loop"
  /\ UNCHANGED <<vars, tree, names, form, optimizer, function, machine>>

-----------------------------------------------------------------------------
(***************************************************************************)
(* optimization_state                                                      *)
(***************************************************************************)
Put(place, statements) ==
  [p \in DOMAIN statements |-> [place |-> place, statement |-> statements[p]]]

BeginGroup ==
  /\ stage = "loop"
  /\ at <= Len(plan) /\ Loop.kind = "group"
  /\ work' = Put("inner", formed)
  /\ parts' = [before |-> <<>>, inner |-> <<>>, after |-> <<>>]
  /\ inner_num' = 0
  /\ has_load' = <<>>
  /\ stage' = "optimize"
  /\ UNCHANGED <<vars, tree, names, form, at, body, function, machine>>

\* The lengths of all ranges are one more stream.
TableOfRanges ==
  /\ stage = "loop"
  /\ at <= Len(plan) /\ Loop.kind = "range"
  /\ <<"range", "">> \notin DOMAIN stream
  /\ stream' = stream @@ (<<"range", "">> :> fresh)
  /\ program' = Append(program, Pointer(fresh))
  /\ mutable' = mutable \cup {fresh}
  /\ fresh' = fresh + 1
  /\ UNCHANGED <<vars, tree, stage, form, optimizer, pos, var_val_map, machine>>

\* A slip: only the sum and the scatter move, not the gather.
SplitLate(reduce_var) ==
  LET sum == SelectSeq(formed, LAMBDA s : s.node = output_name /\ s.op = "Add")[1]
      store == SelectSeq(formed, LAMBDA s : s.op = "scatter")
  IN  Put("inner",
          Append(SelectSeq(formed, LAMBDA s : s.op # "scatter" /\ s # sum),
                 [sum EXCEPT !.op = "accumulate", !.res = reduce_var, !.index = "",
                             !.args = <<reduce_var, sum.args[2]>>]))
      \o Put("before",
             <<[sum EXCEPT !.op = "zero", !.res = reduce_var, !.args = <<>>]>>)
      \o Put("after", <<[sum EXCEPT !.args = <<sum.args[1], reduce_var>>]>> \o store)

\* What reads or writes the output moves out of the inner loop; its sum is
\* taken in reduce_var meanwhile.
Split(reduce_var) ==
  LET Outer(op) ==
        SelectSeq(formed, LAMBDA s : s.node = output_name /\ s.op = op)
      sum == Outer("Add")[1]
  IN  Put("inner",
          Append(SelectSeq(formed, LAMBDA s : s.node # output_name),
                 [sum EXCEPT !.op = "accumulate", !.res = reduce_var, !.index = "",
                             !.args = <<reduce_var, sum.args[2]>>]))
      \o Put("before",
             Append(Outer("gather"),
                    [sum EXCEPT !.op = "zero", !.res = reduce_var, !.args = <<>>]))
      \o Put("after",
             <<[sum EXCEPT !.args = <<sum.args[1], reduce_var>>]>> \o Outer("scatter"))

BeginRange ==
  /\ stage = "loop"
  /\ at <= Len(plan) /\ Loop.kind = "range"
  /\ <<"range", "">> \in DOMAIN stream
  /\ work' = Split(fresh)
  /\ parts' = [before |-> <<>>, inner |-> <<>>, after |-> <<>>]
  /\ inner_num' = fresh + 1
  /\ fresh' = fresh + 2
  /\ mutable' = mutable \cup {fresh}
  /\ has_load' = <<>>
  /\ stage' = "optimize"
  /\ UNCHANGED <<vars, tree, stream, form, at, body, function, machine>>

-----------------------------------------------------------------------------
(***************************************************************************)
(* OptimizationPass                                                        *)
(***************************************************************************)
Todo(ops) == stage = "optimize" /\ work # <<>> /\ Head(work).statement.op \in ops
Now == Head(work).statement

\* The instructions of the statement, and how many variables they needed.
Emitted(code_of, used) ==
  /\ parts' = [parts EXCEPT ![Head(work).place] = @ \o code_of]
  /\ work' = Tail(work)
  /\ fresh' = fresh + used
  /\ UNCHANGED <<vars, tree, stage, stream, form, at, inner_num, body, function,
                 machine>>

\* Indices are loaded nowhere but where they are used.
PassLoad ==
  /\ Todo({"load"})
  /\ Emitted(IF Now.array \in load_set
               THEN LET s == stream[<<"data", Now.array>>]
                    IN  <<I("elements", Now.res, <<s>>, "", 0),
                          Step(s, Vector)>>
               ELSE <<>>, 0)
  /\ UNCHANGED <<has_load, mutable>>

\* The variables that hold the index words and the permutation of a chunk,
\* and the code that loads them, unless that was done in this loop before.
Loaded(index) == index \in DOMAIN has_load
HasPerm(order) == order = "block" /\ PermWords > 0
InfoVars(index, order) ==
  IF Loaded(index) THEN has_load[index]
  ELSE IF HasPerm(order) THEN <<fresh, fresh + 1>> ELSE <<fresh>>
LoadInfo(index, order) ==
  LET s == stream[<<"gather", index>>]
  IN  IF Loaded(index) THEN <<>>
      ELSE <<I("words", fresh, <<s>>, "", IndexWords(order)),
             Step(s, IndexWords(order))>>
           \o (IF HasPerm(order)
                 THEN <<I("words", fresh + 1, <<s>>, "", PermWords),
                        Step(s, PermWords)>>
                 ELSE <<>>)
\* A slip: the second gather with an index loads it again.
Forget(index, order) == has_load' = has_load

Remember(index, order) ==
  has_load' = IF Loaded(index) THEN has_load
              ELSE has_load @@ (index :> InfoVars(index, order))

\* What is gathered for the output stays as it lies in memory.
Gathering(index, order) ==
  CASE order = "block"  -> "shuffled"
    [] order = "gather" -> "gathered"
    [] order = "IncContinue" ->
         IF index = scatter_index THEN "packed" ELSE "expanded"
    [] order = "OrderEquel" ->
         IF index = scatter_index THEN "single" ELSE "broadcast"

PassGather ==
  /\ Todo({"gather"})
  /\ LET order == OrderOf(Loop, Now.index)
     IN  /\ Emitted(LoadInfo(Now.index, order)
                      \o <<I(Gathering(Now.index, order), Now.res,
                             InfoVars(Now.index, order), Now.array, 0)>>, 2)
         /\ Remember(Now.index, order)
  /\ UNCHANGED mutable

\* The sum of the lanes that write to one place, by the order of the output
\* index, and then the sum with what is there.
Rounds ==
  LET s == stream[<<"reduction", Now.index>>]
      One(r) == <<I("words", fresh + r, <<s>>, "", RoundWords),
                  Step(s, RoundWords),
                  I("round", fresh, <<fresh, fresh + r>>, "", 0)>>
  IN  FlattenSeq([r \in 1 .. Loop.rounds |-> One(r)])

PassSum ==
  /\ Todo({"Add"}) /\ Now.index = scatter_index
  /\ LET v1 == Now.args[1]
         v2 == Now.args[2]
         copy == <<I("copy", fresh, <<v2>>, "", 0)>>
         total == <<I("Add", Now.res, <<v1, fresh>>, "", 0)>>
     IN  Emitted(CASE Loop.row = "IncContinue" ->
                        copy \o <<I("tree", fresh, <<fresh>>, "", 0)>> \o total
                   [] Loop.row = "OrderEquel" ->
                        <<I("AddReduce", Now.res, <<v1, v2>>, "", 0)>>
                   [] Loop.row = "gather" -> copy \o Rounds \o total,
                 1 + Loop.rounds)
  /\ mutable' = mutable \cup {fresh}
  /\ UNCHANGED has_load

PassScatter ==
  /\ Todo({"scatter"})
  /\ Emitted(LoadInfo(Now.index, Loop.row)
               \o <<I("store", 0, Append(InfoVars(Now.index, Loop.row), Now.args[2]),
                      Loop.row, 0)>>, 1)
  /\ Remember(Now.index, Loop.row)
  /\ UNCHANGED mutable

PassOther ==
  /\ Todo({"Add", "Mult", "Div", "zero", "accumulate"})
  /\ Now.op = "Add" => Now.index # scatter_index
  /\ Emitted(<<I(Now.op, Now.res, Now.args, "", 0)>>, 0)
  /\ UNCHANGED <<has_load, mutable>>

For(args, n) == <<I("for", 0, args, "", n)>>
EndFor == <<I("end", 0, <<>>, "", 0)>>

\* The For statement, or both of them for a group of ranges.
MakeLoop ==
  /\ stage = "optimize"
  /\ work = <<>>
  /\ body' =
       For(<<>>, Len(Loop.sizes))
       \o (IF Loop.kind = "group" THEN parts.inner
           ELSE LET s == stream[<<"range", "">>]
                IN  <<I("words", inner_num, <<s>>, "", 1), Step(s, 1)>>
                    \o parts.before
                    \o For(<<inner_num>>, 0) \o parts.inner \o EndFor
                    \o parts.after)
       \o EndFor
  /\ stage' = "redirect"
  /\ change' = <<>>
  /\ pos' = 1
  /\ UNCHANGED <<vars, tree, names, formed, at, work, parts, inner_num, has_load,
                 program, var_val_map, machine>>

\* A slip: results keep their variables.
RedirectOperands ==
  /\ stage = "redirect"
  /\ pos <= Len(body)
  /\ program' = Append(program, [body[pos] EXCEPT
                    !.args = [p \in DOMAIN @ |-> Changed(@[p])]])
  /\ fresh' = fresh + 1
  /\ pos' = pos + 1
  /\ UNCHANGED <<vars, tree, stage, mutable, stream, form, optimizer,
                 var_val_map, machine>>

\* RedirectVarPass: all loops come from one list of statements, so that a
\* loop needs variables of its own.
RedirectStatement ==
  /\ stage = "redirect"
  /\ pos <= Len(body)
  /\ LET i == body[pos]
         renamed == i.res # 0 /\ i.res \notin mutable
     IN  /\ program' = Append(program,
              [i EXCEPT !.res = IF renamed THEN fresh ELSE @,
                        !.args = [p \in DOMAIN @ |-> Changed(@[p])]])
         /\ change' = IF renamed THEN (i.res :> fresh) @@ change ELSE change
  /\ fresh' = fresh + 1
  /\ pos' = pos + 1
  /\ UNCHANGED <<vars, tree, stage, mutable, stream, formed, optimizer,
                 var_val_map, machine>>

NextLoop ==
  /\ stage = "redirect"
  /\ pos > Len(body)
  /\ at' = at + 1
  /\ stage' = "loop"
  /\ UNCHANGED <<vars, tree, names, form, work, parts, inner_num, has_load, body,
                 function, machine>>

LoopsMade ==
  /\ stage = "loop"
  /\ at > Len(plan)
  /\ stage' = "generate"
  /\ pos' = 1
  /\ UNCHANGED <<vars, tree, names, form, optimizer, program, var_val_map, machine>>

-----------------------------------------------------------------------------
(***************************************************************************)
(* LLVMCodeGen: every operand must be known.  A variable that is not       *)
(* mutable is a value of the function and can be defined only once.        *)
(***************************************************************************)
GenerateStatement ==
  /\ stage = "generate"
  /\ pos <= Len(program)
  /\ LET i == program[pos]
         found == Range(i.args) \subseteq var_val_map
         twice == i.res \in var_val_map \ mutable
     IN  /\ stage' = IF found /\ ~twice THEN stage ELSE "fatal"
         /\ var_val_map' = var_val_map \cup ({i.res} \ {0})
  /\ pos' = pos + 1
  /\ UNCHANGED <<vars, tree, names, form, optimizer, program, machine>>

Generated ==
  /\ stage = "generate"
  /\ pos > Len(program)
  /\ stage' = "run"
  /\ pos' = 1
  /\ UNCHANGED <<vars, tree, names, form, optimizer, program, var_val_map, machine>>

-----------------------------------------------------------------------------
(***************************************************************************)
(* The code runs.  A pointer is a place in a stream; the rest are terms    *)
(* over what lies there: <<form, term>>, where the form tells lanes from   *)
(* the packed sums of IncContinue and from a single one.                   *)
(***************************************************************************)
FormOf(op) ==
  IF op \in {"packed", "single"} THEN op ELSE "lanes"

\* Arithmetic on two values of one form.
Both(op, v, w) == <<IF v[1] = w[1] THEN v[1] ELSE "bad", <<op, v[2], w[2]>>>>

Value(i) ==
  LET arg(p) == env[i.args[p]]
      term(p) == arg(p)[2]
  IN  CASE i.op = "pointer"    -> <<"pointer", i.res, 0>>
        [] i.op = "step"       -> [arg(1) EXCEPT ![3] = @ + i.n]
        [] i.op = "words"      -> <<"words", arg(1)[2], arg(1)[3], i.n>>
        [] i.op = "elements"   -> <<"lanes", <<"load", arg(1)[2], arg(1)[3]>>>>
        [] i.op \in {"shuffled", "gathered", "expanded", "broadcast", "packed",
                     "single"} ->
             <<FormOf(i.op), <<i.op, i.name, [p \in DOMAIN i.args |-> arg(p)]>>>>
        [] i.op = "copy"       -> arg(1)
        [] i.op = "tree"       -> <<"packed", <<"tree", term(1)>>>>
        [] i.op = "round"      -> <<"lanes", <<"round", term(1), arg(2)>>>>
        [] i.op = "AddReduce"  -> <<arg(1)[1], <<"Add", term(1), <<"reduce", term(2)>>>>>>
        [] i.op = "zero"       -> <<"lanes", <<"sum">>>>
        [] i.op = "accumulate" -> <<"lanes", Append(term(1), term(2))>>
        [] OTHER               -> Both(i.op, arg(1), arg(2))

\* Loops are properly nested.
Opened(p) ==
  Cardinality({q \in 1 .. p : program[q].op = "for"})
    - Cardinality({q \in 1 .. p : program[q].op = "end"})
EndOf(p) ==
  Min({q \in p .. Len(program) :
         program[q].op = "end" /\ Opened(q) = Opened(p) - 1})

\* The lengths of the ranges, in the order of the loops.
range_num ==
  FlattenSeq([l \in DOMAIN plan |->
                IF plan[l].kind = "range" THEN plan[l].sizes ELSE <<>>])

Running(op) == stage = "run" /\ pos <= Len(program) /\ program[pos].op = op
Here == program[pos]

\* The condition is looked at before the first round.
BeginLoop ==
  /\ Running("for")
  /\ LET n == IF Here.args = <<>> THEN Here.n
              ELSE range_num[env[Here.args[1]][3] + 1]
     IN  IF n > 0
           THEN /\ loops' = Append(loops, [start |-> pos + 1, left |-> n - 1])
                /\ pos' = pos + 1
           ELSE /\ pos' = EndOf(pos) + 1
                /\ UNCHANGED loops
  /\ UNCHANGED <<vars, tree, stage, names, form, optimizer, program, var_val_map,
                 env, stores>>

EndLoop ==
  /\ Running("end")
  /\ LET inmost == Last(loops)
     IN  IF inmost.left > 0
           THEN /\ loops' = Append(Front(loops), [inmost EXCEPT !.left = @ - 1])
                /\ pos' = inmost.start
           ELSE /\ loops' = Front(loops)
                /\ pos' = pos + 1
  /\ UNCHANGED <<vars, tree, stage, names, form, optimizer, program, var_val_map,
                 env, stores>>

StoreOutput ==
  /\ Running("store")
  /\ stores' = Append(stores, <<Here.name, [p \in DOMAIN Here.args |->
                                            env[Here.args[p]]]>>)
  /\ pos' = pos + 1
  /\ UNCHANGED <<vars, tree, stage, names, form, optimizer, program, var_val_map,
                 env, loops>>

Assign ==
  /\ stage = "run" /\ pos <= Len(program)
  /\ Here.op \notin {"for", "end", "store"}
  /\ env' = (Here.res :> Value(Here)) @@ env
  /\ pos' = pos + 1
  /\ UNCHANGED <<vars, tree, stage, names, form, optimizer, program, var_val_map,
                 loops, stores>>

Return ==
  /\ stage = "run" /\ pos > Len(program)
  /\ stage' = "done"
  /\ UNCHANGED <<vars, tree, names, form, optimizer, function, machine>>

-----------------------------------------------------------------------------
LoweringNext ==
  \/ GenerateFunc \/ GenerateCodeSeed \/ CodeSeedDone
  \/ DropArgument \/ FormulateStatement \/ Formulated
  \/ BeginGroup \/ TableOfRanges \/ BeginRange
  \/ PassLoad \/ PassGather \/ PassSum \/ PassScatter \/ PassOther \/ MakeLoop
  \/ RedirectStatement \/ NextLoop \/ LoopsMade
  \/ GenerateStatement \/ Generated
  \/ BeginLoop \/ EndLoop \/ StoreOutput \/ Assign \/ Return

LoweringSpec == LoweringInit /\ [][LoweringNext]_<<vars, lower>>

-----------------------------------------------------------------------------
(***************************************************************************)
(* What transform_data puts into the streams, in the order of the loops.   *)
(* A unit is one iteration of an outer loop: a chunk, or a range of them.  *)
(***************************************************************************)
Units ==
  FlattenSeq([l \in DOMAIN plan |->
    [u \in DOMAIN plan[l].sizes |-> [loop |-> plan[l], chunks |-> plan[l].sizes[u]]]])

\* Words of an index array for one chunk, or for the output of one unit.
GatherWords(order) == IndexWords(order) + IF HasPerm(order) THEN PermWords ELSE 0

\* Sums over the units before u: chunks, words of gathers, of output
\* indices and of rounds.
Layout[u \in 1 .. Len(Units)] ==
  IF u = 1
    THEN [chunk |-> 0, column |-> [c \in gather_set |-> 0], row |-> 0, round |-> 0]
    ELSE LET unit == Units[u - 1]
             before == Layout[u - 1]
         IN  [chunk  |-> before.chunk + unit.chunks,
              column |-> [c \in gather_set |-> before.column[c]
                            + unit.chunks * GatherWords(unit.loop.column[c])],
              row    |-> before.row + IndexWords(unit.loop.row),
              round  |-> before.round + unit.loop.rounds * RoundWords]

-----------------------------------------------------------------------------
(***************************************************************************)
(* Properties                                                              *)
(***************************************************************************)
\* The words of an index array from a place on, as they are loaded.
WordsAt(index, order, place) ==
  LET s == stream[<<"gather", index>>]
      first == <<"words", s, place, IndexWords(order)>>
  IN  IF HasPerm(order)
        THEN <<first, <<"words", s, place + IndexWords(order), PermWords>>>>
        ELSE <<first>>

\* What the expression of node m is for chunk j of unit u.
Expression(m, u, j) ==
  LET unit == Units[u]
      f[n \in 1 .. m] ==
        CASE heap[n].kind = "load" ->
               <<"load", stream[<<"data", heap[n].addr_name>>],
                 (Layout[u].chunk + j - 1) * Vector>>
          [] heap[n].kind = "gather" ->
               LET c == heap[n].index_name
                   order == unit.loop.column[c]
               IN  <<Gathering(c, order), heap[n].addr_name,
                     WordsAt(c, order, Layout[u].column[c]
                               + (j - 1) * GatherWords(order))>>
          [] OTHER ->
               <<heap[n].kind, f[heap[n].kids[1]], f[heap[n].kids[2]]>>
  IN  f[m]

\* The one store of unit u.
Stored(u) ==
  LET unit == Units[u]
      row == unit.loop.row
      words == WordsAt(scatter_index, row, Layout[u].row)
      old == <<Gathering(scatter_index, row), output_name, words>>
      data == heap[heap[root].kids[3]].kids[2]
      new(j) == Expression(data, u, j)
      permuted[r \in 0 .. unit.loop.rounds] ==
        IF r = 0 THEN new(1)
        ELSE <<"round", permuted[r - 1],
               <<"words", stream[<<"reduction", scatter_index>>],
                 Layout[u].round + (r - 1) * RoundWords, RoundWords>>>>
      sum == CASE row = "gather" -> permuted[unit.loop.rounds]
               [] row = "IncContinue" -> <<"tree", new(1)>>
               [] unit.loop.kind = "group" -> <<"reduce", new(1)>>
               [] OTHER -> <<"reduce", <<"sum">> \o [j \in 1 .. unit.chunks |-> new(j)]>>
  IN  <<row, Append(words, <<FormOf(Gathering(scatter_index, row)),
                             <<"Add", old, sum>>>>)>>

\* The function stores, for every chunk or range in the order of the
\* streams, the sum of the output and of the statement's expression, over
\* exactly those words and elements transform_data wrote for it: all passes
\* together neither lose a statement, nor take one variable for another, nor
\* walk a stream too far or too little.
KernelComputesStatement ==
  stage = "done" => stores = [u \in DOMAIN Units |-> Stored(u)]

\* The code generator never meets an operand it does not know, or a second
\* definition of a variable: LOG(FATAL) in CodeGen_(Varience) and
\* CodeGen_(LetStat).
NoFatal == stage # "fatal"

\* A variable is read only where its definition has run: further down, in
\* the same loop or one inside of it.  The code generator does not look at
\* loops; what it makes of anything else is not valid code.
EveryUseDominated ==
  stage = "generate" /\ pos = 1 =>
    LET around(p) == {q \in 1 .. p - 1 : program[q].op = "for" /\ p < EndOf(q)}
    IN  \A p \in DOMAIN program : \A v \in Range(program[p].args) :
          \E d \in 1 .. p - 1 :
            program[d].res = v /\ around(d) \subseteq around(p)
=============================================================================
