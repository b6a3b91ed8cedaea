-------------------------------- MODULE Typing --------------------------------
(***************************************************************************)
(* The types of what Lowering makes: which variable has which type when a  *)
(* statement is built from it, and whether the CHECKs of the constructors  *)
(* and the cases of the code generator are met.                            *)
(*                                                                         *)
(* Types are state.  All loops are made from the one list of statements of *)
(* formulation_state, and OptimizationPass changes the types of that       *)
(* list's variables (set_type) to what a loop makes of them: what is       *)
(* gathered for the output is a vector in one loop and a single number in  *)
(* the next.  A loop finds them as the loop before left them.              *)
(***************************************************************************)
EXTENDS Lowering
INSTANCE Types

VARIABLES
  precision,  \* of the data arrays: "FLOAT" or "DOUBLE"
  type,       \* type_ of a variable; type[0] is for a statement without one
  made        \* type_ of the statement of a variable of formulation_state

typing == <<precision, type, made>>
typed == <<vars, lower, typing>>

\* The arrays of the statement: indices are int, and parse_expression takes
\* as many lanes as fit.  Data arrays of two types are not among the
\* programs of the repository.
Data == Type(precision, 1)
ArrayType(name) ==
  PointerTo(IF name \in gather_set \cup {scatter_index} THEN __int ELSE Data, 1)

\* name_varP_varVP_map_ and name_varP_varPV_map_.
VectorPointer(name) == type_scalar_ptr2vector_ptr(ArrayType(name))
PointerVector(name) ==
  LetStat(type_scalar_ptr2ptr_vector(ArrayType(name)),
          BroadCast(ArrayType(name), Vector))

\* The type of a node, and of the statement made for it from its kids.
NodeType[n \in DOMAIN heap] ==
  CASE heap[n].kind = "var" -> ArrayType(heap[n].node_name)
    [] heap[n].kind \in {"load", "gather", "scatter"} ->
         Load(NodeType[heap[n].kids[1]])
    [] OTHER -> NodeType[heap[n].kids[1]]
SeedStatement(n) ==
  LET operand(p) == NodeType[kids[n][p]]
  IN  CASE heap[n].kind = "load"    -> Load(operand(1))
        [] heap[n].kind = "gather"  -> Gather(operand(1))
        [] heap[n].kind = "scatter" -> NodeType[n]
        [] heap[n].kind = "var"     -> NodeType[n]
        [] OTHER                    -> Binary(operand(1), operand(2))

Zero(base) == Type(base, Vector)          \* dzero_vec_const_, fzero_vec_const_
Lanes == Type("INT", Vector)              \* Const of lanes
Splat == Type("INT8", Vector)             \* vecnum_int8_v_const_
Floating(t) == t.base \in {"DOUBLE", "FLOAT"}

\* Load of a vector at an index of an array.
VectorAt(name) == Load(VectorPointer(name))
InVectors(v) == If(Floating(v), LetStat(v, Shuffle(v, Zero(v.base), Lanes)))

\* The statements an instruction of Lowering stands for.
Shuffled(name, perm) ==
  LET v == LetStat(Gather(PointerVector(name)), VectorAt(name))
  IN  IF Vector > 4 THEN Permute(v, perm)
      ELSE If(v.base = "DOUBLE", Shuffle(v, Zero("DOUBLE"), Lanes))
Expanded(name) ==
  LET v == VectorAt(name)
  IN  If(Floating(v), Shuffle(v, Zero(v.base), Lanes))
Tree(v) ==
  LET sum == LetStat(v, Binary(InVectors(v), v))
  IN  InVectors(sum)
Round(v, perm) ==
  LET moved == LetStat(v, Permute(v, perm))
      mask == LetStat(__bool_v, ICmpEQ(perm, Splat))
      chosen == LetStat(v, Select(Zero("FLOAT"), moved, mask))
  IN  If(perm = __dynvec_int8_v, LetStat(v, Binary(chosen, v)))
Words(i, info) ==
  CASE i.args[1] = stream[<<"reduction", scatter_index>>] ->
         LetStat(__dynvec_int8_v, Load(__dynvec_int8_v_ptr))
    [] i.args[1] # stream[<<"reduction", scatter_index>>] /\ i.n = 1 ->
         LetStat(__int, Load(info))
    [] i.args[1] # stream[<<"reduction", scatter_index>>] /\ i.n = Vector ->
         LetStat(__int_v, Load(type_scalar_ptr2vector_ptr(__int_ptr)))
    [] OTHER -> LetStat(__dynvec_int8_v, Load(__dynvec_int8_v_ptr))

Stores(order, data) ==
  CASE order = "IncContinue" -> Store(VectorPointer(output_name), data)
    [] order = "OrderEquel"  -> Store(IncAddr(ArrayType(output_name)), data)
    [] OTHER                 -> data

\* The statement of instruction i, when variables have the types t.
Statement(i, t) ==
  LET arg(p) == t[i.args[p]]
  IN  CASE i.op = "step"       -> IncAddr(arg(1))
        [] i.op = "words"      -> Words(i, arg(1))
        [] i.op = "elements"   -> Load(type_scalar_ptr2vector_ptr(arg(1)))
        [] i.op = "shuffled"   -> Shuffled(i.name, arg(Len(i.args)))
        [] i.op = "gathered"   -> Gather(PointerVector(i.name))
        [] i.op = "expanded"   -> Expanded(i.name)
        [] i.op = "packed"     -> VectorAt(i.name)
        [] i.op = "broadcast"  -> BroadCast(Load(IncAddr(ArrayType(i.name))), Vector)
        [] i.op = "single"     -> Load(IncAddr(ArrayType(i.name)))
        [] i.op = "tree"       -> Tree(arg(1))
        [] i.op = "round"      -> Round(arg(1), arg(2))
        [] i.op = "AddReduce"  -> Binary(arg(1), Reduce(arg(2)))
        [] i.op = "zero"       -> Zero(t[i.res].base)
        [] i.op = "store"      -> Stores(i.name, t[Last(i.args)])
        [] i.op \in {"for", "end"} -> __int
        [] OTHER               -> arg(1)

-----------------------------------------------------------------------------
\* With double, a round of a chunk that is not in order is a Select between
\* types that differ; the run select_types shows it.
Rounds0 == \A l \in DOMAIN plan : plan[l].rounds = 0

TypedInit ==
  /\ LoweringInit
  /\ precision \in {"FLOAT", "DOUBLE"}
  /\ Vector = 4 => precision = "DOUBLE"
  /\ Vector = 16 => precision = "FLOAT"
  /\ precision = "DOUBLE" => Rounds0
  /\ type = (0 :> __int)
  /\ made = <<>>

TypedFunc ==
  /\ GenerateFunc
  /\ type' = [v \in {stream'[s] : s \in Streams} |->
                LET s == CHOOSE s \in Streams : stream'[s] = v
                IN  IF s[1] = "data" THEN ArrayType(s[2]) ELSE __int_ptr]
             @@ type
  /\ UNCHANGED <<precision, made>>

TypedSeed ==
  /\ GenerateCodeSeed
  /\ type' = IF seed' = seed THEN type
             ELSE (0 :> LetStat(NodeType[Last(seed')], SeedStatement(Last(seed'))))
                  @@ type
  /\ UNCHANGED <<precision, made>>

\* res_var_new has the type of its statement.
TypedFormulation ==
  /\ FormulateStatement
  /\ LET s == Last(formed')
         t == CASE s.op = "load"    -> Load(VectorPointer(s.array))
                [] s.op = "gather"  -> Gather(PointerVector(s.array))
                [] s.op = "scatter" -> __int
                [] OTHER -> Binary(type[s.args[1]], type[s.args[2]])
     IN  /\ type' = (s.res :> t) @@ type
         /\ made' = (s.res :> t) @@ made
  /\ UNCHANGED precision

TypedTable ==
  /\ TableOfRanges
  /\ type' = (fresh :> __int_ptr) @@ type
  /\ UNCHANGED <<precision, made>>

\* reduce_var, and the sum after the inner loop, whose constructor looks at
\* what the loops before made of its operand and its result.
TypedRange ==
  /\ BeginRange
  /\ LET sum == SelectSeq(formed, LAMBDA s : s.node = output_name /\ s.op = "Add")[1]
         reduce == If(made[sum.res] \in {__double_v, __float_v}, made[sum.res])
         zero == LetStat(reduce, Zero(reduce.base))
         outer == LetStat(type[sum.res], Binary(type[sum.args[1]], reduce))
     IN  type' = (fresh :> zero) @@ (0 :> outer) @@ type
  /\ UNCHANGED <<precision, made>>

\* A slip: no set_type before LetStat::make.
KeepType(t, i) ==
  (i.res :> IF i.res \in DOMAIN t \ {0} THEN LetStat(t[i.res], Statement(i, t))
            ELSE Statement(i, t)) @@ t

\* set_type: a result has the type of the statement made in this loop.  A
\* statement that is taken as it is has the type it was made with.
set_type(t, i) == (i.res :> Statement(i, t)) @@ t
TypesAfter(statements) == FoldLeft(set_type, type, statements)

MadeNow ==
  LET place == Head(work).place
  IN  SubSeq(parts'[place], Len(parts[place]) + 1, Len(parts'[place]))
TypedPass ==
  /\ PassLoad \/ PassGather \/ PassSum \/ PassScatter
  /\ type' = TypesAfter(MadeNow)
  /\ UNCHANGED <<precision, made>>

TypedOther ==
  /\ PassOther
  /\ type' = IF Now.op \in {"zero", "accumulate"} THEN type
             ELSE (Now.res :> made[Now.res]) @@ type
  /\ UNCHANGED <<precision, made>>

TypedLoop ==
  /\ MakeLoop
  /\ type' = IF Loop.kind = "group" THEN type
             ELSE (inner_num :> LetStat(__int, Load(type[stream[<<"range", "">>]])))
                  @@ type
  /\ UNCHANGED <<precision, made>>

\* A new variable has the type of the statement made from new operands; a
\* variable that stays must have had it.
TypedRedirect ==
  /\ RedirectStatement
  /\ LET i == Last(program')
         t == Statement(i, type)
     IN  type' = (i.res :> IF i.res \in mutable THEN LetStat(type[i.res], t) ELSE t)
                 @@ type
  /\ UNCHANGED <<precision, made>>

\* Whether LLVMCodeGen has a case for the statement.
Supported(i) ==
  LET arg(p) == type[i.args[p]]
  IN  CASE i.op \in {"Add", "Mult", "Div", "accumulate", "tree"} -> CodeForBinary(arg(1))
        [] i.op = "AddReduce" -> CodeForBinary(arg(1)) /\ CodeForReduce(arg(2))
        [] i.op = "gathered"  -> CodeForGather(type[i.res])
        [] i.op = "shuffled" /\ Vector > 4 -> CodeForPermute(type[i.res])
        [] i.op = "round"     -> CodeForPermute(arg(1))
        [] i.op \in {"elements", "packed", "single", "words", "copy", "zero"} ->
             type[i.res] \in Type2LLVMType
        [] OTHER -> TRUE

TypedGenerate ==
  /\ GenerateStatement
  /\ type' = (0 :> If(Supported(program[pos]), __int)) @@ type
  /\ UNCHANGED <<precision, made>>

\* Steps that make no statement.
Untyped ==
  /\ \/ CodeSeedDone \/ DropArgument \/ Formulated \/ BeginGroup \/ NextLoop
     \/ LoopsMade \/ Generated \/ BeginLoop \/ EndLoop \/ StoreOutput \/ Assign
     \/ Return
  /\ UNCHANGED typing

TypedNext ==
  \/ TypedFunc \/ TypedSeed \/ TypedFormulation
  \/ TypedTable \/ TypedRange \/ TypedPass \/ TypedOther \/ TypedLoop
  \/ TypedRedirect \/ TypedGenerate \/ Untyped

TypedSpec == TypedInit /\ [][TypedNext]_typed

-----------------------------------------------------------------------------
(***************************************************************************)
(* Properties                                                              *)
(***************************************************************************)
\* Whatever loops came before, every CHECK on types in the constructors of
\* statements holds, and the code generator has a case for every statement:
\* what a loop finds in the variables it shares with others fits what it
\* makes of them.
NoTypeFails == \A v \in DOMAIN type : ~IsFault(type[v])

\* Nothing checks the second operand of an operation: that both have one
\* type, that a number is added to a number and a vector to a vector, and
\* that a scatter has a number for each of its pointers.  LLVM requires it.
OperandsAgree ==
  stage = "generate" /\ pos = 1 =>
    \A p \in DOMAIN program :
      LET i == program[p]
          arg(q) == type[i.args[q]]
      IN  /\ i.op \in {"Add", "Mult", "Div", "accumulate"} => arg(1) = arg(2)
          /\ i.op = "AddReduce" => arg(1) = Reduce(arg(2))
          /\ i.op = "store" /\ i.name = "gather" =>
               arg(2) = Type(Data.base, arg(1).lanes)
=============================================================================
