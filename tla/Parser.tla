------------------------------- MODULE Parser -------------------------------
(***************************************************************************)
(* ParseClass (parse/parse.cpp): recursive descent over a text such as     *)
(*                                                                         *)
(*     input: int * row, double * x  output: double * y                    *)
(*     lambda i : y[row[i]] += x[i] * x[i]                                 *)
(*                                                                         *)
(* into a graph of nodes (node/node.hpp), and the tables of names that the *)
(* later stages look things up in.  There is no precedence: everything to  *)
(* the right of an operator is its right operand.                          *)
(*                                                                         *)
(* Every action reads at most one token (get_next_token) and does          *)
(* everything up to the next read or return.  The text is chosen while it  *)
(* is read.  ParseInputExpr is recursive: frames is its call stack, and pc *)
(* the point of the code that runs.  A token is its kind, and the token of *)
(* a variable is the name itself.  Equel is a kind the tokenizer never     *)
(* makes, so that "=" is left out here and "+=" is the only way to assign. *)
(***************************************************************************)
EXTENDS Integers, Sequences, FiniteSets, SequencesExt

CONSTANTS
  Name,    \* names of variables
  Given,   \* beginnings of the text, sequences of tokens
  Loose,   \* the tokens that may follow them
  Free     \* and how many

Base == {"Float", "Double", "Int"}
Binary == {"Add", "Mult", "Div"}
Kind == Base \cup Binary \cup
  {"Input", "Output", "Lambda", "LeftBracket", "RightBracket", "Colon",
   "Comma", "AddEquel", "MultEquel", "End"}
Token == Name \cup Kind

ASSUME ParserAssumption ==
  /\ Name \cap (Kind \cup {""}) = {}
  /\ Loose \subseteq Token
  /\ Free \in Nat

VARIABLES
  text,            \* the tokens read so far
  token,           \* current_token_
  pc,              \* the point of the code, mostly named after what is due
  frames,          \* calls of ParseInputExpr
  node,            \* left_node_ptr, and then what is returned
  declared,        \* type token of the declaration being read
  pointer,         \* is_pointer
  name_type_map,   \* name -> type; NoType if absent
  input_name_vec,
  iterates_set,
  output_name,
  output_var_type,
  max_bits,
  heap,            \* the nodes, in the order they were made
  need,            \* need_node_ of each of them
  gather_set, scatter_set, reduction_set, load_set,
  addr, out_index, \* addr_ptr and index_node_ptr of ParseExpr; 0 is NULL
  root             \* root_node_ptr

header == <<name_type_map, input_name_vec, iterates_set, output_name,
            output_var_type, max_bits>>
sets == <<gather_set, scatter_set, reduction_set, load_set>>
tree == <<heap, need>>
output == <<addr, out_index>>
declaration == <<declared, pointer>>
vars == <<text, token, pc, frames, node, declaration, header, tree, sets,
          output, root>>

NoType == [base |-> "none", pointer |-> FALSE]
TypeOf == [base : Base, pointer : BOOLEAN]

Init ==
  /\ text = <<>>
  /\ token = "End"
  /\ pc = "section"
  /\ frames = <<>>
  /\ node = 0
  /\ declared = "End"
  /\ pointer = FALSE
  /\ name_type_map = [n \in Name |-> NoType]
  /\ input_name_vec = <<>>
  /\ iterates_set = {}
  /\ output_name = ""
  /\ output_var_type = NoType
  /\ max_bits = 0
  /\ heap = <<>>
  /\ need = <<>>
  /\ gather_set = {} /\ scatter_set = {}
  /\ reduction_set = {} /\ load_set = {}
  /\ addr = 0
  /\ out_index = 0
  /\ root = 0

-----------------------------------------------------------------------------
(***************************************************************************)
(* Tokens, nodes, ends                                                     *)
(***************************************************************************)
\* The text starts with a member of Given, goes on freely, and once it has
\* ended it stays so.
Readable(t) ==
  /\ text # <<>> /\ Last(text) = "End" => t = "End"
  /\ \E given \in Given :
       IF Len(text) < Len(given)
         THEN IsPrefix(Append(text, t), given)
         ELSE /\ IsPrefix(given, text)
              /\ \/ t \in Loose /\ Len(text) < Len(given) + Free
                 \/ t = "End"

get_next_token(t) ==
  /\ Readable(t)
  /\ text' = Append(text, t)
  /\ token' = t

\* token_name_ is empty unless the token is a name.
TokenName(t) == IF t \in Name THEN t ELSE ""

NewNode(kind, kids, node_name, addr_name, index_name) ==
  [kind |-> kind, kids |-> kids, node_name |-> node_name,
   addr_name |-> addr_name, index_name |-> index_name]

\* A slip: only operands made in the same breath are counted.
MakeFresh(nodes) ==
  /\ heap' = heap \o nodes
  /\ need' = need \o [m \in 1 .. Len(nodes) |->
                Cardinality({n \in DOMAIN nodes :
                               Len(heap) + m \in Range(nodes[n].kids)})]

\* The constructors increment need_node_ of their operands.
Make(nodes) ==
  LET uses(m) == {n \in DOMAIN nodes : m \in Range(nodes[n].kids)}
  IN  /\ heap' = heap \o nodes
      /\ need' = [m \in 1 .. Len(heap) + Len(nodes) |->
                    (IF m <= Len(heap) THEN need[m] ELSE 0)
                      + Cardinality(uses(m))]

\* LOG(FATAL), or a null pointer followed: the process ends.
Fatal ==
  /\ pc' = "fatal"
  /\ UNCHANGED <<frames, node, declaration, header, tree, sets, output, root>>

Goto(p) ==
  /\ pc' = p
  /\ UNCHANGED <<frames, node, declaration, header, tree, sets, output, root>>

GotoOrDie(p, ok) == IF ok THEN Goto(p) ELSE Fatal

(***************************************************************************)
(* Parse: what follows a section                                           *)
(***************************************************************************)
Dispatch(t) ==
  CASE t = "Output" -> Goto("output colon")
    [] t = "Input"  -> Goto("input colon")
    [] t = "Lambda" -> Goto("iterate")
    [] t = "Colon"  -> Goto("output name")
    [] t = "End"    -> Goto("done")
    [] OTHER        -> Fatal

Section(t) ==
  /\ pc = "section"
  /\ get_next_token(t)
  /\ Dispatch(t)

-----------------------------------------------------------------------------
(***************************************************************************)
(* ParseInput and ParseOutput                                              *)
(***************************************************************************)
Colon(t) ==
  /\ pc \in {"input colon", "output colon"}
  /\ get_next_token(t)
  /\ GotoOrDie(IF pc = "input colon" THEN "input type" ELSE "output type",
               t = "Colon")

TypeToken(t) ==
  /\ pc \in {"input type", "output type"}
  /\ get_next_token(t)
  /\ declared' = t
  /\ pc' = IF pc = "input type" THEN "input star" ELSE "output star"
  /\ UNCHANGED <<frames, node, pointer, header, tree, sets, output, root>>

Bits == [b \in Base |-> IF b = "Double" THEN 64 ELSE 32]
AddBits(b) == max_bits' = IF Bits[b] > max_bits THEN Bits[b] ELSE max_bits

DeclareInput(t, is_pointer) ==
  IF declared \in Base /\ t \in Name
    THEN /\ name_type_map' = [name_type_map EXCEPT ![t] =
                                [base |-> declared, pointer |-> is_pointer]]
         /\ input_name_vec' = Append(input_name_vec, t)
         /\ AddBits(declared)
         /\ pc' = "input more"
         /\ UNCHANGED <<frames, node, declaration, iterates_set, output_name,
                        output_var_type, tree, sets, output, root>>
    ELSE Fatal

\* The star of an input may be missing: the token is then the name.
InputStar(t) ==
  /\ pc = "input star"
  /\ get_next_token(t)
  /\ IF t = "Mult" THEN Goto("input name") ELSE DeclareInput(t, FALSE)

InputName(t) ==
  /\ pc = "input name"
  /\ get_next_token(t)
  /\ DeclareInput(t, TRUE)

InputMore(t) ==
  /\ pc = "input more"
  /\ get_next_token(t)
  /\ IF t = "Comma" THEN Goto("input type") ELSE Dispatch(t)

\* The token after the type of the output is used up, star or not.
OutputStar(t) ==
  /\ pc = "output star"
  /\ get_next_token(t)
  /\ IF declared \in Base
       THEN /\ pointer' = (t = "Mult")
            /\ pc' = "declare output"
            /\ UNCHANGED <<frames, node, declared, header, tree, sets,
                           output, root>>
       ELSE Fatal

DeclareOutput(t) ==
  /\ pc = "declare output"
  /\ get_next_token(t)
  /\ IF t \in Name
       THEN LET type == [base |-> declared, pointer |-> pointer]
            IN  /\ output_name' = t
                /\ output_var_type' = type
                /\ name_type_map' = [name_type_map EXCEPT ![t] = type]
                /\ AddBits(declared)
                /\ pc' = "section"
                /\ UNCHANGED <<frames, node, declaration, input_name_vec,
                               iterates_set, tree, sets, output, root>>
       ELSE Fatal

(***************************************************************************)
(* ParseLambda                                                             *)
(***************************************************************************)
Iterate(t) ==
  /\ pc = "iterate"
  /\ get_next_token(t)
  /\ IF t \in Name
       THEN /\ iterates_set' = iterates_set \cup {t}
            /\ pc' = "iterate more"
            /\ UNCHANGED <<frames, node, declaration, name_type_map,
                           input_name_vec, output_name, output_var_type,
                           max_bits, tree, sets, output, root>>
       ELSE Fatal

IterateMore(t) ==
  /\ pc = "iterate more"
  /\ get_next_token(t)
  /\ IF t = "Comma" THEN Goto("iterate") ELSE Dispatch(t)

-----------------------------------------------------------------------------
(***************************************************************************)
(* ParseExpr, up to its calls of ParseInputExpr                            *)
(***************************************************************************)
Top == Last(frames)

\* A call of ParseInputExpr, with the locals its caller will need.
Call(place, left, operator) ==
  /\ frames' = Append(frames,
                 [place |-> place, left |-> left, operator |-> operator])
  /\ pc' = "operand"

OutputNode(t) ==
  /\ pc = "output name"
  /\ get_next_token(t)
  /\ IF TokenName(t) = output_name
       THEN /\ Make(<<NewNode("var", <<>>, output_name, "", "")>>)
            /\ addr' = Len(heap) + 1
            /\ pc' = "output bracket"
            /\ UNCHANGED <<frames, node, declaration, header, sets,
                           out_index, root>>
       ELSE Fatal

OutputBracket(t) ==
  /\ pc = "output bracket"
  /\ get_next_token(t)
  /\ IF t = "LeftBracket"
       THEN /\ Call("output index", 0, "End")
            /\ UNCHANGED <<node, declaration, header, tree, sets, output, root>>
       ELSE Goto("equal")

\* Without a bracket the data is still parsed, and only then refused.
EqualType ==
  /\ pc = "equal"
  /\ IF token \in {"AddEquel", "MultEquel"}
       THEN /\ Call("data", 0, token)
            /\ UNCHANGED <<node, declaration, header, tree, sets, output, root>>
       ELSE Fatal
  /\ UNCHANGED <<text, token>>

(***************************************************************************)
(* ParseInputExpr                                                          *)
(***************************************************************************)
Operand(t) ==
  /\ pc = "operand"
  /\ get_next_token(t)
  /\ IF t \in Name /\ (name_type_map[t] # NoType \/ t \in iterates_set)
       THEN /\ Make(<<NewNode("var", <<>>, t, "", "")>>)
            /\ node' = Len(heap) + 1
            /\ pc' = "suffix"
            /\ UNCHANGED <<frames, declaration, header, sets, output, root>>
       ELSE Fatal

Suffix(t) ==
  /\ pc = "suffix"
  /\ get_next_token(t)
  /\ IF t = "LeftBracket"
       THEN /\ Call("index", node, "End")
            /\ UNCHANGED <<node, declaration, header, tree, sets, output, root>>
       ELSE Goto("operator")

\* get_pointer2type of a node made by ParseInputExpr or for the output.
IsPointer(n) == name_type_map[heap[n].node_name].pointer

\* A slip: the index stays in load_set.
GatherOnly(array) ==
  LET index == heap[node].addr_name
  IN  /\ Make(<<NewNode("gather", <<array, node>>, index,
                        heap[array].node_name, index)>>)
      /\ gather_set' = gather_set \cup {index}
      /\ UNCHANGED <<scatter_set, reduction_set, load_set>>

\* The node of an element, and what it does to the sets.
GatherElement(array) ==
  LET index == heap[node].addr_name
  IN  /\ Make(<<NewNode("gather", <<array, node>>, index,
                        heap[array].node_name, index)>>)
      /\ gather_set' = gather_set \cup {index}
      /\ load_set' = load_set \ {index}
      /\ UNCHANGED <<scatter_set, reduction_set>>

LoadElement(array) ==
  LET index == heap[node].node_name
      name == heap[array].node_name
  IN  /\ Make(<<NewNode("load", <<array>>, index, name, index)>>)
      /\ load_set' = load_set \cup {name}
      /\ UNCHANGED <<gather_set, scatter_set, reduction_set>>

\* The expression between brackets returns: x[c[i]] is a gather, x[i] a
\* load; nothing else is an index.
ReturnIndex(t) ==
  /\ pc = "return" /\ Top.place = "index"
  /\ token = "RightBracket"
  /\ get_next_token(t)
  /\ IF ~IsPointer(Top.left)
       THEN Fatal
       ELSE \/ /\ heap[node].kind = "load"
               /\ GatherElement(Top.left)
               /\ node' = Len(heap) + 1
               /\ frames' = Front(frames)
               /\ pc' = "operator"
               /\ UNCHANGED <<declaration, header, output, root>>
            \/ /\ heap[node].kind = "var"
               /\ heap[node].node_name \in iterates_set
               /\ LoadElement(Top.left)
               /\ node' = Len(heap) + 1
               /\ frames' = Front(frames)
               /\ pc' = "operator"
               /\ UNCHANGED <<declaration, header, output, root>>
            \/ /\ heap[node].kind # "load"
               /\ ~ (/\ heap[node].kind = "var"
                     /\ heap[node].node_name \in iterates_set)
               /\ Fatal

\* An operator takes all that follows as its right operand.
Operator ==
  /\ pc = "operator"
  /\ IF token \in Binary
       THEN /\ Call("right", node, token)
            /\ UNCHANGED <<node, declaration, header, tree, sets, output, root>>
       ELSE Goto("return")
  /\ UNCHANGED <<text, token>>

\* A slip: the operands are swapped.
ReturnLeft ==
  /\ pc = "return" /\ Top.place = "right"
  /\ Make(<<NewNode(Top.operator, <<node, Top.left>>, "", "", "")>>)
  /\ node' = Len(heap) + 1
  /\ frames' = Front(frames)
  /\ UNCHANGED <<text, token, pc, declaration, header, sets, output, root>>

ReturnRight ==
  /\ pc = "return" /\ Top.place = "right"
  /\ Make(<<NewNode(Top.operator, <<Top.left, node>>, "", "", "")>>)
  /\ node' = Len(heap) + 1
  /\ frames' = Front(frames)
  /\ UNCHANGED <<text, token, pc, declaration, header, sets, output, root>>

-----------------------------------------------------------------------------
(***************************************************************************)
(* ParseExpr, after its calls                                              *)
(***************************************************************************)
ReturnOutputIndex(t) ==
  /\ pc = "return" /\ Top.place = "output index"
  /\ token = "RightBracket"
  /\ get_next_token(t)
  /\ out_index' = node
  /\ frames' = Front(frames)
  /\ pc' = "equal"
  /\ UNCHANGED <<node, declaration, header, tree, sets, addr, root>>

MissingBracket ==
  /\ pc = "return" /\ Top.place \in {"index", "output index"}
  /\ token # "RightBracket"
  /\ Fatal
  /\ UNCHANGED <<text, token>>

\* A slip: the sum is taken for its own operand.
SelfTree ==
  LET index == heap[out_index].addr_name
      n == Len(heap)
  IN  /\ Make(<<NewNode("gather", <<addr, out_index>>, index, output_name, index),
                NewNode("Add", <<n + 2, node>>, output_name, "", index),
                NewNode("scatter", <<addr, out_index, n + 2>>, "", output_name,
                        index)>>)
      /\ root' = n + 3
      /\ reduction_set' = reduction_set \cup {index}
      /\ scatter_set' = scatter_set \cup {index}
      /\ load_set' = load_set \ {index}
      /\ UNCHANGED gather_set

\* y[r[i]] += data: y is gathered, added to and scattered, with the nodes
\* of y and of its index shared between gather and scatter.
ScatterTree ==
  LET index == heap[out_index].addr_name
      n == Len(heap)
  IN  /\ Make(<<NewNode("gather", <<addr, out_index>>, index, output_name, index),
                NewNode("Add", <<n + 1, node>>, output_name, "", index),
                NewNode("scatter", <<addr, out_index, n + 2>>, "", output_name,
                        index)>>)
      /\ root' = n + 3
      /\ reduction_set' = reduction_set \cup {index}
      /\ scatter_set' = scatter_set \cup {index}
      /\ load_set' = load_set \ {index}
      /\ UNCHANGED gather_set

\* y[i] += data; any variable passes for an index here.
StoreTree ==
  LET index == heap[out_index].node_name
      n == Len(heap)
  IN  /\ Make(<<NewNode("load", <<addr>>, "", output_name, index),
                NewNode("Add", <<n + 1, node>>, index, "", ""),
                NewNode("store", <<addr, n + 2>>, "", output_name, "")>>)
      /\ root' = n + 3
      /\ UNCHANGED sets

Complete(place) ==
  /\ pc = "return" /\ Top.place = "data"
  /\ IF /\ out_index # 0
        /\ Top.operator = "AddEquel"
        /\ output_var_type.pointer
        /\ heap[out_index].kind \in {"load", "var"}
       THEN /\ heap[out_index].kind = place
            /\ IF place = "load" THEN ScatterTree ELSE StoreTree
            /\ frames' = Front(frames)
            /\ pc' = "done"
            /\ UNCHANGED <<node, declaration, header, output>>
       ELSE Fatal
  /\ UNCHANGED <<text, token>>

Next ==
  \/ \E t \in Token :
       \/ Section(t) \/ Colon(t) \/ TypeToken(t)
       \/ InputStar(t) \/ InputName(t) \/ InputMore(t)
       \/ OutputStar(t) \/ DeclareOutput(t)
       \/ Iterate(t) \/ IterateMore(t)
       \/ OutputNode(t) \/ OutputBracket(t)
       \/ Operand(t) \/ Suffix(t) \/ ReturnIndex(t) \/ ReturnOutputIndex(t)
  \/ EqualType \/ Operator \/ ReturnRight \/ MissingBracket
  \/ \E place \in {"load", "var"} : Complete(place)

Spec == Init /\ [][Next]_vars
-----------------------------------------------------------------------------
(***************************************************************************)
(* Properties                                                              *)
(***************************************************************************)
Node == DOMAIN heap
NodeKind == Binary \cup {"var", "load", "gather", "scatter", "store"}
NodeRecord ==
  [kind : NodeKind, kids : Seq(Nat), node_name : Name \cup {""},
   addr_name : Name \cup {""}, index_name : Name \cup {""}]

\* Types of the parser's state.
TypeOK ==
  /\ text \in Seq(Token)
  /\ token \in Token
  /\ node \in Node \cup {0} /\ root \in Node \cup {0}
  /\ addr \in Node \cup {0} /\ out_index \in Node \cup {0}
  /\ declared \in Token /\ pointer \in BOOLEAN
  /\ name_type_map \in [Name -> TypeOf \cup {NoType}]
  /\ iterates_set \subseteq Name
  /\ output_name \in Name \cup {""}
  /\ output_var_type \in TypeOf \cup {NoType}
  /\ gather_set \cup scatter_set \cup reduction_set \cup load_set
       \subseteq Name
  /\ heap \in Seq(NodeRecord)
  /\ need \in [Node -> Nat]
  /\ frames \in Seq([place : {"output index", "data", "index", "right"},
                     left : Node \cup {0}, operator : Token])

\* need_node_ of a node is the number of nodes that have it as an operand,
\* also where gather and scatter of the output share theirs.  It tells
\* generate_code_seed when the last use of a node has been seen.
UsesIn(h, m) == {n \in DOMAIN h : m \in Range(h[n].kids)}
Uses(m) == UsesIn(heap, m)
NeedCountsUses == \A m \in Node : need[m] = Cardinality(Uses(m))

Parsed == pc = "done" /\ root # 0

\* What generate_code_seed starts from when the parser has returned.
Seed ==
  INSTANCE CodeSeed WITH
    kids <- [n \in Node |-> heap[n].kids],
    iterate <- {n \in Node : heap[n].kind = "var" /\ heap[n].node_name \in iterates_set},
    queue <- <<root>>, var <- {}, top <- 0, k <- 1,
    visited <- {}, seed <- <<>>, code <- <<>>

\* The tree a parse ends with is one that generate_code_seed can work off:
\* operands are older than their node and differ, only the root and leaves
\* have no user, and need_node_ counts the uses.  All that is proved of
\* generate_code_seed rests on it.
HandsOver == Parsed => Seed!Init

\* The tree, written out; words is what its operands are.
NodeWords(x, words) ==
  LET Indexed(index) == <<x.addr_name, "LeftBracket">> \o index \o <<"RightBracket">>
  IN  CASE x.kind = "var"    -> <<x.node_name>>
        [] x.kind = "load"   -> Indexed(<<x.index_name>>)
        [] x.kind = "gather" -> Indexed(words[x.kids[2]])
        [] x.kind \in Binary -> words[x.kids[1]] \o <<x.kind>> \o words[x.kids[2]]
        [] OTHER             -> <<>>
WordsOf(h) == LET words[n \in DOMAIN h] == NodeWords(h[n], words) IN words
Words == WordsOf(heap)

Statement ==
  LET sum == heap[root].kids[Len(heap[root].kids)]
  IN  Words[heap[sum].kids[1]] \o <<"AddEquel">> \o Words[heap[sum].kids[2]]

\* The tree a parse ends with is the statement that stands in the text
\* between the colon and the token read last: nothing is lost, repeated or
\* moved, by whatever calls and returns it was built.
TreeIsText ==
  Parsed => IsSuffix(<<"Colon">> \o Statement, Front(text))

OfKind(kind) == {n \in Node : heap[n].kind = kind}
Array(n) == heap[heap[n].kids[1]].node_name
Indices(kind) == {heap[n].kids[2] : n \in OfKind(kind)}
Inputs(nodes) == {n \in nodes : heap[n].kids[1] # addr}

ScatterIndices == {Array(n) : n \in Indices("scatter")}
GatherIndices == {Array(heap[n].kids[2]) : n \in Inputs(OfKind("gather"))}
Loaded ==
  {Array(n) : n \in Inputs(OfKind("load"))
                     \ (Indices("gather") \cup Indices("scatter"))}

\* If no array is both index and operand, the sets by which the later
\* stages find the arrays are those of the tree: the arrays gathered with,
\* the one scattered with, and the ones loaded in step.
SetsMatchTree ==
  Parsed /\ Loaded \cap (GatherIndices \cup ScatterIndices) = {}
    => /\ gather_set = GatherIndices
       /\ scatter_set = ScatterIndices
       /\ reduction_set = ScatterIndices
       /\ load_set = Loaded
-----------------------------------------------------------------------------
(***************************************************************************)
(* The inductive invariant.                                                *)
(***************************************************************************)
\* The nodes as the constructors make them.
Arity(kind) ==
  CASE kind = "var"                            -> 0
    [] kind = "load"                           -> 1
    [] kind \in Binary \cup {"gather", "store"} -> 2
    [] kind = "scatter"                        -> 3

WellMade(h, n) ==
  LET x == h[n]
      kid(p) == h[x.kids[p]]
  IN  /\ Len(x.kids) = Arity(x.kind)
      /\ Range(x.kids) \subseteq 1 .. n - 1
      /\ IsInjective(x.kids)
      /\ x.kind \in {"load", "gather", "scatter", "store"} =>
           kid(1).kind = "var" /\ x.addr_name = kid(1).node_name
      /\ x.kind \in {"gather", "scatter"} =>
           kid(2).kind = "load" /\ x.index_name = kid(2).addr_name

HeapWellMade == \A n \in Node : WellMade(heap, n)

\* Where an expression is read: the stack holds the calls under way, and node
\* is what the inmost has read so far.
Live == pc \in {"suffix", "operator", "return"}
InExpression == pc = "operand" \/ Live
Reading == pc \in {"output bracket", "equal"} \/ InExpression

Stack ==
  /\ InExpression =>
       /\ frames # <<>>
       /\ frames[1].place \in {"output index", "data"} /\ frames[1].left = 0
       /\ frames[1].place = "output index" => out_index = 0
       /\ \A f \in 2 .. Len(frames) : frames[f].place \in {"index", "right"}
       /\ \A f \in DOMAIN frames :
            /\ frames[f].place = "right" => frames[f].operator \in Binary
            /\ frames[f].place = "index" => heap[frames[f].left].kind = "var"
  /\ ~InExpression /\ pc # "fatal" => frames = <<>>
  /\ pc = "output bracket" => out_index = 0
  /\ pc = "suffix" => heap[node].kind = "var"
  /\ ~Reading /\ pc \notin {"done", "fatal"} => heap = <<>> /\ addr = 0 /\ out_index = 0
  /\ root # 0 => pc = "done"
  /\ pc = "declare output" => declared \in Base
  /\ output_var_type.pointer => output_name \in Name

\* The nodes that wait for their user: those of the output, the left operands
\* and arrays of the calls under way, and node.  Each is younger than those
\* before it, which is why a node never gets one operand twice.
Waiting ==
  ({addr, out_index} \cup {frames[f].left : f \in DOMAIN frames}
     \cup (IF Live THEN {node} ELSE {})) \ {0}

YoungerThanOutput(n) == n \in Node /\ addr < n /\ out_index < n

Pending ==
  Reading =>
    /\ addr \in Node /\ heap[addr].kind = "var" /\ heap[addr].node_name = output_name
    /\ out_index # 0 => addr < out_index
    /\ \A f \in 2 .. Len(frames) :
         /\ YoungerThanOutput(frames[f].left)
         /\ \A g \in 2 .. f - 1 : frames[g].left < frames[f].left
         /\ Live => frames[f].left < node
    /\ Live => YoungerThanOutput(node)
    /\ \A m \in Waiting : Uses(m) = {}
    /\ \A n \in Node :
         /\ heap[n].kind \notin {"scatter", "store"}
         /\ heap[n].kind = "var" /\ n # addr => heap[n].node_name \in Name
         /\ Uses(n) = {} /\ heap[n].kids # <<>> => n \in Waiting

Rooted ==
  root # 0 =>
    /\ Uses(root) = {}
    /\ heap[root].kids # <<>>
    /\ \A n \in Node \ {root} : Uses(n) = {} => heap[n].kids = <<>>

\* The sets at any time.  An array read as an index leaves load_set, and may
\* come back as an operand.
SetsFollowTree ==
  /\ gather_set = GatherIndices
  /\ scatter_set = ScatterIndices
  /\ reduction_set = ScatterIndices
  /\ load_set \subseteq Loaded
  /\ Loaded \subseteq load_set \cup GatherIndices \cup ScatterIndices

\* What has been read of the output, and in each call under way.
OutputElement == <<output_name, "LeftBracket">> \o Words[out_index] \o <<"RightBracket">>

Piece(f) ==
  CASE f.place = "output index" -> <<output_name, "LeftBracket">>
    [] f.place = "data"         -> OutputElement \o <<f.operator>>
    [] f.place = "index"        -> Words[f.left] \o <<"LeftBracket">>
    [] f.place = "right"        -> Words[f.left] \o <<f.operator>>

Written(pieces) ==
  LET written[p \in 0 .. Len(pieces)] ==
        IF p = 0 THEN <<"Colon">> ELSE written[p - 1] \o pieces[p]
  IN  written[Len(pieces)]

Pieces == [f \in DOMAIN frames |-> Piece(frames[f])]

\* Without the token read ahead.
Consumed == IF pc \in {"equal", "operator", "return"} THEN Front(text) ELSE text

OutputIndexed == out_index # 0 \/ (frames # <<>> /\ frames[1].place = "output index")

\* The token at hand is the last one read.
TokensRead ==
  /\ text # <<>> => token = Last(text)
  /\ pc = "output name" => text # <<>> /\ token = "Colon"
  /\ Reading => text # <<>>

\* The text ends with what the stack and the nodes have of the statement.
\* The name of the output is empty until it is declared; a statement that
\* starts without a name is never completed.
StatementRead ==
  output_name \in Name =>
    /\ pc = "output bracket" => IsSuffix(<<"Colon">> \o <<output_name>>, text)
    /\ pc = "equal" /\ OutputIndexed => IsSuffix(<<"Colon">> \o OutputElement, Consumed)
    /\ InExpression /\ OutputIndexed =>
         IsSuffix(Written(Pieces) \o (IF Live THEN Words[node] ELSE <<>>), Consumed)

\* What is true in every state of a parse, and enough to be true in the next
\* one: of the nodes, of the calls under way, of the tables and of the text.
ParserInv ==
  /\ TypeOK
  /\ NeedCountsUses
  /\ HeapWellMade
  /\ Stack
  /\ Pending
  /\ Rooted
  /\ SetsFollowTree
  /\ TokensRead
  /\ StatementRead
  /\ TreeIsText
=============================================================================
