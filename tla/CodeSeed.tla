------------------------------ MODULE CodeSeed ------------------------------
(***************************************************************************)
(* Node2StateMent::generate_code_seed (node/node2state.cpp): from the      *)
(* graph of an expression to a list of statements.                         *)
(*                                                                         *)
(* A node is worked off when the last of the nodes it is an operand of has *)
(* been: find_var_from_node_tree counts need_node_ down and puts the node  *)
(* into the queue at 0.  Results come before operands that way, and the    *)
(* list is turned around at the end.  A node used twice (the output and    *)
(* its index, by the gather and the scatter of "+=") gets one statement.   *)
(*                                                                         *)
(* The statement of a node is the node itself here: its result is the      *)
(* variable of the node, its operands the variables of the node's kids.    *)
(***************************************************************************)
EXTENDS Integers, Sequences, FiniteSets, SequencesExt

VARIABLES
  kids,     \* kids[n] is the operands of node n, as they are looked up
  root,     \* the node of the scatter or store
  iterate,  \* the nodes that stand for an iterate; they get no statement
  need,     \* need_node_
  queue,    \* _cal_queue
  var,      \* the nodes in _node2var_map
  top,      \* top_node_ptr; 0 between two nodes
  k,        \* its operand to be looked up next
  visited,  \* the nodes worked off (read by properties only)
  seed,     \* seed_state_vec
  code      \* what is returned

graph == <<kids, root, iterate>>
vars == <<graph, need, queue, var, top, k, visited, seed, code>>

Node == DOMAIN kids
Kids(n) == Range(kids[n])
Uses(m) == {n \in Node : m \in Kids(n)}

\* What the parser hands over: operands are older than their node and
\* differ from each other; the root is nobody's operand, and all others
\* nobody uses are leaves.  need_node_ counts uses.
Graph ==
  /\ kids \in Seq(Seq(Nat))
  /\ \A n \in Node : /\ Kids(n) \subseteq 1 .. n - 1
                     /\ IsInjective(kids[n])
  /\ root \in Node
  /\ Uses(root) = {}
  /\ \A n \in Node \ {root} : Uses(n) = {} => kids[n] = <<>>
  /\ \A n \in iterate : n \in Node \ {root} /\ kids[n] = <<>>

Start ==
  /\ queue = <<root>>
  /\ var = {}
  /\ top = 0
  /\ k = 1
  /\ visited = {}
  /\ seed = <<>>
  /\ code = <<>>

-----------------------------------------------------------------------------
Pop ==
  /\ top = 0
  /\ queue # <<>>
  /\ top' = Head(queue)
  /\ queue' = Tail(queue)
  /\ k' = 1
  /\ UNCHANGED <<graph, need, var, visited, seed, code>>

\* A slip: the first use puts a node into the queue.
FindVarAtOnce ==
  /\ top # 0
  /\ k <= Len(kids[top])
  /\ LET m == kids[top][k]
     IN  /\ need' = [need EXCEPT ![m] = @ - 1]
         /\ queue' = IF m \in var THEN queue ELSE Append(queue, m)
         /\ var' = var \cup {m}
  /\ k' = k + 1
  /\ UNCHANGED <<graph, top, visited, seed, code>>

\* A slip: every use finds its node ready.
FindVarAlways ==
  /\ top # 0
  /\ k <= Len(kids[top])
  /\ LET m == kids[top][k]
     IN  /\ need' = [need EXCEPT ![m] = @ - 1]
         /\ queue' = Append(queue, m)
         /\ var' = var \cup {m}
  /\ k' = k + 1
  /\ UNCHANGED <<graph, top, visited, seed, code>>

\* A slip: need_node_ is looked at before it is counted down.
FindVarLate ==
  /\ top # 0
  /\ k <= Len(kids[top])
  /\ LET m == kids[top][k]
     IN  /\ need' = [need EXCEPT ![m] = @ - 1]
         /\ var' = var \cup {m}
         /\ queue' = IF need[m] = 0 THEN Append(queue, m) ELSE queue
  /\ k' = k + 1
  /\ UNCHANGED <<graph, top, visited, seed, code>>

find_var_from_node_tree ==
  /\ top # 0
  /\ k <= Len(kids[top])
  /\ LET m == kids[top][k]
     IN  /\ need' = [need EXCEPT ![m] = @ - 1]
         /\ var' = var \cup {m}
         /\ queue' = IF need[m] = 1 THEN Append(queue, m) ELSE queue
  /\ k' = k + 1
  /\ UNCHANGED <<graph, top, visited, seed, code>>

\* The statement of top, made from the variables just found.
Emit ==
  /\ top # 0
  /\ k = Len(kids[top]) + 1
  /\ seed' = IF top \in iterate THEN seed ELSE Append(seed, top)
  /\ visited' = visited \cup {top}
  /\ top' = 0
  /\ UNCHANGED <<graph, need, queue, var, k, code>>

\* seed_state_vec_reverse
TurnAround ==
  /\ top = 0
  /\ queue = <<>>
  /\ code = <<>>
  /\ code' = Reverse(seed)
  /\ UNCHANGED <<graph, need, queue, var, top, k, visited, seed>>

Next == Pop \/ find_var_from_node_tree \/ Emit \/ TurnAround

CountUses == need = [n \in Node |-> Cardinality(Uses(n))]

Init == Graph /\ CountUses /\ Start

Spec == Init /\ [][Next]_vars

-----------------------------------------------------------------------------
(***************************************************************************)
(* Properties                                                              *)
(***************************************************************************)
TypeOK ==
  /\ need \in [Node -> Nat]
  /\ queue \in Seq(Node)
  /\ var \subseteq Node
  /\ visited \subseteq Node
  /\ top \in Node \cup {0}
  /\ top # 0 => k \in 1 .. Len(kids[top]) + 1
  /\ seed \in Seq(Node)

\* In the list under construction a node comes after everything that uses
\* it, so that in the final list every operand is computed before its use.
UsersFirst ==
  \A b \in DOMAIN seed : \A n \in Uses(seed[b]) :
    \E a \in 1 .. b - 1 : seed[a] = n

\* No node is computed twice, however many uses it has.
OncePerNode == IsInjective(seed)

\* The list returned computes every operand there is.  What is left out
\* are the iterates, and leaves that nobody uses: the node of the "i" of an
\* index, which the parser drops.
NothingMissing ==
  code # <<>> =>
    Range(code) = {n \in Node \ iterate : n = root \/ Uses(n) # {}}

-----------------------------------------------------------------------------
(***************************************************************************)
(* The inductive invariant.                                                *)
(***************************************************************************)
\* Uses of m that are still to be counted down.
Open(m) ==
  {n \in Uses(m) \ visited :
     n = top => \E j \in k .. Len(kids[n]) : kids[n][j] = m}

\* need_node_ is the number of uses still to come.
NeedCountsOpen == \A m \in Node : need[m] = Cardinality(Open(m))

\* A node waits from the moment its last use is counted until it is worked
\* off.  The root waits from the beginning.
Ready(m) == m = root \/ Uses(m) # {}
Waiting == {m \in Node : Ready(m) /\ Open(m) = {}} \ (visited \cup {top})

QueueIsWaiting == Range(queue) = Waiting /\ IsInjective(queue)

\* What is in the list has been worked off, or is an iterate.
SeedIsVisited ==
  /\ Range(seed) = visited \ iterate
  /\ top \notin visited
  /\ \A m \in visited \cup {top} : m # 0 => Ready(m) /\ Open(m) = {}

CodeIsSeed == code # <<>> => code = Reverse(seed) /\ top = 0 /\ queue = <<>>

IInv ==
  /\ Graph
  /\ TypeOK
  /\ NeedCountsOpen
  /\ QueueIsWaiting
  /\ SeedIsVisited
  /\ UsersFirst
  /\ OncePerNode
  /\ CodeIsSeed
=============================================================================
