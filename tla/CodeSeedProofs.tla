--------------------------- MODULE CodeSeedProofs ---------------------------
(***************************************************************************)
(* Proofs about CodeSeed, for every graph the parser can hand over.        *)
(***************************************************************************)
EXTENDS CodeSeed, FiniteSetTheorems, WellFoundedInduction, TLAPS

-----------------------------------------------------------------------------
(***************************************************************************)
(* Sequences as queues and as lists.                                       *)
(***************************************************************************)
\* The head of a queue without repetitions is not in its tail.
LEMMA HeadLeaves ==
  ASSUME NEW S, NEW q \in Seq(S), q # <<>>, IsInjective(q)
  PROVE  /\ Head(q) \in S
         /\ Head(q) \in Range(q)
         /\ Tail(q) \in Seq(S)
         /\ Range(Tail(q)) = Range(q) \ {Head(q)}
         /\ IsInjective(Tail(q))
  <1>1. /\ Len(q) \in Nat \ {0} /\ DOMAIN q = 1 .. Len(q)
        /\ Head(q) = q[1] /\ q[1] \in S
        /\ Tail(q) \in Seq(S) /\ Len(Tail(q)) = Len(q) - 1
        /\ DOMAIN Tail(q) = 1 .. Len(q) - 1
        /\ \A p \in 1 .. Len(q) - 1 : Tail(q)[p] = q[p + 1]
    OBVIOUS
  <1>2. ASSUME NEW e PROVE e \in Range(Tail(q)) <=> e \in Range(q) /\ e # q[1]
    <2>1. ASSUME NEW p \in 1 .. Len(q) - 1
          PROVE  p + 1 \in 1 .. Len(q) /\ p + 1 # 1
      BY <1>1
    <2>2. ASSUME NEW p \in 1 .. Len(q), p # 1
          PROVE  p - 1 \in 1 .. Len(q) - 1 /\ (p - 1) + 1 = p
      BY <1>1, <2>2
    <2>3. ASSUME e \in Range(Tail(q)) PROVE e \in Range(q) /\ e # q[1]
      BY <1>1, <2>1, <2>3, 1 \in 1 .. Len(q) DEF Range, IsInjective
    <2>4. ASSUME e \in Range(q), e # q[1] PROVE e \in Range(Tail(q))
      <3>1. PICK p \in 1 .. Len(q) : q[p] = e
        BY <1>1, <2>4 DEF Range
      <3>2. /\ p - 1 \in DOMAIN Tail(q)
            /\ Tail(q)[p - 1] = e
        BY <1>1, <2>2, <2>4, <3>1
      <3> QED
        BY <3>2 DEF Range
    <2> QED
      BY <2>3, <2>4
  <1>3. IsInjective(Tail(q))
    BY <1>1 DEF IsInjective
  <1>4. Head(q) \in Range(q)
    BY <1>1, 1 \in 1 .. Len(q) DEF Range
  <1> QED
    BY <1>1, <1>2, <1>3, <1>4

\* Appending an element that is not there yet.
LEMMA AppendNew ==
  ASSUME NEW S, NEW q \in Seq(S), NEW e \in S
  PROVE  /\ Append(q, e) \in Seq(S)
         /\ Range(Append(q, e)) = Range(q) \cup {e}
         /\ DOMAIN Append(q, e) = 1 .. Len(q) + 1
         /\ Len(q) \in Nat /\ DOMAIN q = 1 .. Len(q)
         /\ \A p \in 1 .. Len(q) : Append(q, e)[p] = q[p]
         /\ Append(q, e)[Len(q) + 1] = e
         /\ IsInjective(q) /\ e \notin Range(q) => IsInjective(Append(q, e))
  <1>1. /\ Append(q, e) \in Seq(S)
        /\ Len(q) \in Nat /\ DOMAIN q = 1 .. Len(q)
        /\ DOMAIN Append(q, e) = 1 .. Len(q) + 1
        /\ \A p \in 1 .. Len(q) : Append(q, e)[p] = q[p]
        /\ Append(q, e)[Len(q) + 1] = e
    OBVIOUS
  <1>2. 1 .. Len(q) + 1 = (1 .. Len(q)) \cup {Len(q) + 1}
    BY <1>1
  <1>3. Range(Append(q, e)) = Range(q) \cup {e}
    BY <1>1, <1>2 DEF Range
  <1>4. ASSUME IsInjective(q), e \notin Range(q)
        PROVE  IsInjective(Append(q, e))
    BY <1>1, <1>2, <1>4 DEF IsInjective, Range
  <1> QED
    BY <1>1, <1>3, <1>4

-----------------------------------------------------------------------------
(***************************************************************************)
(* Graphs.                                                                 *)
(***************************************************************************)
LEMMA GraphFacts ==
  ASSUME Graph
  PROVE  /\ Len(kids) \in Nat
         /\ Node = 1 .. Len(kids)
         /\ 0 \notin Node
         /\ \A n \in Node : /\ kids[n] \in Seq(Nat)
                            /\ Len(kids[n]) \in Nat
                            /\ DOMAIN kids[n] = 1 .. Len(kids[n])
         /\ \A m, n : n \in Uses(m) <=>
              n \in Node /\ \E j \in 1 .. Len(kids[n]) : kids[n][j] = m
         /\ \A n \in Node : \A j \in 1 .. Len(kids[n]) :
              kids[n][j] \in Node /\ kids[n][j] < n
         /\ \A n \in Node : \A i, j \in 1 .. Len(kids[n]) :
              kids[n][i] = kids[n][j] => i = j
         /\ \A m : \A n \in Uses(m) : n \notin iterate /\ n # m
  <1>1. /\ Len(kids) \in Nat
        /\ Node = 1 .. Len(kids)
        /\ \A n \in Node : kids[n] \in Seq(Nat)
    BY DEF Graph, Node
  <1>2. \A n \in Node : /\ Len(kids[n]) \in Nat
                        /\ DOMAIN kids[n] = 1 .. Len(kids[n])
    BY <1>1
  <1>3. \A m, n : n \in Uses(m) <=>
              n \in Node /\ \E j \in 1 .. Len(kids[n]) : kids[n][j] = m
    BY <1>2 DEF Uses, Kids, Range
  <1>4. \A n \in Node : \A j \in 1 .. Len(kids[n]) :
              kids[n][j] \in Node /\ kids[n][j] < n
    <2> SUFFICES ASSUME NEW n \in Node, NEW j \in 1 .. Len(kids[n])
                 PROVE  kids[n][j] \in Node /\ kids[n][j] < n
      OBVIOUS
    <2>1. kids[n][j] \in 1 .. n - 1
      BY <1>2 DEF Graph, Kids, Range
    <2> QED
      BY <1>1, <2>1
  <1>5. \A n \in Node : \A i, j \in 1 .. Len(kids[n]) :
              kids[n][i] = kids[n][j] => i = j
    BY <1>2 DEF Graph, IsInjective
  <1>6. ASSUME NEW m, NEW n \in Uses(m) PROVE n \notin iterate /\ n # m
    <2>1. PICK j \in 1 .. Len(kids[n]) : kids[n][j] = m
      BY <1>3
    <2>2. n \in Node
      BY <1>3
    <2>3. kids[n] # <<>>
      BY <1>2, <2>1, <2>2
    <2>4. n \notin iterate
      BY <2>3 DEF Graph
    <2> QED
      BY <1>1, <1>4, <2>1, <2>2, <2>4
  <1> QED
    BY <1>1, <1>2, <1>3, <1>4, <1>5, <1>6

\* The uses of a node can be counted.
LEMMA OpenIsFinite ==
  ASSUME Graph, NEW m
  PROVE  IsFiniteSet(Open(m)) /\ Cardinality(Open(m)) \in Nat
  <1>1. Open(m) \subseteq 1 .. Len(kids)
    BY GraphFacts DEF Open
  <1>2. IsFiniteSet(1 .. Len(kids))
    BY GraphFacts, FS_Interval
  <1>3. IsFiniteSet(Open(m))
    BY <1>1, <1>2, FS_Subset
  <1> QED
    BY <1>3, FS_CardinalityType
-----------------------------------------------------------------------------
(***************************************************************************)
(* The invariant holds at the start and after every step.                  *)
(***************************************************************************)
LEMMA InitIInv == Init => IInv
  <1> SUFFICES ASSUME Init PROVE IInv
    OBVIOUS
  <1> USE GraphFacts DEF Init, Start
  <1>1. \A m \in Node : Open(m) = Uses(m)
    BY DEF Open, Uses
  <1>2. NeedCountsOpen
    BY <1>1 DEF NeedCountsOpen, CountUses
  <1>3. TypeOK
    <2>1. \A m \in Node : Cardinality(Uses(m)) \in Nat
      BY <1>1, OpenIsFinite
    <2>2. queue \in Seq(Node) /\ seed \in Seq(Node)
      BY DEF Graph
    <2> QED
      BY <2>1, <2>2 DEF TypeOK, CountUses
  <1>4. QueueIsWaiting
    <2>1. Range(queue) = {root} /\ IsInjective(queue)
      BY DEF Range, IsInjective
    <2>2. Uses(root) = {} /\ root \in Node
      BY DEF Graph
    <2> QED
      BY <1>1, <2>1, <2>2 DEF QueueIsWaiting, Waiting, Ready
  <1>5. SeedIsVisited
    BY DEF SeedIsVisited, Range
  <1>6. UsersFirst /\ OncePerNode /\ CodeIsSeed
    BY DEF UsersFirst, OncePerNode, CodeIsSeed, IsInjective
  <1> QED
    BY <1>2, <1>3, <1>4, <1>5, <1>6 DEF IInv

\* A node is taken from the queue: it stops waiting, and all its operands
\* are still to be looked up.
LEMMA PopStep ==
  ASSUME IInv, Pop
  PROVE  IInv'
  <1> USE DEF IInv
  <1>0. /\ top = 0 /\ queue # <<>>
        /\ top' = Head(queue) /\ queue' = Tail(queue) /\ k' = 1
        /\ kids' = kids /\ root' = root /\ iterate' = iterate
        /\ need' = need /\ var' = var /\ visited' = visited
        /\ seed' = seed /\ code' = code
        /\ Node' = Node
    BY DEF Pop, graph, Node
  <1> USE GraphFacts, <1>0
  <1>1. /\ top' \in Node /\ top' \in Range(queue)
        /\ queue' \in Seq(Node)
        /\ Range(queue') = Range(queue) \ {top'}
        /\ IsInjective(queue')
    BY HeadLeaves DEF TypeOK, QueueIsWaiting
  <1>2. Graph'
    BY DEF Graph, Node, Kids, Uses
  <1>3. \A m : Uses(m)' = Uses(m) /\ (Ready(m)' <=> Ready(m))
    BY DEF Uses, Kids, Ready
  <1>4. \A m : Open(m)' = Open(m)
    BY <1>3 DEF Open
  <1>5. TypeOK'
    <2>1. k' \in 1 .. Len(kids[top']) + 1
      BY <1>1
    <2> QED
      BY <1>1, <2>1 DEF TypeOK
  <1>6. NeedCountsOpen'
    BY <1>4 DEF NeedCountsOpen
  <1>7. QueueIsWaiting'
    BY <1>1, <1>3, <1>4, SMTT(30) DEF QueueIsWaiting, Waiting
  <1>8. SeedIsVisited'
    BY <1>1, <1>3, <1>4 DEF SeedIsVisited, QueueIsWaiting, Waiting
  <1>9. UsersFirst' /\ OncePerNode'
    BY <1>3 DEF UsersFirst, OncePerNode
  <1>10. CodeIsSeed'
    BY DEF CodeIsSeed
  <1> QED
    BY <1>2, <1>5, <1>6, <1>7, <1>8, <1>9, <1>10

\* An operand is looked up: one use less, and at the last one it waits.
LEMMA FindStep ==
  ASSUME IInv, find_var_from_node_tree
  PROVE  IInv'
  <1>m. PICK m : m = kids[top][k]
    OBVIOUS
  <1>0. /\ top # 0 /\ k <= Len(kids[top]) /\ k' = k + 1
        /\ need' = [need EXCEPT ![m] = need[m] - 1]
        /\ var' = var \cup {m}
        /\ queue' = IF need[m] = 1 THEN Append(queue, m) ELSE queue
        /\ kids' = kids /\ root' = root /\ iterate' = iterate
        /\ top' = top /\ visited' = visited
        /\ seed' = seed /\ code' = code
        /\ Node' = Node
    BY <1>m DEF find_var_from_node_tree, graph, Node
  <1>1. /\ top \in Node /\ k \in 1 .. Len(kids[top]) /\ top \notin visited
        /\ m \in Node /\ m # top /\ top \in Uses(m)
    <2>1. top \in Node /\ k \in 1 .. Len(kids[top]) /\ top \notin visited
      BY <1>0, GraphFacts DEF IInv, TypeOK, SeedIsVisited
    <2>2. m \in Node /\ m < top /\ top \in Node /\ Node = 1 .. Len(kids)
      BY <1>m, <2>1, GraphFacts DEF IInv
    <2>3. top \in Uses(m)
      BY <1>m, <2>1, GraphFacts DEF IInv
    <2> QED
      BY <2>1, <2>2, <2>3
  <1>2. Graph'
    BY <1>0 DEF IInv, Graph, Kids, Uses
  <1>3. \A n : Uses(n)' = Uses(n) /\ (Ready(n)' <=> Ready(n))
    BY <1>0 DEF Uses, Kids, Ready
  <1>4. /\ Len(kids[top]) \in Nat
        /\ \A j \in k + 1 .. Len(kids[top]) : kids[top][j] # m
    <2>1. Len(kids[top]) \in Nat
      BY <1>1, GraphFacts DEF IInv
    <2>2. \A i, j \in 1 .. Len(kids[top]) : kids[top][i] = kids[top][j] => i = j
      BY <1>1, GraphFacts DEF IInv
    <2>3. ASSUME NEW j \in k + 1 .. Len(kids[top])
          PROVE  j \in 1 .. Len(kids[top]) /\ j # k
      BY <1>1, <2>1
    <2> QED
      BY <1>m, <1>1, <2>1, <2>2, <2>3
  <1>5. top \in Open(m) /\ Open(m)' = Open(m) \ {top}
    <2>1. top \in Open(m)
      BY <1>m, <1>1, <1>4 DEF Open
    <2>2. \A n : n \in Open(m)' <=>
             /\ n \in Uses(m) /\ n \notin visited
             /\ n = top => \E j \in k + 1 .. Len(kids[n]) : kids[n][j] = m
      BY <1>0, <1>3 DEF Open
    <2>3. \A n : n \in Open(m) <=>
             /\ n \in Uses(m) /\ n \notin visited
             /\ n = top => \E j \in k .. Len(kids[n]) : kids[n][j] = m
      BY DEF Open
    <2>4. Open(m)' \subseteq Uses(m)
      BY <1>3 DEF Open
    <2>5. \A n : n \in Open(m)' <=> n \in Open(m) /\ n # top
      BY <1>m, <1>1, <1>4, <2>2, <2>3
    <2> QED
      BY <2>1, <2>4, <2>5
  <1>6. ASSUME NEW n, n # m PROVE Open(n)' = Open(n)
    <2>1. (\E j \in k .. Len(kids[top]) : kids[top][j] = n)
            <=> \E j \in k + 1 .. Len(kids[top]) : kids[top][j] = n
      BY <1>m, <1>1, <1>4, <1>6
    <2> QED
      BY <1>0, <1>3, <2>1 DEF Open
  <1>7. /\ need[m] = Cardinality(Open(m))
        /\ Cardinality(Open(m)') = need[m] - 1
        /\ need[m] - 1 \in Nat
        /\ need[m] = 1 <=> Open(m)' = {}
    <2>1. IsFiniteSet(Open(m)) /\ Cardinality(Open(m)) \in Nat
      BY OpenIsFinite DEF IInv
    <2>2. need[m] = Cardinality(Open(m))
      BY <1>1 DEF IInv, NeedCountsOpen
    <2>3. /\ IsFiniteSet(Open(m) \ {top})
          /\ Cardinality(Open(m) \ {top}) = Cardinality(Open(m)) - 1
      BY <1>5, <2>1, FS_RemoveElement
    <2>4. Cardinality(Open(m) \ {top}) \in Nat
      BY <2>3, FS_CardinalityType
    <2>5. Cardinality(Open(m) \ {top}) = 0 <=> Open(m) \ {top} = {}
      BY <2>3, FS_EmptySet
    <2> QED
      BY <1>5, <2>1, <2>2, <2>3, <2>4, <2>5
  <1>8. m \notin visited /\ m \notin Waiting /\ Ready(m) /\ m \notin Range(queue)
    <2>1. m \notin visited
      BY <1>1, <1>5, GraphFacts DEF IInv, SeedIsVisited
    <2>2. m \notin Waiting
      BY <1>5 DEF Waiting
    <2>3. Ready(m)
      BY <1>1 DEF Ready
    <2> QED
      BY <2>1, <2>2, <2>3 DEF IInv, QueueIsWaiting
  <1>9. /\ queue' \in Seq(Node) /\ IsInjective(queue')
        /\ Range(queue') = IF need[m] = 1 THEN Range(queue) \cup {m} ELSE Range(queue)
    <2>1. queue \in Seq(Node) /\ IsInjective(queue)
      BY DEF IInv, TypeOK, QueueIsWaiting
    <2>2. /\ Append(queue, m) \in Seq(Node) /\ IsInjective(Append(queue, m))
          /\ Range(Append(queue, m)) = Range(queue) \cup {m}
      BY <1>1, <1>8, <2>1, AppendNew
    <2> QED
      BY <1>0, <2>1, <2>2
  <1>10. /\ need' \in [Node -> Nat] /\ need'[m] = need[m] - 1
         /\ \A n \in Node \ {m} : need'[n] = need[n]
    BY <1>0, <1>1, <1>7 DEF IInv, TypeOK
  <1>11. TypeOK'
    <2>1. k + 1 \in 1 .. Len(kids[top]) + 1
      BY <1>1, <1>4
    <2>2. var' \subseteq Node
      BY <1>0, <1>1 DEF IInv, TypeOK
    <2> QED
      BY <1>0, <1>1, <1>9, <1>10, <2>1, <2>2 DEF IInv, TypeOK
  <1>12. NeedCountsOpen'
    BY <1>0, <1>6, <1>7, <1>10 DEF IInv, NeedCountsOpen
  <1>13. QueueIsWaiting'
    <2>1. \A n \in Node \ {m} : n \in Waiting' <=> n \in Waiting
      BY <1>0, <1>3, <1>6 DEF Waiting
    <2>2. m \in Waiting' <=> need[m] = 1
      BY <1>0, <1>1, <1>3, <1>7, <1>8 DEF Waiting
    <2>3. Waiting \subseteq Node /\ Waiting' \subseteq Node
      BY <1>0 DEF Waiting
    <2>4. Waiting' = IF need[m] = 1 THEN Waiting \cup {m} ELSE Waiting
      <3>1. CASE need[m] = 1
        <4>1. m \in Node /\ m \in Waiting'
          BY <1>1, <2>2, <3>1
        <4> QED
          BY <2>1, <2>3, <3>1, <4>1
      <3>2. CASE need[m] # 1
        <4>1. m \notin Waiting /\ m \notin Waiting'
          BY <1>8, <2>2, <3>2
        <4> QED
          BY <2>1, <2>3, <3>2, <4>1
      <3> QED
        BY <3>1, <3>2
    <2> QED
      BY <1>9, <2>4 DEF IInv, QueueIsWaiting
  <1>14. SeedIsVisited'
    BY <1>0, <1>3, <1>5, <1>6 DEF IInv, SeedIsVisited
  <1>15. UsersFirst' /\ OncePerNode'
    BY <1>0, <1>3 DEF IInv, UsersFirst, OncePerNode
  <1>16. CodeIsSeed'
    BY <1>0 DEF IInv, CodeIsSeed
  <1> QED
    BY <1>2, <1>11, <1>12, <1>13, <1>14, <1>15, <1>16 DEF IInv

\* The statement of a node is added after those of all its users.
LEMMA EmitStep ==
  ASSUME IInv, Emit
  PROVE  IInv'
  <1> USE DEF IInv
  <1>0. /\ top # 0 /\ top' = 0
        /\ k = Len(kids[top]) + 1
        /\ seed' = IF top \in iterate THEN seed ELSE Append(seed, top)
        /\ visited' = visited \cup {top}
        /\ kids' = kids /\ root' = root /\ iterate' = iterate
        /\ need' = need /\ queue' = queue /\ var' = var
        /\ k' = k /\ code' = code
        /\ Node' = Node
    BY DEF Emit, graph, Node
  <1> USE GraphFacts, <1>0
  <1>1. top \in Node /\ top \notin visited
    BY DEF TypeOK, SeedIsVisited
  <1>2. Graph'
    BY DEF Graph, Node, Kids, Uses
  <1>3. \A n : Uses(n)' = Uses(n) /\ (Ready(n)' <=> Ready(n))
    BY DEF Uses, Kids, Ready
  <1>4. ASSUME NEW n PROVE Open(n)' = Open(n)
    <2>1. top \notin Open(n)
      BY <1>1 DEF Open
    <2>2. Open(n)' = Uses(n) \ (visited \cup {top})
      BY <1>3 DEF Open
    <2> QED
      BY <2>1, <2>2 DEF Open
  <1>5. /\ seed' \in Seq(Node)
        /\ Range(seed') = (visited \cup {top}) \ iterate
        /\ IsInjective(seed')
    <2>1. seed \in Seq(Node) /\ IsInjective(seed) /\ top \notin Range(seed)
      BY <1>1 DEF TypeOK, OncePerNode, SeedIsVisited
    <2>2. CASE top \in iterate
      BY <2>1, <2>2 DEF SeedIsVisited
    <2>3. CASE top \notin iterate
      BY <1>1, <2>1, <2>3, AppendNew DEF SeedIsVisited
    <2> QED
      BY <2>2, <2>3
  <1>6. TypeOK'
    BY <1>1, <1>5 DEF TypeOK
  <1>7. NeedCountsOpen'
    BY <1>4 DEF NeedCountsOpen
  <1>8. QueueIsWaiting'
    BY <1>3, <1>4 DEF QueueIsWaiting, Waiting
  <1>9. SeedIsVisited'
    <2>1. \A m \in visited \cup {top} : Ready(m)' /\ Open(m)' = {}
      BY <1>1, <1>3, <1>4 DEF TypeOK, SeedIsVisited
    <2>2. 0 \notin visited \cup {top}
      BY DEF TypeOK
    <2> QED
      BY <1>5, <2>1, <2>2 DEF SeedIsVisited
  <1>10. UsersFirst'
    <2>1. CASE top \in iterate
      BY <1>3, <2>1 DEF UsersFirst
    <2>2. CASE top \notin iterate
      <3>1. /\ seed' = Append(seed, top)
            /\ Len(seed) \in Nat
            /\ DOMAIN seed = 1 .. Len(seed)
            /\ DOMAIN seed' = 1 .. Len(seed) + 1
            /\ \A b \in 1 .. Len(seed) : seed'[b] = seed[b]
            /\ seed'[Len(seed) + 1] = top
        BY <1>1, <2>2, AppendNew DEF TypeOK
      <3>2. ASSUME NEW n \in Uses(top) PROVE \E a \in 1 .. Len(seed) : seed[a] = n
        <4>1. Open(top) = {} /\ n # top
          BY <1>1 DEF SeedIsVisited
        <4>2. n \in visited \ iterate
          BY <4>1 DEF Open
        <4> QED
          BY <3>1, <4>2 DEF SeedIsVisited, Range
      <3>3. ASSUME NEW b \in DOMAIN seed', NEW n \in Uses(seed'[b])
            PROVE  \E a \in 1 .. b - 1 : seed'[a] = n
        <4>1. CASE b \in DOMAIN seed
          <5>1. PICK a \in 1 .. b - 1 : seed[a] = n
            BY <3>1, <3>3, <4>1 DEF UsersFirst
          <5>2. a \in 1 .. Len(seed)
            BY <3>1, <4>1
          <5> QED
            BY <3>1, <5>1, <5>2
        <4>2. CASE b = Len(seed) + 1
          <5>1. PICK a \in 1 .. Len(seed) : seed[a] = n
            BY <3>1, <3>2, <3>3, <4>2
          <5> QED
            BY <3>1, <4>2, <5>1
        <4> QED
          BY <3>1, <4>1, <4>2
      <3> QED
        BY <1>3, <3>3 DEF UsersFirst
    <2> QED
      BY <2>1, <2>2
  <1>11. OncePerNode'
    BY <1>5 DEF OncePerNode
  <1>12. CodeIsSeed'
    BY DEF CodeIsSeed
  <1> QED
    BY <1>2, <1>6, <1>7, <1>8, <1>9, <1>10, <1>11, <1>12
\* The list is turned around once, when nothing is waiting any more.
LEMMA TurnAroundStep ==
  ASSUME IInv, TurnAround
  PROVE  IInv'
  <1>0. /\ top = 0 /\ queue = <<>> /\ code' = Reverse(seed)
        /\ kids' = kids /\ root' = root /\ iterate' = iterate
        /\ need' = need /\ queue' = queue /\ var' = var /\ top' = top
        /\ k' = k /\ visited' = visited /\ seed' = seed
        /\ Node' = Node
    BY DEF TurnAround, graph, Node
  <1>1. \A m : Kids(m)' = Kids(m) /\ Uses(m)' = Uses(m)
    BY <1>0 DEF Kids, Uses
  <1>2. \A m : (Ready(m)' <=> Ready(m)) /\ Open(m)' = Open(m)
    BY <1>0, <1>1 DEF Ready, Open
  <1>3. Graph'
    BY <1>0, <1>1 DEF IInv, Graph
  <1>4. TypeOK' /\ NeedCountsOpen' /\ OncePerNode'
    BY <1>0, <1>2 DEF IInv, TypeOK, NeedCountsOpen, OncePerNode
  <1>5. QueueIsWaiting' /\ SeedIsVisited'
    BY <1>0, <1>2 DEF IInv, QueueIsWaiting, Waiting, SeedIsVisited
  <1>6. UsersFirst'
    BY <1>0, <1>1 DEF IInv, UsersFirst
  <1>7. CodeIsSeed'
    BY <1>0 DEF CodeIsSeed
  <1> QED
    BY <1>3, <1>4, <1>5, <1>6, <1>7 DEF IInv

\* A step that changes nothing keeps the invariant.
LEMMA StutterStep ==
  ASSUME IInv, UNCHANGED vars
  PROVE  IInv'
  <1>0. /\ kids' = kids /\ root' = root /\ iterate' = iterate
        /\ need' = need /\ queue' = queue /\ var' = var /\ top' = top
        /\ k' = k /\ visited' = visited /\ seed' = seed /\ code' = code
        /\ Node' = Node
    BY DEF vars, graph, Node
  <1>1. \A m : Kids(m)' = Kids(m) /\ Uses(m)' = Uses(m)
    BY <1>0 DEF Kids, Uses
  <1>2. \A m : (Ready(m)' <=> Ready(m)) /\ Open(m)' = Open(m)
    BY <1>0, <1>1 DEF Ready, Open
  <1>3. Graph'
    BY <1>0, <1>1 DEF IInv, Graph
  <1>4. TypeOK' /\ NeedCountsOpen' /\ OncePerNode' /\ CodeIsSeed'
    BY <1>0, <1>2 DEF IInv, TypeOK, NeedCountsOpen, OncePerNode, CodeIsSeed
  <1>5. QueueIsWaiting' /\ SeedIsVisited'
    BY <1>0, <1>2 DEF IInv, QueueIsWaiting, Waiting, SeedIsVisited
  <1>6. UsersFirst'
    BY <1>0, <1>1 DEF IInv, UsersFirst
  <1> QED
    BY <1>3, <1>4, <1>5, <1>6 DEF IInv

\* The inductive invariant is one.
THEOREM Invariance == Spec => []IInv
  <1>1. ASSUME IInv, [Next]_vars PROVE IInv'
    BY <1>1, PopStep, FindStep, EmitStep, TurnAroundStep, StutterStep DEF Next
  <1> QED
    BY <1>1, InitIInv, PTL DEF Spec

\* The state has its types.
THEOREM TypeCorrect == Spec => []TypeOK
  <1>1. IInv => TypeOK
    BY DEF IInv
  <1> QED
    BY <1>1, Invariance, PTL

\* For every graph, an operand is computed before every statement that
\* uses it.
THEOREM DefinedBeforeUse == Spec => []UsersFirst
  <1>1. IInv => UsersFirst
    BY DEF IInv
  <1> QED
    BY <1>1, Invariance, PTL

\* For every graph, no node is computed twice.
THEOREM NoneTwice == Spec => []OncePerNode
  <1>1. IInv => OncePerNode
    BY DEF IInv
  <1> QED
    BY <1>1, Invariance, PTL

-----------------------------------------------------------------------------
(***************************************************************************)
(* Nothing is missing from the list returned.                              *)
(***************************************************************************)
\* Turning a list around keeps its elements.
LEMMA ReverseKeepsRange ==
  ASSUME NEW S, NEW s \in Seq(S)
  PROVE  Range(Reverse(s)) = Range(s)
  <1>1. /\ Len(s) \in Nat /\ DOMAIN s = 1 .. Len(s)
        /\ DOMAIN Reverse(s) = 1 .. Len(s)
        /\ \A p \in 1 .. Len(s) : Reverse(s)[p] = s[Len(s) - p + 1]
    BY DEF Reverse
  <1>2. ASSUME NEW p \in 1 .. Len(s)
        PROVE  /\ Len(s) - p + 1 \in 1 .. Len(s)
               /\ Len(s) - (Len(s) - p + 1) + 1 = p
    BY <1>1
  <1>3. Range(Reverse(s)) \subseteq Range(s)
    BY <1>1, <1>2 DEF Range
  <1>4. ASSUME NEW p \in 1 .. Len(s) PROVE s[p] \in Range(Reverse(s))
    <2>1. Reverse(s)[Len(s) - p + 1] = s[p]
      BY <1>1, <1>2
    <2> QED
      BY <1>1, <1>2, <2>1 DEF Range
  <1> QED
    BY <1>1, <1>3, <1>4 DEF Range

\* Of a set of nodes, one is the youngest.
LEMMA Youngest ==
  ASSUME NEW len \in Nat, NEW T \in SUBSET (1 .. len), T # {}
  PROVE  \E n \in T : \A p \in T : p <= n
  <1> DEFINE D == {len - n : n \in T}
  <1>1. D \in SUBSET Nat /\ D # {}
    <2>1. \A n \in T : n \in 1 .. len
      OBVIOUS
    <2>2. \A n \in T : len - n \in Nat
      BY <2>1
    <2> QED
      BY <2>2
  <1> HIDE DEF D
  <1>2. PICK d \in D : \A e \in D : d <= e
    <2> DEFINE Less == {ss \in Nat \X Nat : ss[1] < ss[2]}
    <2>1. IsWellFoundedOn(Less, Nat)
      BY NatLessThanWellFounded DEF OpToRel
    <2>2. \A d, e \in Nat : <<e, d>> \in Less <=> e < d
      OBVIOUS
    <2> HIDE DEF Less
    <2>3. \E d \in D : \A e \in D : <<e, d>> \notin Less
      BY <1>1, <2>1, WFMin
    <2>4. PICK d \in D : \A e \in D : <<e, d>> \notin Less
      BY <2>3
    <2>5. \A e \in D : e \in Nat /\ d \in Nat /\ ~(e < d)
      BY <1>1, <2>2, <2>4
    <2> QED
      BY <2>5
  <1>3. PICK n \in T : d = len - n
    BY <1>2 DEF D
  <1>4. \A p \in T : len - n <= len - p
    BY <1>2, <1>3 DEF D
  <1> QED
    BY <1>4

\* When nothing waits and nothing is being worked off, everything has been:
\* the youngest node left out would have a use to come by a younger one.
LEMMA DrainedMeansDone ==
  ASSUME IInv, top = 0, queue = <<>>, NEW n \in Node, Ready(n)
  PROVE  n \in visited
  <1> DEFINE Left == {m \in Node : Ready(m) /\ m \notin visited}
  <1> SUFFICES ASSUME Left # {} PROVE FALSE
    OBVIOUS
  <1>1. PICK m \in Left : \A p \in Left : p <= m
    <2>1. Len(kids) \in Nat /\ Left \in SUBSET (1 .. Len(kids))
      BY GraphFacts DEF IInv
    <2> HIDE DEF Left
    <2> QED
      BY <2>1, Youngest
  <1>2. Waiting = {}
    BY DEF IInv, QueueIsWaiting, Range
  <1>3. Open(m) # {} /\ m # 0
    BY <1>2, GraphFacts DEF IInv, Waiting
  <1>4. PICK p \in Uses(m) : p \notin visited
    BY <1>3 DEF Open
  <1>5. p \in Node /\ m < p
    BY <1>4, GraphFacts DEF IInv
  <1>6. Ready(p)
    <2>1. kids[p] # <<>>
      BY <1>4, GraphFacts DEF IInv
    <2> QED
      BY <1>5, <2>1 DEF IInv, Graph, Ready
  <1>7. p \in Left
    BY <1>4, <1>5, <1>6
  <1> QED
    BY <1>1, <1>5, <1>7, GraphFacts DEF IInv

\* For every graph, the list returned computes every operand.
THEOREM Complete == Spec => []NothingMissing
  <1>1. IInv => NothingMissing
    <2> SUFFICES ASSUME IInv, code # <<>>
                 PROVE  Range(code) = {n \in Node \ iterate : Ready(n)}
      BY DEF NothingMissing, Ready
    <2>1. /\ code = Reverse(seed) /\ top = 0 /\ queue = <<>>
          /\ seed \in Seq(Node) /\ visited \subseteq Node
          /\ Range(seed) = visited \ iterate
          /\ 0 \notin Node
      BY GraphFacts DEF IInv, CodeIsSeed, TypeOK, SeedIsVisited
    <2>2. Range(code) = visited \ iterate
      BY <2>1, ReverseKeepsRange
    <2>3. \A n \in visited : Ready(n)
      BY <2>1 DEF IInv, SeedIsVisited
    <2>4. \A n \in Node : Ready(n) => n \in visited
      BY <2>1, DrainedMeansDone
    <2> QED
      BY <2>1, <2>2, <2>3, <2>4
  <1> QED
    BY <1>1, Invariance, PTL
=============================================================================
