---------------------------- MODULE ParserProofs ----------------------------
(***************************************************************************)
(* The parser, for every set of names and every text: the tree it returns  *)
(* is the statement that was read, need_node_ counts its uses, the sets of *)
(* names are those of the tree, and the tree is one generate_code_seed can *)
(* work off (the theorems of CodeSeedProofs hold of it).                   *)
(***************************************************************************)
EXTENDS Parser, FiniteSetTheorems, SequenceTheorems, WellFoundedInduction, TLAPS

-----------------------------------------------------------------------------
(***************************************************************************)
(* Sequences                                                               *)
(***************************************************************************)
\* Induction over the naturals, for a set instead of a predicate.
LEMMA SetInduction ==
  ASSUME NEW S, 0 \in S, \A n \in Nat : n \in S => n + 1 \in S
  PROVE  \A n \in Nat : n \in S
  <1> DEFINE D == {n \in Nat : n \notin S}
  <1> SUFFICES ASSUME D # {} PROVE FALSE
    OBVIOUS
  <1> DEFINE Less == OpToRel(<, Nat)
  <1>1. IsWellFoundedOn(Less, Nat)
    BY NatLessThanWellFounded DEF OpToRel
  <1>2. \A d, e \in Nat : <<e, d>> \in Less <=> e < d
    BY DEF OpToRel
  <1>3. PICK d \in D : \A e \in D : <<e, d>> \notin Less
    <2> HIDE DEF Less
    <2> QED
      BY <1>1, WFMin
  <1>4. d \in Nat /\ d \notin S /\ d # 0
    OBVIOUS
  <1>5. d - 1 \in Nat /\ (d - 1) + 1 = d
    BY <1>4
  <1>6. d - 1 \in D
    BY <1>4, <1>5
  <1>7. d - 1 < d
    BY <1>4
  <1> HIDE DEF Less
  <1> QED
    BY <1>2, <1>3, <1>4, <1>5, <1>6, <1>7

\* A suffix, place by place.
LEMMA SuffixPlaces ==
  ASSUME NEW T, NEW s \in Seq(T), NEW t \in Seq(T)
  PROVE  IsSuffix(s, t) <=>
           /\ Len(s) <= Len(t)
           /\ \A p \in 1 .. Len(s) : t[Len(t) - Len(s) + p] = s[p]
  <1> DEFINE rs == Reverse(s)
             rt == Reverse(t)
  <1>1. /\ rs \in Seq(T) /\ Len(rs) = Len(s)
        /\ rt \in Seq(T) /\ Len(rt) = Len(t)
        /\ \A p \in 1 .. Len(s) : rs[p] = s[Len(s) - p + 1]
        /\ \A p \in 1 .. Len(t) : rt[p] = t[Len(t) - p + 1]
    BY DEF Reverse
  <1>2. IsSuffix(s, t) <=>
          Len(s) <= Len(t) /\ SubSeq(rs, 1, Len(s)) = SubSeq(rt, 1, Len(s))
    BY <1>1 DEF IsSuffix, IsPrefix
  <1>3. ASSUME Len(s) <= Len(t)
        PROVE  SubSeq(rs, 1, Len(s)) = SubSeq(rt, 1, Len(s))
                 <=> \A p \in 1 .. Len(s) : rt[p] = rs[p]
    <2> HIDE DEF rs, rt
    <2>1. /\ SubSeq(rs, 1, Len(s)) \in Seq(T) /\ Len(SubSeq(rs, 1, Len(s))) = Len(s)
          /\ SubSeq(rt, 1, Len(s)) \in Seq(T) /\ Len(SubSeq(rt, 1, Len(s))) = Len(s)
      BY <1>1, <1>3
    <2>2. \A p \in 1 .. Len(s) : /\ SubSeq(rs, 1, Len(s))[p] = rs[p]
                                 /\ SubSeq(rt, 1, Len(s))[p] = rt[p]
      BY <1>1, <1>3
    <2>3. ASSUME \A p \in 1 .. Len(s) : rt[p] = rs[p]
          PROVE  SubSeq(rs, 1, Len(s)) = SubSeq(rt, 1, Len(s))
      BY <2>1, <2>2, <2>3, SeqEqual
    <2> QED
      BY <2>2, <2>3
  <1>4. ASSUME Len(s) <= Len(t)
        PROVE  (\A p \in 1 .. Len(s) : rt[p] = rs[p])
                 <=> \A p \in 1 .. Len(s) : t[Len(t) - Len(s) + p] = s[p]
    <2> HIDE DEF rs, rt
    <2>1. ASSUME \A p \in 1 .. Len(s) : rt[p] = rs[p], NEW p \in 1 .. Len(s)
          PROVE  t[Len(t) - Len(s) + p] = s[p]
      <3>1. Len(s) - p + 1 \in 1 .. Len(s) /\ Len(s) - p + 1 \in 1 .. Len(t)
        BY <1>4
      <3>2. rt[Len(s) - p + 1] = t[Len(t) - (Len(s) - p + 1) + 1]
        BY <1>1, <3>1
      <3>3. rs[Len(s) - p + 1] = s[Len(s) - (Len(s) - p + 1) + 1]
        BY <1>1, <3>1
      <3>4. /\ Len(t) - (Len(s) - p + 1) + 1 = Len(t) - Len(s) + p
            /\ Len(s) - (Len(s) - p + 1) + 1 = p
        OBVIOUS
      <3> QED
        BY <2>1, <3>1, <3>2, <3>3, <3>4
    <2>2. ASSUME \A p \in 1 .. Len(s) : t[Len(t) - Len(s) + p] = s[p], NEW p \in 1 .. Len(s)
          PROVE  rt[p] = rs[p]
      <3>1. Len(s) - p + 1 \in 1 .. Len(s) /\ p \in 1 .. Len(t)
        BY <1>4
      <3>2. t[Len(t) - Len(s) + (Len(s) - p + 1)] = s[Len(s) - p + 1]
        BY <2>2, <3>1
      <3>3. Len(t) - Len(s) + (Len(s) - p + 1) = Len(t) - p + 1
        OBVIOUS
      <3> QED
        BY <1>1, <3>1, <3>2, <3>3
    <2> QED
      BY <2>1, <2>2
  <1> QED
    BY <1>2, <1>3, <1>4

\* A suffix stays one when both grow alike.
LEMMA SuffixGrows ==
  ASSUME NEW T, NEW s \in Seq(T), NEW t \in Seq(T), NEW u \in Seq(T), IsSuffix(s, t)
  PROVE  IsSuffix(s \o u, t \o u)
  <1>1. /\ Len(s) <= Len(t)
        /\ \A p \in 1 .. Len(s) : t[Len(t) - Len(s) + p] = s[p]
    BY SuffixPlaces
  <1>2. /\ s \o u \in Seq(T) /\ t \o u \in Seq(T)
        /\ Len(s \o u) = Len(s) + Len(u) /\ Len(t \o u) = Len(t) + Len(u)
    OBVIOUS
  <1>3. ASSUME NEW p \in 1 .. Len(s \o u)
        PROVE  (t \o u)[Len(t \o u) - Len(s \o u) + p] = (s \o u)[p]
    <2>1. Len(t \o u) - Len(s \o u) + p = Len(t) - Len(s) + p
      BY <1>2
    <2>2. CASE p <= Len(s)
      BY <1>1, <1>2, <2>1, <2>2
    <2>3. CASE p > Len(s)
      BY <1>1, <1>2, <2>1, <2>3
    <2>4. p <= Len(s) \/ p > Len(s)
      OBVIOUS
    <2> QED
      BY <2>2, <2>3, <2>4
  <1>4. Len(s \o u) <= Len(t \o u)
    BY <1>1, <1>2
  <1> QED
    BY <1>2, <1>3, <1>4, SuffixPlaces

\* The last token of a text.
LEMMA LastOfText ==
  ASSUME NEW T, NEW s \in Seq(T), s # <<>>
  PROVE  /\ Front(s) \in Seq(T)
         /\ Last(s) \in T
         /\ s = Front(s) \o <<Last(s)>>
         /\ s = Append(Front(s), Last(s))
         /\ Len(Front(s)) = Len(s) - 1
         /\ \A p \in 1 .. Len(s) - 1 : Front(s)[p] = s[p]
  BY DEF Front, Last

\* A text with one more token: what is before it, and the token itself.
LEMMA AppendOfText ==
  ASSUME NEW T, NEW s \in Seq(T), NEW e \in T
  PROVE  /\ Append(s, e) \in Seq(T)
         /\ Append(s, e) # <<>>
         /\ Append(s, e) = s \o <<e>>
         /\ Front(Append(s, e)) = s
         /\ Last(Append(s, e)) = e
  BY DEF Front, Last

-----------------------------------------------------------------------------
(***************************************************************************)
(* Recursive functions                                                     *)
(***************************************************************************)
\* What the recursion of Written asks of the function it defines.
Writes(f, pieces, n) ==
  f = [p \in 0 .. n |-> IF p = 0 THEN <<"Colon">> ELSE f[p - 1] \o pieces[p]]

WrittenUpTo(pieces) == CHOOSE f : Writes(f, pieces, Len(pieces))

\* The function that Written defines by recursion exists.
LEMMA WritesExists ==
  ASSUME NEW pieces, Len(pieces) \in Nat
  PROVE  Writes(WrittenUpTo(pieces), pieces, Len(pieces))
  <1> DEFINE S == {n \in Nat : \E f : Writes(f, pieces, n)}
  <1>1. 0 \in S
    <2>1. Writes([p \in 0 .. 0 |-> <<"Colon">>], pieces, 0)
      BY DEF Writes
    <2> QED
      BY <2>1
  <1>2. ASSUME NEW n \in Nat, n \in S
        PROVE  n + 1 \in S
    <2>1. PICK f : Writes(f, pieces, n)
      BY <1>2
    <2> DEFINE g == [p \in 0 .. n + 1 |-> IF p = n + 1 THEN f[n] \o pieces[p] ELSE f[p]]
    <2>2. \A p \in 0 .. n : f[p] = IF p = 0 THEN <<"Colon">> ELSE f[p - 1] \o pieces[p]
      BY <2>1 DEF Writes
    <2>3. ASSUME NEW p \in 0 .. n + 1
          PROVE  g[p] = IF p = 0 THEN <<"Colon">> ELSE g[p - 1] \o pieces[p]
      <3>1. CASE p = n + 1
        <4>1. g[n] = f[n] /\ p - 1 = n /\ p # 0
          BY <3>1
        <4> QED
          BY <3>1, <4>1
      <3>2. CASE p # n + 1
        <4>1. p \in 0 .. n /\ g[p] = f[p]
          BY <3>2
        <4>2. p # 0 => g[p - 1] = f[p - 1]
          BY <4>1
        <4> QED
          BY <2>2, <4>1, <4>2
      <3> QED
        BY <3>1, <3>2
    <2>4. g = [p \in 0 .. n + 1 |-> g[p]]
      OBVIOUS
    <2> HIDE DEF g
    <2>5. Writes(g, pieces, n + 1)
      BY <2>3, <2>4 DEF Writes
    <2> QED
      BY <2>5
  <1>3. \A n \in Nat : n \in S
    <2> HIDE DEF S
    <2> QED
      BY <1>1, <1>2, SetInduction
  <1>4. \E f : Writes(f, pieces, Len(pieces))
    BY <1>3
  <1> QED
    BY <1>4 DEF WrittenUpTo

\* Written puts the pieces behind "Colon", one after another.
LEMMA WrittenFacts ==
  ASSUME NEW T, "Colon" \in T, NEW pieces \in Seq(Seq(T))
  PROVE  /\ WrittenUpTo(pieces)[0] = <<"Colon">>
         /\ \A p \in 1 .. Len(pieces) :
              WrittenUpTo(pieces)[p] = WrittenUpTo(pieces)[p - 1] \o pieces[p]
         /\ Written(pieces) = WrittenUpTo(pieces)[Len(pieces)]
         /\ \A p \in 0 .. Len(pieces) : WrittenUpTo(pieces)[p] \in Seq(T)
  <1> DEFINE f == WrittenUpTo(pieces)
  <1>1. Len(pieces) \in Nat
    OBVIOUS
  <1>2. Writes(f, pieces, Len(pieces))
    BY <1>1, WritesExists
  <1>3. Written(pieces) = f[Len(pieces)]
    BY DEF Written, WrittenUpTo, Writes
  <1> HIDE DEF f
  <1>4. \A p \in 0 .. Len(pieces) :
          f[p] = IF p = 0 THEN <<"Colon">> ELSE f[p - 1] \o pieces[p]
    BY <1>2 DEF Writes
  <1> DEFINE S == {n \in Nat : n \in 0 .. Len(pieces) => f[n] \in Seq(T)}
  <1>5. 0 \in S
    <2>1. f[0] = <<"Colon">>
      BY <1>1, <1>4
    <2>2. <<"Colon">> \in Seq(T)
      OBVIOUS
    <2> QED
      BY <2>1, <2>2
  <1>6. ASSUME NEW n \in Nat, n \in S
        PROVE  n + 1 \in S
    <2> SUFFICES ASSUME n + 1 \in 0 .. Len(pieces) PROVE f[n + 1] \in Seq(T)
      OBVIOUS
    <2>1. n \in 0 .. Len(pieces) /\ n + 1 # 0 /\ (n + 1) - 1 = n
      OBVIOUS
    <2>2. f[n] \in Seq(T) /\ f[n + 1] = f[n] \o pieces[n + 1]
      BY <1>4, <1>6, <2>1
    <2>3. pieces[n + 1] \in Seq(T)
      OBVIOUS
    <2> QED
      BY <2>2, <2>3
  <1>7. \A n \in Nat : n \in S
    <2> HIDE DEF S
    <2> QED
      BY <1>5, <1>6, SetInduction
  <1>8. \A p \in 0 .. Len(pieces) : f[p] \in Seq(T)
    BY <1>7
  <1>9. /\ f[0] = <<"Colon">>
        /\ \A p \in 1 .. Len(pieces) : f[p] = f[p - 1] \o pieces[p]
    <2>1. 0 \in 0 .. Len(pieces) /\ \A p \in 1 .. Len(pieces) : p \in 0 .. Len(pieces) /\ p # 0
      BY <1>1
    <2> QED
      BY <1>4, <2>1
  <1> QED
    BY <1>3, <1>8, <1>9 DEF f

\* A call adds its piece, and its return takes it away.
LEMMA WrittenAppend ==
  ASSUME NEW T, "Colon" \in T, NEW pieces \in Seq(Seq(T)), NEW piece \in Seq(T)
  PROVE  /\ Written(pieces) \in Seq(T)
         /\ Written(Append(pieces, piece)) = Written(pieces) \o piece
  <1> DEFINE more == Append(pieces, piece)
             f == WrittenUpTo(pieces)
             g == WrittenUpTo(more)
             last == Len(pieces)
  <1>1. /\ more \in Seq(Seq(T))
        /\ Len(more) = last + 1
        /\ \A p \in 1 .. last : more[p] = pieces[p]
        /\ more[last + 1] = piece
    OBVIOUS
  <1>2. /\ f[0] = <<"Colon">>
        /\ \A p \in 1 .. last : f[p] = f[p - 1] \o pieces[p]
        /\ Written(pieces) = f[last]
        /\ f[last] \in Seq(T)
    <2>1. last \in 0 .. Len(pieces)
      OBVIOUS
    <2> QED
      BY <2>1, WrittenFacts
  <1> HIDE DEF more
  <1>3. /\ g[0] = <<"Colon">>
        /\ \A p \in 1 .. Len(more) : g[p] = g[p - 1] \o more[p]
        /\ Written(more) = g[Len(more)]
    BY <1>1, WrittenFacts
  <1> HIDE DEF f, g
  <1> DEFINE S == {n \in Nat : n \in 0 .. last => f[n] = g[n]}
  <1>4. 0 \in S
    BY <1>2, <1>3
  <1>5. ASSUME NEW n \in Nat, n \in S
        PROVE  n + 1 \in S
    <2> SUFFICES ASSUME n + 1 \in 0 .. last PROVE f[n + 1] = g[n + 1]
      OBVIOUS
    <2>1. /\ n \in 0 .. last /\ n + 1 \in 1 .. last /\ n + 1 \in 1 .. Len(more)
          /\ (n + 1) - 1 = n
      BY <1>1
    <2> QED
      BY <1>1, <1>2, <1>3, <1>5, <2>1
  <1>6. \A n \in Nat : n \in S
    <2> HIDE DEF S
    <2> QED
      BY <1>4, <1>5, SetInduction
  <1>7. last \in Nat /\ f[last] = g[last]
    BY <1>6
  <1>8. last + 1 \in 1 .. Len(more) /\ (last + 1) - 1 = last
    BY <1>1, <1>7
  <1> QED
    BY <1>1, <1>2, <1>3, <1>7, <1>8 DEF more

\* Without a call under way only the colon has been read.
LEMMA WrittenEmpty == Written(<<>>) = <<"Colon">>
  <1>1. <<>> \in Seq(Seq({"Colon"})) /\ Len(<<>>) = 0
    OBVIOUS
  <1> QED
    BY <1>1, WrittenFacts

\* The words of a tree, in the same way.
WordsFor(h, n, f) == f = [m \in 1 .. n |-> NodeWords(h[m], f)]

\* Kinds of nodes are distinct, and words looks only at older nodes.
LEMMA SameWords ==
  ASSUME NEW h, NEW n \in Nat, WellMade(h, n), h[n].kind \in NodeKind,
         h[n].kids \in Seq(Nat),
         NEW f, NEW g, \A m \in 1 .. n - 1 : f[m] = g[m]
  PROVE  NodeWords(h[n], f) = NodeWords(h[n], g)
  <1> DEFINE x == h[n]
  <1>1. CASE x.kind \in {"var", "load", "scatter", "store"}
    BY <1>1 DEF NodeWords, Binary
  <1>2. CASE x.kind \in Binary \cup {"gather"}
    <2>1. Len(x.kids) = 2 /\ Range(x.kids) \subseteq 1 .. n - 1
      BY <1>2 DEF WellMade, Arity, Binary
    <2>2. x.kids[1] \in Range(x.kids) /\ x.kids[2] \in Range(x.kids)
      BY <2>1 DEF Range
    <2>3. f[x.kids[1]] = g[x.kids[1]] /\ f[x.kids[2]] = g[x.kids[2]]
      BY <2>1, <2>2
    <2> QED
      BY <1>2, <2>3 DEF NodeWords, Binary
  <1> QED
    BY <1>1, <1>2 DEF NodeKind, Binary

Heaps == {h \in Seq(NodeRecord) : \A n \in DOMAIN h : WellMade(h, n)}

\* What a member of a heap is known to be.
LEMMA NodeOfHeap ==
  ASSUME NEW h \in Heaps
  PROVE  /\ Len(h) \in Nat
         /\ DOMAIN h = 1 .. Len(h)
         /\ \A n \in 1 .. Len(h) :
              /\ WellMade(h, n)
              /\ h[n] \in NodeRecord
              /\ h[n].kind \in NodeKind
              /\ h[n].kids \in Seq(Nat)
  <1>1. h \in Seq(NodeRecord) /\ \A n \in DOMAIN h : WellMade(h, n)
    BY DEF Heaps
  <1>2. DOMAIN h = 1 .. Len(h) /\ Len(h) \in Nat
    BY <1>1
  <1>3. \A n \in 1 .. Len(h) : h[n] \in NodeRecord
    BY <1>1
  <1>4. \A x \in NodeRecord : x.kind \in NodeKind /\ x.kids \in Seq(Nat)
    BY DEF NodeRecord
  <1> QED
    BY <1>1, <1>2, <1>3, <1>4

\* The words of the nodes are those their recursion asks for: an operand is
\* older than its node.
LEMMA WordsExist ==
  ASSUME NEW h \in Heaps
  PROVE  WordsFor(h, Len(h), WordsOf(h))
  <1> DEFINE S == {n \in Nat : n <= Len(h) => \E f : WordsFor(h, n, f)}
  <1>1. 0 \in S
    <2>1. WordsFor(h, 0, [m \in 1 .. 0 |-> <<>>])
      BY DEF WordsFor
    <2> QED
      BY <2>1
  <1>2. ASSUME NEW n \in Nat, n \in S
        PROVE  n + 1 \in S
    <2> SUFFICES ASSUME n + 1 <= Len(h)
                 PROVE  \E f : WordsFor(h, n + 1, f)
      OBVIOUS
    <2>1. PICK f : WordsFor(h, n, f)
      BY <1>2, NodeOfHeap
    <2> DEFINE g == [m \in 1 .. n + 1 |-> NodeWords(h[m], f)]
    <2>2. \A m \in 1 .. n : f[m] = NodeWords(h[m], f)
      BY <2>1 DEF WordsFor
    <2>3. \A m \in 1 .. n : f[m] = g[m]
      BY <2>2
    <2>4. ASSUME NEW m \in 1 .. n + 1
          PROVE  g[m] = NodeWords(h[m], g)
      <3>1. g[m] = NodeWords(h[m], f)
        OBVIOUS
      <3> HIDE DEF g
      <3>2. m \in 1 .. Len(h) /\ m \in Nat /\ \A l \in 1 .. m - 1 : f[l] = g[l]
        BY <2>3, NodeOfHeap
      <3>3. NodeWords(h[m], f) = NodeWords(h[m], g)
        BY <3>2, NodeOfHeap, SameWords
      <3> QED
        BY <3>1, <3>3
    <2>5. g = [m \in 1 .. n + 1 |-> g[m]]
      OBVIOUS
    <2> HIDE DEF g
    <2>6. WordsFor(h, n + 1, g)
      BY <2>4, <2>5 DEF WordsFor
    <2> QED
      BY <2>6
  <1>3. \A n \in Nat : n \in S
    <2> HIDE DEF S
    <2> QED
      BY <1>1, <1>2, SetInduction
  <1>4. \E f : WordsFor(h, Len(h), f)
    BY <1>3, NodeOfHeap
  <1>5. WordsOf(h) = CHOOSE f : WordsFor(h, Len(h), f)
    BY NodeOfHeap DEF WordsOf, WordsFor
  <1> QED
    BY <1>4, <1>5

\* The words of a node are made of those of its operands.
LEMMA WordsAre ==
  ASSUME NEW h \in Heaps, NEW n \in 1 .. Len(h)
  PROVE  WordsOf(h)[n] = NodeWords(h[n], WordsOf(h))
  <1> DEFINE f == WordsOf(h)
  <1>1. WordsFor(h, Len(h), f)
    BY WordsExist
  <1> HIDE DEF f
  <1>2. f[n] = NodeWords(h[n], f)
    BY <1>1 DEF WordsFor
  <1> QED
    BY <1>2 DEF f

\* What is added to a heap leaves the words of its nodes as they were.
Continues(l, h) == Len(h) <= Len(l) /\ \A n \in 1 .. Len(h) : l[n] = h[n]

\* Nodes made later do not change the words of those made before.
LEMMA WordsKept ==
  ASSUME NEW h \in Heaps, NEW l \in Heaps, Continues(l, h)
  PROVE  \A n \in 1 .. Len(h) : WordsOf(l)[n] = WordsOf(h)[n]
  <1> DEFINE f == WordsOf(h)
             g == WordsOf(l)
             S == {n \in Nat : \A m \in 1 .. n : m <= Len(h) => f[m] = g[m]}
  <1>1. Len(h) \in Nat /\ Len(l) \in Nat
    BY DEF Heaps
  <1>2. \A n \in 1 .. Len(h) : f[n] = NodeWords(h[n], f)
    BY WordsAre
  <1>3. \A n \in 1 .. Len(h) : g[n] = NodeWords(h[n], g)
    <2> SUFFICES ASSUME NEW n \in 1 .. Len(h) PROVE g[n] = NodeWords(h[n], g)
      OBVIOUS
    <2>1. n \in 1 .. Len(l) /\ l[n] = h[n]
      BY <1>1 DEF Continues
    <2>2. g[n] = NodeWords(l[n], g)
      BY <2>1, WordsAre
    <2> QED
      BY <2>1, <2>2
  <1> HIDE DEF f, g
  <1>4. 0 \in S
    OBVIOUS
  <1>5. ASSUME NEW n \in Nat, n \in S
        PROVE  n + 1 \in S
    <2> SUFFICES ASSUME n + 1 <= Len(h) PROVE f[n + 1] = g[n + 1]
      BY <1>1, <1>5
    <2>1. n + 1 \in 1 .. Len(h) /\ \A m \in 1 .. (n + 1) - 1 : f[m] = g[m]
      BY <1>1, <1>5
    <2>2. /\ n + 1 \in Nat /\ WellMade(h, n + 1)
          /\ h[n + 1].kind \in NodeKind /\ h[n + 1].kids \in Seq(Nat)
      BY <2>1, NodeOfHeap
    <2>3. NodeWords(h[n + 1], f) = NodeWords(h[n + 1], g)
      BY <2>1, <2>2, SameWords
    <2> QED
      BY <1>2, <1>3, <2>1, <2>3
  <1>6. \A n \in Nat : n \in S
    <2> HIDE DEF S
    <2> QED
      BY <1>4, <1>5, SetInduction
  <1> QED
    BY <1>6 DEF f, g

\* In particular one more node does not.
LEMMA WordsStay ==
  ASSUME NEW h \in Heaps, NEW x, Append(h, x) \in Heaps
  PROVE  \A n \in 1 .. Len(h) : WordsOf(Append(h, x))[n] = WordsOf(h)[n]
  <1> DEFINE l == Append(h, x)
  <1>1. /\ Len(h) \in Nat /\ Len(l) = Len(h) + 1
        /\ \A n \in 1 .. Len(h) : l[n] = h[n]
    BY DEF Heaps
  <1>2. Continues(l, h) /\ l \in Heaps
    BY <1>1 DEF Continues
  <1> HIDE DEF l
  <1>3. \A n \in 1 .. Len(h) : WordsOf(l)[n] = WordsOf(h)[n]
    BY <1>2, WordsKept
  <1> QED
    BY <1>3 DEF l

-----------------------------------------------------------------------------
(***************************************************************************)
(* Nodes                                                                   *)
(***************************************************************************)
\* A node that may be added to a heap.
Fits(h, x) ==
  /\ x \in NodeRecord
  /\ Len(x.kids) = Arity(x.kind)
  /\ Range(x.kids) \subseteq 1 .. Len(h)
  /\ IsInjective(x.kids)
  /\ x.kind \in {"load", "gather", "scatter", "store"} =>
       h[x.kids[1]].kind = "var" /\ x.addr_name = h[x.kids[1]].node_name
  /\ x.kind \in {"gather", "scatter"} =>
       h[x.kids[2]].kind = "load" /\ x.index_name = h[x.kids[2]].addr_name

\* The operands of a node, as places of its list.
LEMMA KidsInRange ==
  ASSUME NEW x, x.kids \in Seq(Nat), NEW p \in 1 .. Len(x.kids)
  PROVE  x.kids[p] \in Range(x.kids)
  BY DEF Range

\* How many operands a node of each kind has.
LEMMA ArityOfKinds ==
  /\ Arity("var") = 0
  /\ Arity("load") = 1
  /\ Arity("gather") = 2
  /\ Arity("store") = 2
  /\ Arity("scatter") = 3
  /\ \A kind \in Binary : Arity(kind) = 2
  BY DEF Arity, Binary

\* A node whose operands are there and differ keeps the nodes well made.
LEMMA AddedNode ==
  ASSUME NEW h \in Heaps, NEW x, Fits(h, x)
  PROVE  /\ Append(h, x) \in Heaps
         /\ Len(Append(h, x)) = Len(h) + 1
         /\ \A n \in 1 .. Len(h) : Append(h, x)[n] = h[n]
         /\ Append(h, x)[Len(h) + 1] = x
  <1> DEFINE more == Append(h, x)
  <1>1. h \in Seq(NodeRecord) /\ x \in NodeRecord
    BY DEF Heaps, Fits
  <1>2. /\ more \in Seq(NodeRecord)
        /\ Len(more) = Len(h) + 1
        /\ DOMAIN more = 1 .. Len(h) + 1
        /\ \A n \in 1 .. Len(h) : more[n] = h[n]
        /\ more[Len(h) + 1] = x
    BY <1>1
  <1> HIDE DEF more
  <1>3. ASSUME NEW n \in 1 .. Len(h) + 1, NEW z, z = more[n], z.kids \in Seq(Nat),
               Len(z.kids) = Arity(z.kind), Range(z.kids) \subseteq 1 .. n - 1,
               IsInjective(z.kids), z.kind \in NodeKind,
               z.kind \in {"load", "gather", "scatter", "store"} =>
                 h[z.kids[1]].kind = "var" /\ z.addr_name = h[z.kids[1]].node_name,
               z.kind \in {"gather", "scatter"} =>
                 h[z.kids[2]].kind = "load" /\ z.index_name = h[z.kids[2]].addr_name
        PROVE  WellMade(more, n)
    <2>1. ASSUME NEW p \in 1 .. Len(z.kids)
          PROVE  more[z.kids[p]] = h[z.kids[p]]
      <3>1. z.kids[p] \in 1 .. n - 1
        BY <1>3, KidsInRange
      <3>2. z.kids[p] \in 1 .. Len(h)
        BY <3>1, NodeOfHeap
      <3> QED
        BY <1>2, <3>2
    <2>2. z.kind \in {"load", "gather", "scatter", "store"} => 1 \in 1 .. Len(z.kids)
      BY <1>3, ArityOfKinds
    <2>3. z.kind \in {"gather", "scatter"} => 2 \in 1 .. Len(z.kids)
      BY <1>3, ArityOfKinds
    <2> QED
      BY <1>3, <2>1, <2>2, <2>3 DEF WellMade
  <1>4. ASSUME NEW n \in 1 .. Len(h)
        PROVE  WellMade(more, n)
    <2>1. /\ WellMade(h, n) /\ more[n] = h[n] /\ h[n].kids \in Seq(Nat)
          /\ h[n].kind \in NodeKind /\ n \in 1 .. Len(h) + 1
      BY <1>2, NodeOfHeap
    <2> QED
      BY <1>3, <2>1 DEF WellMade
  <1>5. WellMade(more, Len(h) + 1)
    <2>1. /\ Len(h) + 1 \in 1 .. Len(h) + 1 /\ (Len(h) + 1) - 1 = Len(h)
          /\ x.kids \in Seq(Nat) /\ x.kind \in NodeKind
      <3>1. Len(h) \in Nat
        BY NodeOfHeap
      <3>2. x.kids \in Seq(Nat) /\ x.kind \in NodeKind
        BY <1>1 DEF NodeRecord
      <3> QED
        BY <3>1, <3>2
    <2> QED
      BY <1>2, <1>3, <2>1 DEF Fits
  <1>6. \A n \in DOMAIN more : WellMade(more, n)
    BY <1>2, <1>4, <1>5, NodeOfHeap
  <1>7. more \in Heaps
    BY <1>2, <1>6 DEF Heaps
  <1> QED
    BY <1>2, <1>7 DEF more

\* Only younger nodes use a node, and an added node uses its operands.
LEMMA UsesAreYounger ==
  ASSUME NEW h \in Heaps, NEW m, NEW n \in UsesIn(h, m)
  PROVE  n \in 1 .. Len(h) /\ m \in 1 .. n - 1
  BY NodeOfHeap DEF UsesIn, WellMade

\* A new node is one more use of each of its operands, and has none itself.
LEMMA AddedUses ==
  ASSUME NEW h \in Heaps, NEW x, Fits(h, x), NEW m
  PROVE  UsesIn(Append(h, x), m) =
           UsesIn(h, m) \cup (IF m \in Range(x.kids) THEN {Len(h) + 1} ELSE {})
  <1>1. /\ DOMAIN Append(h, x) = 1 .. Len(h) + 1 /\ DOMAIN h = 1 .. Len(h) /\ Len(h) \in Nat
        /\ \A n \in 1 .. Len(h) : Append(h, x)[n] = h[n]
        /\ Append(h, x)[Len(h) + 1] = x
    BY AddedNode, NodeOfHeap
  <1>2. 1 .. Len(h) + 1 = (1 .. Len(h)) \cup {Len(h) + 1}
    BY <1>1
  <1> QED
    BY <1>1, <1>2 DEF UsesIn

\* A node has finitely many uses.
LEMMA UsesFinite ==
  ASSUME NEW h \in Heaps, NEW m
  PROVE  IsFiniteSet(UsesIn(h, m)) /\ Cardinality(UsesIn(h, m)) \in Nat
  <1>1. UsesIn(h, m) \in SUBSET (1 .. Len(h)) /\ Len(h) \in Nat
    BY NodeOfHeap DEF UsesIn
  <1>2. IsFiniteSet(1 .. Len(h))
    BY <1>1, FS_Interval
  <1> QED
    BY <1>1, <1>2, FS_Subset, FS_CardinalityType

\* What one node adds to the count of a use.
LEMMA AddedCount ==
  ASSUME NEW h \in Heaps, NEW x, Fits(h, x), NEW m
  PROVE  Cardinality(UsesIn(Append(h, x), m)) =
           Cardinality(UsesIn(h, m)) + (IF m \in Range(x.kids) THEN 1 ELSE 0)
  <1>1. Len(h) + 1 \notin UsesIn(h, m)
    BY NodeOfHeap DEF UsesIn
  <1>2. IsFiniteSet(UsesIn(h, m)) /\ Cardinality(UsesIn(h, m)) \in Nat
    BY UsesFinite
  <1>3. Cardinality(UsesIn(h, m) \cup {Len(h) + 1}) = Cardinality(UsesIn(h, m)) + 1
    BY <1>1, <1>2, FS_AddElement
  <1>4. UsesIn(Append(h, x), m) =
          UsesIn(h, m) \cup (IF m \in Range(x.kids) THEN {Len(h) + 1} ELSE {})
    BY AddedUses
  <1>5. CASE m \in Range(x.kids)
    <2>1. UsesIn(Append(h, x), m) = UsesIn(h, m) \cup {Len(h) + 1}
      BY <1>4, <1>5
    <2> QED
      BY <1>3, <1>5, <2>1
  <1>6. CASE m \notin Range(x.kids)
    <2>1. UsesIn(Append(h, x), m) = UsesIn(h, m)
      BY <1>4, <1>6
    <2> QED
      BY <1>2, <1>6, <2>1
  <1> QED
    BY <1>5, <1>6

\* The constructors count: one node, and the three of the statement.
Counted(h, count) ==
  count = [m \in DOMAIN h |-> Cardinality(UsesIn(h, m))]

\* Counting up need_node_ of the operands of a new node keeps the counts.
LEMMA CountOne ==
  ASSUME NEW h \in Heaps, NEW x, Fits(h, x), NEW count, Counted(h, count)
  PROVE  Counted(Append(h, x),
                 [m \in 1 .. Len(h) + 1 |->
                    (IF m <= Len(h) THEN count[m] ELSE 0)
                      + (IF m \in Range(x.kids) THEN 1 ELSE 0)])
  <1>1. DOMAIN Append(h, x) = 1 .. Len(h) + 1 /\ Len(h) \in Nat /\ DOMAIN h = 1 .. Len(h)
    BY AddedNode, NodeOfHeap
  <1>2. ASSUME NEW m \in 1 .. Len(h) + 1
        PROVE  (IF m <= Len(h) THEN count[m] ELSE 0) = Cardinality(UsesIn(h, m))
    <2>1. CASE m <= Len(h)
      <3>1. m \in 1 .. Len(h)
        BY <2>1
      <3> QED
        BY <1>1, <2>1, <3>1 DEF Counted
    <2>2. CASE m > Len(h)
      <3>1. UsesIn(h, m) = {}
        BY <1>1, <2>2, UsesAreYounger
      <3> QED
        BY <1>1, <2>2, <3>1, FS_EmptySet
    <2> QED
      BY <1>1, <2>1, <2>2
  <1>3. ASSUME NEW m \in 1 .. Len(h) + 1
        PROVE  (IF m <= Len(h) THEN count[m] ELSE 0) + (IF m \in Range(x.kids) THEN 1 ELSE 0)
                 = Cardinality(UsesIn(Append(h, x), m))
    BY <1>2, AddedCount
  <1> QED
    BY <1>1, <1>3 DEF Counted

\* One node made: the heap is longer by it, and uses are counted.
LEMMA MakeOne ==
  ASSUME heap \in Heaps, NEW x, Fits(heap, x), Counted(heap, need), Make(<<x>>)
  PROVE  heap' = Append(heap, x) /\ Counted(heap', need')
  <1>1. heap' = Append(heap, x)
    <2>1. heap \in Seq(NodeRecord) /\ x \in NodeRecord
      BY DEF Heaps, Fits
    <2> QED
      BY <2>1 DEF Make
  <1>2. ASSUME NEW m
        PROVE  Cardinality({n \in DOMAIN <<x>> : m \in Range(<<x>>[n].kids)})
                 = IF m \in Range(x.kids) THEN 1 ELSE 0
    <2>1. CASE m \in Range(x.kids)
      <3>1. {n \in DOMAIN <<x>> : m \in Range(<<x>>[n].kids)} = {1}
        BY <2>1
      <3> QED
        BY <2>1, <3>1, FS_Singleton
    <2>2. CASE m \notin Range(x.kids)
      <3>1. {n \in DOMAIN <<x>> : m \in Range(<<x>>[n].kids)} = {}
        BY <2>2
      <3> QED
        BY <2>2, <3>1, FS_EmptySet
    <2> QED
      BY <2>1, <2>2
  <1>3. need' = [m \in 1 .. Len(heap) + 1 |->
                   (IF m <= Len(heap) THEN need[m] ELSE 0)
                     + Cardinality({n \in DOMAIN <<x>> : m \in Range(<<x>>[n].kids)})]
    BY DEF Make
  <1>4. need' = [m \in 1 .. Len(heap) + 1 |->
                   (IF m <= Len(heap) THEN need[m] ELSE 0)
                     + (IF m \in Range(x.kids) THEN 1 ELSE 0)]
    BY <1>2, <1>3
  <1> QED
    BY <1>1, <1>4, CountOne

\* A subset of three members, counted.
LEMMA CountThree ==
  ASSUME NEW S \in SUBSET {1, 2, 3}
  PROVE  Cardinality(S) = (IF 1 \in S THEN 1 ELSE 0) + (IF 2 \in S THEN 1 ELSE 0)
                            + (IF 3 \in S THEN 1 ELSE 0)
  <1> DEFINE A == S \cap {1}
             B == S \cap {1, 2}
  <1>1. IsFiniteSet(A) /\ Cardinality(A) = IF 1 \in S THEN 1 ELSE 0
    <2>1. CASE 1 \in S
      <3>1. A = {1}
        BY <2>1
      <3> QED
        BY <2>1, <3>1, FS_Singleton
    <2>2. CASE 1 \notin S
      <3>1. A = {}
        BY <2>2
      <3> QED
        BY <2>2, <3>1, FS_EmptySet
    <2> QED
      BY <2>1, <2>2
  <1>2. IsFiniteSet(B) /\ Cardinality(B) = Cardinality(A) + IF 2 \in S THEN 1 ELSE 0
    <2>1. CASE 2 \in S
      <3>1. B = A \cup {2} /\ 2 \notin A
        BY <2>1
      <3> HIDE DEF A, B
      <3> QED
        BY <1>1, <2>1, <3>1, FS_AddElement
    <2>2. CASE 2 \notin S
      <3>1. B = A
        BY <2>2
      <3> HIDE DEF A, B
      <3> QED
        BY <1>1, <2>2, <3>1
    <2> QED
      BY <2>1, <2>2
  <1>3. Cardinality(S) = Cardinality(B) + IF 3 \in S THEN 1 ELSE 0
    <2>1. CASE 3 \in S
      <3>1. \A e \in S : e = 1 \/ e = 2 \/ e = 3
        OBVIOUS
      <3>2. 3 \notin B
        OBVIOUS
      <3>3. \A e \in S : e \in B \/ e = 3
        BY <3>1
      <3>4. B \cup {3} \subseteq S
        BY <2>1
      <3>5. S = B \cup {3}
        BY <3>3, <3>4
      <3> HIDE DEF A, B
      <3> QED
        BY <1>2, <2>1, <3>2, <3>5, FS_AddElement
    <2>2. CASE 3 \notin S
      <3>1. B = S
        BY <2>2
      <3> HIDE DEF A, B
      <3> QED
        BY <1>1, <1>2, <2>2, <3>1
    <2> QED
      BY <2>1, <2>2
  <1> HIDE DEF A, B
  <1> QED
    BY <1>1, <1>2, <1>3

\* Three nodes made one after another, as at the end of ParseExpr.
LEMMA MakeThree ==
  ASSUME heap \in Heaps, NEW x, NEW y, NEW z, Counted(heap, need),
         Fits(heap, x), Fits(Append(heap, x), y), Fits(Append(Append(heap, x), y), z),
         Make(<<x, y, z>>)
  PROVE  /\ heap' = Append(Append(Append(heap, x), y), z)
         /\ Counted(heap', need')
  <1> DEFINE h1 == Append(heap, x)
             h2 == Append(h1, y)
             h3 == Append(h2, z)
             one(m, w) == IF m \in Range(w.kids) THEN 1 ELSE 0
             len == Len(heap)
             c1 == [m \in 1 .. len + 1 |-> (IF m <= len THEN need[m] ELSE 0) + one(m, x)]
             c2 == [m \in 1 .. Len(h1) + 1 |-> (IF m <= Len(h1) THEN c1[m] ELSE 0) + one(m, y)]
             c3 == [m \in 1 .. Len(h2) + 1 |-> (IF m <= Len(h2) THEN c2[m] ELSE 0) + one(m, z)]
             uses(m) == {n \in DOMAIN <<x, y, z>> : m \in Range(<<x, y, z>>[n].kids)}
  <1>1. /\ h1 \in Heaps /\ Len(h1) = len + 1 /\ Counted(h1, c1)
    BY AddedNode, CountOne
  <1>2. /\ h2 \in Heaps /\ Len(h2) = Len(h1) + 1 /\ Counted(h2, c2)
    <2>1. Fits(h1, y)
      OBVIOUS
    <2> HIDE DEF h1, c1
    <2>2. h2 \in Heaps /\ Len(h2) = Len(h1) + 1
      BY <1>1, <2>1, AddedNode
    <2>3. Counted(h2, c2)
      BY <1>1, <2>1, CountOne
    <2> QED
      BY <2>2, <2>3
  <1>3. /\ h3 \in Heaps /\ Len(h3) = Len(h2) + 1 /\ Counted(h3, c3)
    <2>1. Fits(h2, z)
      OBVIOUS
    <2> HIDE DEF h2, c2
    <2>2. h3 \in Heaps /\ Len(h3) = Len(h2) + 1
      BY <1>2, <2>1, AddedNode
    <2>3. Counted(h3, c3)
      BY <1>2, <2>1, CountOne
    <2> QED
      BY <2>2, <2>3
  <1>4. heap' = h3
    <2>1. heap \in Seq(NodeRecord) /\ x \in NodeRecord /\ y \in NodeRecord /\ z \in NodeRecord
      BY DEF Heaps, Fits
    <2>2. heap \o <<x, y, z>> = Append(Append(Append(heap, x), y), z)
      BY <2>1
    <2> QED
      BY <2>2 DEF Make
  <1>5. ASSUME NEW m
        PROVE  Cardinality(uses(m)) = one(m, x) + one(m, y) + one(m, z)
    <2>1. uses(m) \in SUBSET {1, 2, 3}
      OBVIOUS
    <2>2. /\ 1 \in uses(m) <=> m \in Range(x.kids)
          /\ 2 \in uses(m) <=> m \in Range(y.kids)
          /\ 3 \in uses(m) <=> m \in Range(z.kids)
      OBVIOUS
    <2> HIDE DEF uses
    <2> QED
      BY <2>1, <2>2, CountThree
  <1>6. len \in Nat
    BY NodeOfHeap
  <1>7. need' = [m \in 1 .. len + 3 |->
                   (IF m <= len THEN need[m] ELSE 0) + Cardinality(uses(m))]
    BY DEF Make
  <1>8. /\ Range(x.kids) \subseteq 1 .. len
        /\ Range(y.kids) \subseteq 1 .. len + 1
    BY <1>1 DEF Fits
  <1>9. ASSUME NEW m \in 1 .. len
        PROVE  need[m] \in Nat
    <2>1. need[m] = Cardinality(UsesIn(heap, m))
      BY NodeOfHeap DEF Counted
    <2> QED
      BY <2>1, UsesFinite
  <1>10. ASSUME NEW m \in 1 .. len + 3
         PROVE  (IF m <= len THEN need[m] ELSE 0) + Cardinality(uses(m)) = c3[m]
    <2> DEFINE n0 == IF m <= len THEN need[m] ELSE 0
               a == one(m, x)
               b == one(m, y)
               c == one(m, z)
    <2>1. n0 \in Nat /\ a \in Nat /\ b \in Nat /\ c \in Nat
      <3>1. m <= len => m \in 1 .. len
        BY <1>6
      <3> QED
        BY <1>6, <1>9, <3>1
    <2>2. /\ m > len => a = 0
          /\ m > len + 1 => b = 0
      BY <1>6, <1>8
    <2>3. c3[m] = (IF m <= len + 2 THEN c2[m] ELSE 0) + c
      BY <1>1, <1>2, <1>6
    <2>4. m <= len + 2 => c2[m] = (IF m <= len + 1 THEN c1[m] ELSE 0) + b
      BY <1>1, <1>6
    <2>5. m <= len + 1 => c1[m] = n0 + a
      BY <1>6
    <2>6. m > len => n0 = 0
      BY <1>6
    <2>7. Cardinality(uses(m)) = a + b + c
      BY <1>5
    <2> HIDE DEF n0, a, b, c, c1, c2, c3, uses
    <2>8. c3[m] = n0 + (a + b + c)
      BY <1>6, <2>1, <2>2, <2>3, <2>4, <2>5, <2>6
    <2> QED
      BY <2>7, <2>8 DEF n0
  <1>11. need' = c3
    <2>1. DOMAIN c3 = 1 .. len + 3 /\ c3 = [m \in 1 .. len + 3 |-> c3[m]]
      BY <1>1, <1>2, <1>6
    <2> HIDE DEF c3, uses
    <2> QED
      BY <1>7, <1>10, <2>1
  <1> QED
    BY <1>3, <1>4, <1>11

\* Operands written out.
LEMMA OneKid ==
  ASSUME NEW a \in Nat
  PROVE  /\ <<a>> \in Seq(Nat) /\ Len(<<a>>) = 1 /\ <<a>>[1] = a /\ <<a>> # <<>>
         /\ Range(<<a>>) = {a} /\ IsInjective(<<a>>)
  BY DEF Range, IsInjective

\* The operands of a node that has two, e.g. a gather.
LEMMA TwoKids ==
  ASSUME NEW a \in Nat, NEW b \in Nat, a # b
  PROVE  /\ <<a, b>> \in Seq(Nat) /\ Len(<<a, b>>) = 2
         /\ <<a, b>>[1] = a /\ <<a, b>>[2] = b /\ <<a, b>> # <<>>
         /\ Range(<<a, b>>) = {a, b} /\ IsInjective(<<a, b>>)
  BY DEF Range, IsInjective

\* The operands of a scatter.
LEMMA ThreeKids ==
  ASSUME NEW a \in Nat, NEW b \in Nat, NEW c \in Nat, a # b, a # c, b # c
  PROVE  /\ <<a, b, c>> \in Seq(Nat) /\ Len(<<a, b, c>>) = 3
         /\ <<a, b, c>>[1] = a /\ <<a, b, c>>[2] = b /\ <<a, b, c>>[3] = c /\ <<a, b, c>> # <<>>
         /\ Range(<<a, b, c>>) = {a, b, c} /\ IsInjective(<<a, b, c>>)
  BY DEF Range, IsInjective

\* A variable has no operands.
LEMMA NoKids ==
  /\ <<>> \in Seq(Nat) /\ Len(<<>>) = 0
  /\ Range(<<>>) = {} /\ IsInjective(<<>>)
  BY DEF Range, IsInjective

-----------------------------------------------------------------------------
(***************************************************************************)
(* The nodes that wait, and the sets of names, when a node is added        *)
(***************************************************************************)
\* W are nodes nobody uses, and all that are none of W and no leaves are used.
Waits(h, W) ==
  /\ \A m \in W : UsesIn(h, m) = {}
  /\ \A n \in 1 .. Len(h) : UsesIn(h, n) = {} /\ h[n].kids # <<>> => n \in W

\* Who waits after a node was made: the node, and those before it that it did
\* not take as operands.
LEMMA WaitsAdded ==
  ASSUME NEW h \in Heaps, NEW x, Fits(h, x), NEW W \in SUBSET (1 .. Len(h)), Waits(h, W),
         NEW V, Len(h) + 1 \in V, V \subseteq (W \ Range(x.kids)) \cup {Len(h) + 1},
         \A n \in W \ Range(x.kids) : n \in V \/ h[n].kids = <<>>
  PROVE  Waits(Append(h, x), V)
  <1>1. /\ Len(Append(h, x)) = Len(h) + 1 /\ Len(h) \in Nat
        /\ \A n \in 1 .. Len(h) : Append(h, x)[n] = h[n]
    BY AddedNode, NodeOfHeap
  <1>2. Range(x.kids) \subseteq 1 .. Len(h)
    BY DEF Fits
  <1>3. ASSUME NEW m \in V
        PROVE  UsesIn(Append(h, x), m) = {}
    <2>1. m \notin Range(x.kids)
      BY <1>1, <1>2
    <2>2. UsesIn(h, m) = {}
      <3>1. CASE m \in W
        BY <3>1 DEF Waits
      <3>2. CASE m = Len(h) + 1
        BY <1>1, <3>2, UsesAreYounger
      <3> QED
        BY <3>1, <3>2
    <2> QED
      BY <2>1, <2>2, AddedUses
  <1>4. ASSUME NEW n \in 1 .. Len(h) + 1, UsesIn(Append(h, x), n) = {},
               Append(h, x)[n].kids # <<>>
        PROVE  n \in V
    <2>1. CASE n = Len(h) + 1
      BY <2>1
    <2>2. CASE n # Len(h) + 1
      <3>1. n \in 1 .. Len(h) /\ Append(h, x)[n] = h[n]
        BY <1>1, <2>2
      <3>2. UsesIn(h, n) = {} /\ n \notin Range(x.kids)
        BY <1>4, AddedUses
      <3>3. n \in W
        BY <1>4, <3>1, <3>2 DEF Waits
      <3> QED
        BY <1>4, <3>1, <3>2, <3>3
    <2> QED
      BY <2>1, <2>2
  <1> QED
    BY <1>1, <1>3, <1>4 DEF Waits

\* The sets of a tree, for any heap h and any output node a.
ArrayIn(h, n) == h[h[n].kids[1]].node_name
GathersIn(h, a) == {n \in DOMAIN h : h[n].kind = "gather" /\ h[n].kids[1] # a}
IndicesIn(h) == {h[n].kids[2] : n \in {m \in DOMAIN h : h[m].kind \in {"gather", "scatter"}}}
LoadsIn(h, a) ==
  {n \in DOMAIN h : h[n].kind = "load" /\ h[n].kids[1] # a /\ n \notin IndicesIn(h)}

GatheredWith(h, a) == {ArrayIn(h, h[n].kids[2]) : n \in GathersIn(h, a)}
ScatteredWith(h) ==
  {ArrayIn(h, h[n].kids[2]) : n \in {m \in DOMAIN h : h[m].kind = "scatter"}}
LoadedFrom(h, a) == {ArrayIn(h, n) : n \in LoadsIn(h, a)}

\* The names that properties speak of, as functions of the heap.
LEMMA SetsOfTree ==
  /\ GatherIndices = GatheredWith(heap, addr)
  /\ ScatterIndices = ScatteredWith(heap)
  /\ Loaded = LoadedFrom(heap, addr)
  <1>1. GatherIndices = GatheredWith(heap, addr)
    BY DEF GatherIndices, GatheredWith, Inputs, OfKind, Array, ArrayIn, GathersIn, Node
  <1>2. ScatterIndices = ScatteredWith(heap)
    BY DEF ScatterIndices, ScatteredWith, Indices, OfKind, Array, ArrayIn, Node
  <1>3. Indices("gather") \cup Indices("scatter") = IndicesIn(heap)
    BY DEF Indices, IndicesIn, OfKind, Node
  <1>4. Inputs(OfKind("load")) \ (Indices("gather") \cup Indices("scatter"))
          = LoadsIn(heap, addr)
    BY <1>3 DEF Inputs, OfKind, LoadsIn, Node
  <1>5. Loaded = LoadedFrom(heap, addr)
    BY <1>4 DEF Loaded, LoadedFrom, Array, ArrayIn
  <1> QED
    BY <1>1, <1>2, <1>5

\* The index and the load an added node brings with it.
IndexOfNode(h, x) == IF x.kind \in {"gather", "scatter"} THEN {x.kids[2]} ELSE {}
GatherOfNode(h, x, a) == IF x.kind = "gather" /\ x.kids[1] # a THEN {Len(h) + 1} ELSE {}
LoadOfNode(h, x, a) == IF x.kind = "load" /\ x.kids[1] # a THEN {Len(h) + 1} ELSE {}
IndexedBy(h, x) == {h[n].addr_name : n \in IndexOfNode(h, x)}
LoadedBy(x, a) == IF x.kind = "load" /\ x.kids[1] # a THEN {x.addr_name} ELSE {}

\* What an added node changes in the sets of nodes: the array of a node that
\* was there stays the same.
LEMMA ArrayStays ==
  ASSUME NEW h \in Heaps, NEW x, Fits(h, x), NEW n \in 1 .. Len(h)
  PROVE  /\ h[n].kids # <<>> => ArrayIn(Append(h, x), n) = ArrayIn(h, n)
         /\ h[n].kind \in {"gather", "scatter"} =>
              /\ h[n].kids[2] \in 1 .. Len(h)
              /\ ArrayIn(h, h[n].kids[2]) = h[h[n].kids[2]].addr_name
              /\ ArrayIn(Append(h, x), h[n].kids[2]) = h[h[n].kids[2]].addr_name
         /\ h[n].kind = "load" =>
              /\ ArrayIn(h, n) = h[n].addr_name
              /\ ArrayIn(Append(h, x), n) = h[n].addr_name
  <1> DEFINE more == Append(h, x)
  <1>1. Len(h) \in Nat /\ \A m \in 1 .. Len(h) : more[m] = h[m]
    BY AddedNode, NodeOfHeap
  <1> HIDE DEF more
  <1>2. ASSUME NEW m \in 1 .. Len(h), NEW p \in 1 .. Len(h[m].kids)
        PROVE  h[m].kids[p] \in 1 .. Len(h)
    <2>1. WellMade(h, m) /\ h[m].kids \in Seq(Nat)
      BY NodeOfHeap
    <2>2. h[m].kids[p] \in 1 .. m - 1
      BY <2>1, KidsInRange DEF WellMade
    <2> QED
      BY <1>1, <2>2
  <1>3. ASSUME NEW m \in 1 .. Len(h), 1 \in 1 .. Len(h[m].kids)
        PROVE  ArrayIn(more, m) = ArrayIn(h, m)
    <2>1. h[m].kids[1] \in 1 .. Len(h)
      BY <1>2, <1>3
    <2> QED
      BY <1>1, <2>1 DEF ArrayIn
  <1>4. ASSUME NEW m \in 1 .. Len(h), h[m].kind = "load"
        PROVE  ArrayIn(h, m) = h[m].addr_name /\ ArrayIn(more, m) = h[m].addr_name
    <2>1. WellMade(h, m)
      BY NodeOfHeap
    <2>2. Len(h[m].kids) = 1 /\ h[m].addr_name = h[h[m].kids[1]].node_name
      BY <1>4, <2>1, ArityOfKinds DEF WellMade
    <2>3. 1 \in 1 .. Len(h[m].kids)
      BY <2>2
    <2>4. ArrayIn(h, m) = h[m].addr_name
      BY <2>2 DEF ArrayIn
    <2> QED
      BY <1>3, <2>3, <2>4
  <1>5. ASSUME h[n].kind \in {"gather", "scatter"}
        PROVE  2 \in 1 .. Len(h[n].kids) /\ h[h[n].kids[2]].kind = "load"
    <2>1. WellMade(h, n)
      BY NodeOfHeap
    <2>2. Len(h[n].kids) \in {2, 3}
      BY <1>5, <2>1, ArityOfKinds DEF WellMade
    <2>3. h[h[n].kids[2]].kind = "load"
      BY <1>5, <2>1 DEF WellMade
    <2> QED
      BY <2>2, <2>3
  <1>6. h[n].kids # <<>> => ArrayIn(more, n) = ArrayIn(h, n)
    <2>1. h[n].kids \in Seq(Nat)
      BY NodeOfHeap
    <2>2. h[n].kids # <<>> => 1 \in 1 .. Len(h[n].kids)
      BY <2>1
    <2> QED
      BY <1>3, <2>2
  <1>7. h[n].kind \in {"gather", "scatter"} =>
          /\ h[n].kids[2] \in 1 .. Len(h)
          /\ ArrayIn(h, h[n].kids[2]) = h[h[n].kids[2]].addr_name
          /\ ArrayIn(more, h[n].kids[2]) = h[h[n].kids[2]].addr_name
    BY <1>2, <1>4, <1>5
  <1> QED
    BY <1>4, <1>6, <1>7 DEF more

\* What is asked of the operands of an added node.
LEMMA OperandsOfNode ==
  ASSUME NEW h \in Heaps, NEW x, Fits(h, x)
  PROVE  /\ x.kids \in Seq(Nat)
         /\ IndexOfNode(h, x) \subseteq 1 .. Len(h)
         /\ \A n \in IndexOfNode(h, x) : h[n].kind = "load"
         /\ x.kind = "load" => x.kids[1] \in 1 .. Len(h) /\ x.addr_name = h[x.kids[1]].node_name
  <1>1. x.kids \in Seq(Nat) /\ Range(x.kids) \subseteq 1 .. Len(h)
    BY DEF Fits, NodeRecord
  <1>2. ASSUME x.kind \in {"gather", "scatter"}
        PROVE  x.kids[2] \in 1 .. Len(h) /\ h[x.kids[2]].kind = "load"
    <2>1. Len(x.kids) \in {2, 3} /\ h[x.kids[2]].kind = "load"
      BY <1>2, ArityOfKinds DEF Fits
    <2>2. 2 \in 1 .. Len(x.kids)
      BY <2>1
    <2> QED
      BY <1>1, <2>1, <2>2, KidsInRange
  <1>3. ASSUME x.kind = "load"
        PROVE  x.kids[1] \in 1 .. Len(h) /\ x.addr_name = h[x.kids[1]].node_name
    <2>1. Len(x.kids) = 1 /\ x.addr_name = h[x.kids[1]].node_name
      BY <1>3, ArityOfKinds DEF Fits
    <2>2. 1 \in 1 .. Len(x.kids)
      BY <2>1
    <2> QED
      BY <1>1, <2>1, <2>2, KidsInRange
  <1> QED
    BY <1>1, <1>2, <1>3 DEF IndexOfNode

\* How the gathers, the indices and the loads of a heap change with a node.
LEMMA NodesAdded ==
  ASSUME NEW h \in Heaps, NEW x, Fits(h, x), NEW a
  PROVE  /\ GathersIn(Append(h, x), a) = GathersIn(h, a) \cup GatherOfNode(h, x, a)
         /\ IndicesIn(Append(h, x)) = IndicesIn(h) \cup IndexOfNode(h, x)
         /\ IndicesIn(h) \subseteq 1 .. Len(h)
         /\ LoadsIn(Append(h, x), a) =
              (LoadsIn(h, a) \ IndexOfNode(h, x)) \cup LoadOfNode(h, x, a)
  <1> DEFINE more == Append(h, x)
             new == Len(h) + 1
             old == {m \in DOMAIN h : h[m].kind \in {"gather", "scatter"}}
  <1>1. /\ DOMAIN more = 1 .. new /\ DOMAIN h = 1 .. Len(h) /\ Len(h) \in Nat
        /\ \A n \in 1 .. Len(h) : more[n] = h[n]
        /\ more[new] = x
        /\ 1 .. new = (1 .. Len(h)) \cup {new} /\ new \notin 1 .. Len(h)
    BY AddedNode, NodeOfHeap
  <1>2. GatherOfNode(h, x, a) = IF x.kind = "gather" /\ x.kids[1] # a THEN {new} ELSE {}
    BY DEF GatherOfNode
  <1>3. LoadOfNode(h, x, a) = IF x.kind = "load" /\ x.kids[1] # a THEN {new} ELSE {}
    BY DEF LoadOfNode
  <1> HIDE DEF more, new
  <1>4. GathersIn(more, a) = GathersIn(h, a) \cup GatherOfNode(h, x, a)
    BY <1>1, <1>2 DEF GathersIn
  <1>5. IndicesIn(h) = {h[n].kids[2] : n \in old} /\ \A n \in old : n \in 1 .. Len(h)
    BY <1>1 DEF IndicesIn
  <1>6. IndicesIn(more) = IndicesIn(h) \cup IndexOfNode(h, x)
    <2>1. \A n \in old : more[n].kids[2] = h[n].kids[2]
      BY <1>1
    <2>2. CASE x.kind \in {"gather", "scatter"}
      <3>1. {m \in DOMAIN more : more[m].kind \in {"gather", "scatter"}} = old \cup {new}
        BY <1>1, <2>2
      <3>2. IndicesIn(more) = {more[n].kids[2] : n \in old \cup {new}}
        BY <3>1 DEF IndicesIn
      <3>3. IndexOfNode(h, x) = {more[new].kids[2]}
        BY <1>1, <2>2 DEF IndexOfNode
      <3> HIDE DEF old
      <3>4. {more[n].kids[2] : n \in old \cup {new}} = IndicesIn(h) \cup {more[new].kids[2]}
        BY <1>5, <2>1
      <3> QED
        BY <3>2, <3>3, <3>4
    <2>3. CASE x.kind \notin {"gather", "scatter"}
      <3>1. {m \in DOMAIN more : more[m].kind \in {"gather", "scatter"}} = old
        BY <1>1, <2>3
      <3>2. IndicesIn(more) = {more[n].kids[2] : n \in old}
        BY <3>1 DEF IndicesIn
      <3>3. IndexOfNode(h, x) = {}
        BY <2>3 DEF IndexOfNode
      <3> HIDE DEF old
      <3>4. {more[n].kids[2] : n \in old} = IndicesIn(h)
        BY <1>5, <2>1
      <3> QED
        BY <3>2, <3>3, <3>4
    <2> QED
      BY <2>2, <2>3
  <1>7. IndicesIn(h) \subseteq 1 .. Len(h)
    <2>1. \A n \in old : h[n].kind \in {"gather", "scatter"}
      OBVIOUS
    <2>2. \A n \in old : h[n].kids[2] \in 1 .. Len(h)
      BY <1>5, <2>1, ArrayStays
    <2> HIDE DEF old
    <2> QED
      BY <1>5, <2>2
  <1>8. LoadsIn(more, a) = (LoadsIn(h, a) \ IndexOfNode(h, x)) \cup LoadOfNode(h, x, a)
    <2>1. ASSUME NEW n \in 1 .. Len(h)
          PROVE  n \in LoadsIn(more, a) <=> n \in LoadsIn(h, a) \ IndexOfNode(h, x)
      BY <1>1, <1>6 DEF LoadsIn
    <2>2. new \in LoadsIn(more, a) <=> new \in LoadOfNode(h, x, a)
      <3>1. new \notin IndicesIn(more)
        BY <1>1, <1>6, <1>7, OperandsOfNode
      <3> QED
        BY <1>1, <1>3, <3>1 DEF LoadsIn
    <2>3. /\ LoadsIn(more, a) \subseteq 1 .. new
          /\ LoadsIn(h, a) \subseteq 1 .. Len(h)
          /\ LoadOfNode(h, x, a) \subseteq {new}
      BY <1>1, <1>3 DEF LoadsIn
    <2>4. ASSUME NEW n
          PROVE  n \in LoadsIn(more, a) <=>
                   n \in (LoadsIn(h, a) \ IndexOfNode(h, x)) \cup LoadOfNode(h, x, a)
      BY <1>1, <2>1, <2>2, <2>3
    <2> QED
      BY <2>4
  <1> QED
    BY <1>4, <1>6, <1>7, <1>8 DEF more

\* What an added node changes in the sets of names.
LEMMA SetsAdded ==
  ASSUME NEW h \in Heaps, NEW x, Fits(h, x), NEW a
  PROVE  /\ x.kind = "gather" /\ x.kids[1] # a =>
              GatheredWith(Append(h, x), a) = GatheredWith(h, a) \cup IndexedBy(h, x)
         /\ ~(x.kind = "gather" /\ x.kids[1] # a) =>
              GatheredWith(Append(h, x), a) = GatheredWith(h, a)
         /\ x.kind = "scatter" =>
              ScatteredWith(Append(h, x)) = ScatteredWith(h) \cup IndexedBy(h, x)
         /\ x.kind # "scatter" => ScatteredWith(Append(h, x)) = ScatteredWith(h)
         /\ LoadedFrom(Append(h, x), a) \subseteq LoadedFrom(h, a) \cup LoadedBy(x, a)
         /\ LoadedFrom(h, a) \cup LoadedBy(x, a)
              \subseteq LoadedFrom(Append(h, x), a) \cup IndexedBy(h, x)
  <1> DEFINE more == Append(h, x)
             new == Len(h) + 1
  <1>1. /\ DOMAIN more = 1 .. new /\ DOMAIN h = 1 .. Len(h) /\ Len(h) \in Nat
        /\ \A n \in 1 .. Len(h) : more[n] = h[n]
        /\ more[new] = x
        /\ 1 .. new = (1 .. Len(h)) \cup {new} /\ new \notin 1 .. Len(h)
        /\ more \in Heaps
    BY AddedNode, NodeOfHeap
  <1>2. /\ GathersIn(more, a) = GathersIn(h, a) \cup GatherOfNode(h, x, a)
        /\ IndicesIn(more) = IndicesIn(h) \cup IndexOfNode(h, x)
        /\ LoadsIn(more, a) = (LoadsIn(h, a) \ IndexOfNode(h, x)) \cup LoadOfNode(h, x, a)
    BY NodesAdded
  <1>3. ASSUME NEW n \in 1 .. Len(h)
        PROVE  /\ h[n].kind \in {"gather", "scatter"} =>
                    ArrayIn(more, more[n].kids[2]) = ArrayIn(h, h[n].kids[2])
               /\ h[n].kind = "load" =>
                    ArrayIn(more, n) = h[n].addr_name /\ ArrayIn(h, n) = h[n].addr_name
    BY <1>1, ArrayStays
  <1>4. ASSUME NEW n \in IndexOfNode(h, x)
        PROVE  /\ n \in 1 .. Len(h)
               /\ ArrayIn(more, n) = h[n].addr_name
               /\ ArrayIn(h, n) = h[n].addr_name
    BY <1>3, OperandsOfNode
  <1>5. x.kind = "load" => ArrayIn(more, new) = x.addr_name
    BY <1>1, OperandsOfNode DEF ArrayIn
  <1>6. GatherOfNode(h, x, a) = IF x.kind = "gather" /\ x.kids[1] # a THEN {new} ELSE {}
    BY DEF GatherOfNode
  <1>7. LoadOfNode(h, x, a) = IF x.kind = "load" /\ x.kids[1] # a THEN {new} ELSE {}
    BY DEF LoadOfNode
  <1>8. x.kind \in {"gather", "scatter"} =>
          /\ IndexOfNode(h, x) = {x.kids[2]}
          /\ IndexedBy(h, x) = {h[x.kids[2]].addr_name}
          /\ ArrayIn(more, more[new].kids[2]) = h[x.kids[2]].addr_name
    <2>1. x.kind \in {"gather", "scatter"} => IndexOfNode(h, x) = {x.kids[2]}
      BY DEF IndexOfNode
    <2> HIDE DEF more, new
    <2> QED
      BY <1>1, <1>4, <2>1 DEF IndexedBy
  <1> HIDE DEF more, new
  <1>9. GathersIn(h, a) \subseteq 1 .. Len(h) /\ \A n \in GathersIn(h, a) : h[n].kind = "gather"
    BY <1>1 DEF GathersIn
  <1>10. x.kind = "gather" /\ x.kids[1] # a =>
           GatheredWith(more, a) = GatheredWith(h, a) \cup IndexedBy(h, x)
    <2> SUFFICES ASSUME x.kind = "gather" /\ x.kids[1] # a
                 PROVE  GatheredWith(more, a) = GatheredWith(h, a) \cup IndexedBy(h, x)
      OBVIOUS
    <2>1. GathersIn(more, a) = GathersIn(h, a) \cup {new}
      BY <1>2, <1>6
    <2>2. \A n \in GathersIn(h, a) : ArrayIn(more, more[n].kids[2]) = ArrayIn(h, h[n].kids[2])
      BY <1>3, <1>9
    <2>3. IndexedBy(h, x) = {ArrayIn(more, more[new].kids[2])}
      BY <1>8
    <2> QED
      BY <2>1, <2>2, <2>3 DEF GatheredWith
  <1>11. ~(x.kind = "gather" /\ x.kids[1] # a) => GatheredWith(more, a) = GatheredWith(h, a)
    <2> SUFFICES ASSUME ~(x.kind = "gather" /\ x.kids[1] # a)
                 PROVE  GatheredWith(more, a) = GatheredWith(h, a)
      OBVIOUS
    <2>1. GathersIn(more, a) = GathersIn(h, a)
      BY <1>2, <1>6
    <2>2. \A n \in GathersIn(h, a) : ArrayIn(more, more[n].kids[2]) = ArrayIn(h, h[n].kids[2])
      BY <1>3, <1>9
    <2> QED
      BY <2>1, <2>2 DEF GatheredWith
  <1> DEFINE old == {m \in DOMAIN h : h[m].kind = "scatter"}
             both == {m \in DOMAIN more : more[m].kind = "scatter"}
  <1>12. /\ ScatteredWith(h) = {ArrayIn(h, h[n].kids[2]) : n \in old}
         /\ ScatteredWith(more) = {ArrayIn(more, more[n].kids[2]) : n \in both}
         /\ both = old \cup (IF x.kind = "scatter" THEN {new} ELSE {})
    BY <1>1 DEF ScatteredWith
  <1>13. \A n \in old : ArrayIn(more, more[n].kids[2]) = ArrayIn(h, h[n].kids[2])
    BY <1>1, <1>3
  <1> HIDE DEF old, both
  <1>14. x.kind = "scatter" => ScatteredWith(more) = ScatteredWith(h) \cup IndexedBy(h, x)
    <2> SUFFICES ASSUME x.kind = "scatter"
                 PROVE  ScatteredWith(more) = ScatteredWith(h) \cup IndexedBy(h, x)
      OBVIOUS
    <2>1. both = old \cup {new}
      BY <1>12
    <2>2. IndexedBy(h, x) = {ArrayIn(more, more[new].kids[2])}
      BY <1>8
    <2> QED
      BY <1>12, <1>13, <2>1, <2>2
  <1>15. x.kind # "scatter" => ScatteredWith(more) = ScatteredWith(h)
    <2> SUFFICES ASSUME x.kind # "scatter" PROVE ScatteredWith(more) = ScatteredWith(h)
      OBVIOUS
    <2>1. both = old
      BY <1>12
    <2> QED
      BY <1>12, <1>13, <2>1
  <1>16. LoadsIn(h, a) \subseteq 1 .. Len(h) /\ \A n \in LoadsIn(h, a) : h[n].kind = "load"
    BY <1>1 DEF LoadsIn
  <1>17. \A n \in LoadsIn(h, a) : ArrayIn(more, n) = ArrayIn(h, n)
    BY <1>3, <1>16
  <1>18. LoadedFrom(more, a) \subseteq LoadedFrom(h, a) \cup LoadedBy(x, a)
    <2>1. ASSUME NEW n \in LoadsIn(more, a)
          PROVE  ArrayIn(more, n) \in LoadedFrom(h, a) \cup LoadedBy(x, a)
      <3>1. CASE n \in LoadsIn(h, a)
        BY <1>17, <3>1 DEF LoadedFrom
      <3>2. CASE n \notin LoadsIn(h, a)
        <4>1. n = new /\ x.kind = "load" /\ x.kids[1] # a
          BY <1>2, <1>7, <3>2
        <4> QED
          BY <1>5, <4>1 DEF LoadedBy
      <3> QED
        BY <3>1, <3>2
    <2> QED
      BY <2>1 DEF LoadedFrom
  <1>19. LoadedFrom(h, a) \cup LoadedBy(x, a) \subseteq LoadedFrom(more, a) \cup IndexedBy(h, x)
    <2>1. ASSUME NEW n \in LoadsIn(h, a)
          PROVE  ArrayIn(h, n) \in LoadedFrom(more, a) \cup IndexedBy(h, x)
      <3>1. CASE n \in IndexOfNode(h, x)
        BY <1>4, <3>1 DEF IndexedBy
      <3>2. CASE n \notin IndexOfNode(h, x)
        <4>1. n \in LoadsIn(more, a)
          BY <1>2, <3>2
        <4> QED
          BY <1>17, <4>1 DEF LoadedFrom
      <3> QED
        BY <3>1, <3>2
    <2>2. ASSUME x.kind = "load", x.kids[1] # a
          PROVE  x.addr_name \in LoadedFrom(more, a)
      <3>1. new \in LoadsIn(more, a)
        BY <1>2, <1>7, <2>2
      <3> QED
        BY <1>5, <2>2, <3>1 DEF LoadedFrom
    <2> QED
      BY <2>1, <2>2 DEF LoadedFrom, LoadedBy
  <1> QED
    BY <1>10, <1>11, <1>14, <1>15, <1>18, <1>19 DEF more

-----------------------------------------------------------------------------
(***************************************************************************)
(* The tree is kept: first the parts of the invariant that only look at    *)
(* the heap, then the steps that make no node                              *)
(***************************************************************************)
TreeInv ==
  /\ TypeOK
  /\ NeedCountsUses
  /\ HeapWellMade
  /\ Stack
  /\ Pending
  /\ Rooted
  /\ SetsFollowTree

Frame(nodes) ==
  [place : {"output index", "data", "index", "right"},
   left : nodes \cup {0}, operator : Token]

\* The two ways to say that a heap is well made and counted.
LEMMA HeapIs ==
  ASSUME TypeOK, NeedCountsUses, HeapWellMade
  PROVE  /\ heap \in Heaps /\ Counted(heap, need)
         /\ Node = 1 .. Len(heap) /\ Len(heap) \in Nat
  <1>1. heap \in Seq(NodeRecord) /\ need \in [Node -> Nat]
    BY DEF TypeOK
  <1>2. heap \in Heaps
    BY <1>1 DEF Heaps, HeapWellMade, Node
  <1>3. need = [m \in Node |-> Cardinality(Uses(m))]
    BY <1>1 DEF NeedCountsUses
  <1> QED
    BY <1>1, <1>2, <1>3 DEF Counted, Uses, Node

\* From the facts on heaps back to the conjuncts of the invariant.
LEMMA HeapBack ==
  ASSUME NEW h \in Heaps, NEW count, Counted(h, count)
  PROVE  /\ h \in Seq(NodeRecord)
         /\ count \in [DOMAIN h -> Nat]
         /\ \A m \in DOMAIN h : count[m] = Cardinality(UsesIn(h, m))
         /\ \A n \in DOMAIN h : WellMade(h, n)
  BY UsesFinite DEF Counted, Heaps

\* A node belongs to a longer heap as well, and so do the frames.
LEMMA LongerFrames ==
  ASSUME NEW A, NEW B, A \subseteq B, NEW s \in Seq(Frame(A))
  PROVE  s \in Seq(Frame(B))
  <1>1. Frame(A) \subseteq Frame(B)
    BY DEF Frame
  <1> QED
    BY <1>1

\* The stack of calls, as typed by TypeOK.
LEMMA FramesType == TypeOK => frames \in Seq(Frame(Node))
  BY DEF TypeOK, Frame

\* What is known of a call under way.
LEMMA TopOfFrames ==
  ASSUME TypeOK, frames # <<>>
  PROVE  /\ Len(frames) \in Nat /\ Len(frames) >= 1
         /\ DOMAIN frames = 1 .. Len(frames)
         /\ \A f \in 1 .. Len(frames) :
              /\ frames[f].place \in {"output index", "data", "index", "right"}
              /\ frames[f].left \in Node \cup {0}
              /\ frames[f].operator \in Token
         /\ Top = frames[Len(frames)]
         /\ Front(frames) \in Seq(Frame(Node))
         /\ Len(Front(frames)) = Len(frames) - 1
         /\ \A f \in 1 .. Len(frames) - 1 : Front(frames)[f] = frames[f]
  <1>1. frames \in Seq(Frame(Node))
    BY FramesType
  <1>2. Len(frames) \in Nat /\ Len(frames) >= 1 /\ DOMAIN frames = 1 .. Len(frames)
    BY <1>1
  <1>3. \A x \in Frame(Node) :
          /\ x.place \in {"output index", "data", "index", "right"}
          /\ x.left \in Node \cup {0}
          /\ x.operator \in Token
    BY DEF Frame
  <1>4. \A f \in 1 .. Len(frames) : frames[f] \in Frame(Node)
    BY <1>1
  <1>5. Top = frames[Len(frames)]
    BY DEF Top, Last
  <1> QED
    BY <1>1, <1>2, <1>3, <1>4, <1>5, LastOfText

\* Where no node is made, nor the output's node.
LEMMA SameTree ==
  ASSUME TreeInv, UNCHANGED <<heap, need, addr, sets>>
  PROVE  /\ NeedCountsUses' /\ HeapWellMade' /\ SetsFollowTree'
         /\ Node' = Node
         /\ \A m : Uses(m)' = Uses(m)
  <1>1. Node' = Node /\ \A m : Uses(m)' = Uses(m)
    BY DEF Node, Uses, UsesIn
  <1>2. NeedCountsUses'
    BY <1>1 DEF TreeInv, NeedCountsUses
  <1>3. HeapWellMade'
    BY DEF TreeInv, HeapWellMade, WellMade, Node
  <1>4. /\ GatherIndices' = GatherIndices /\ ScatterIndices' = ScatterIndices
        /\ Loaded' = Loaded
    BY DEF GatherIndices, ScatterIndices, Loaded, Inputs, Indices, OfKind, Array, Node
  <1>5. SetsFollowTree'
    BY <1>4 DEF TreeInv, SetsFollowTree, sets
  <1> QED
    BY <1>1, <1>2, <1>3, <1>5

\* The steps before an expression is read, and the end of the process.
HeaderKnown ==
  /\ pc = "declare output" => declared \in Base
  /\ output_var_type.pointer => output_name \in Name

Quiet == UNCHANGED <<frames, node, tree, sets, output, root>>

\* A step that makes no node and no call, outside the statement.
LEMMA QuietStep ==
  ASSUME TreeInv, TypeOK', Quiet, pc # "done", ~Reading',
         pc' = "fatal" \/ (~Reading /\ pc # "fatal"),
         HeaderKnown'
  PROVE  TreeInv'
  <1>1. UNCHANGED <<heap, need, addr, out_index, frames, node, root, sets>>
    BY DEF Quiet, tree, output
  <1>2. /\ NeedCountsUses' /\ HeapWellMade' /\ SetsFollowTree'
        /\ Node' = Node /\ \A m : Uses(m)' = Uses(m)
    BY <1>1, SameTree
  <1>3. root = 0 /\ root' = 0
    BY <1>1 DEF TreeInv, Stack
  <1>4. Stack'
    BY <1>1, <1>3 DEF TreeInv, Stack, Reading, InExpression, Live, HeaderKnown
  <1>5. Pending'
    BY DEF Pending
  <1>6. Rooted'
    BY <1>3 DEF Rooted
  <1> QED
    BY <1>2, <1>4, <1>5, <1>6 DEF TreeInv

\* A token read is a token, and the last of the text.
LEMMA TokenRead ==
  ASSUME TypeOK, NEW t \in Token, get_next_token(t)
  PROVE  text' = Append(text, t) /\ text' \in Seq(Token) /\ token' = t /\ token' \in Token
  BY AppendOfText DEF TypeOK, get_next_token

\* What the header says of types, and what a quiet step needs to keep.
HeaderTyped ==
  /\ declared \in Token /\ pointer \in BOOLEAN
  /\ name_type_map \in [Name -> TypeOf \cup {NoType}]
  /\ iterates_set \subseteq Name
  /\ output_name \in Name \cup {""}
  /\ output_var_type \in TypeOf \cup {NoType}

\* Such a step keeps the types.
LEMMA QuietType ==
  ASSUME TypeOK, Quiet, text' \in Seq(Token), token' \in Token, HeaderTyped'
  PROVE  TypeOK'
  <1>1. UNCHANGED <<heap, need, addr, out_index, frames, node, root, sets>> /\ Node' = Node
    BY DEF Quiet, tree, output, Node
  <1> QED
    BY <1>1 DEF TypeOK, HeaderTyped, sets

\* The header is left alone by everything that follows it.
LEMMA HeaderKept ==
  ASSUME TreeInv, UNCHANGED <<declaration, header>>
  PROVE  HeaderTyped' /\ (pc' # "declare output" => HeaderKnown')
  BY DEF TreeInv, TypeOK, Stack, declaration, header, HeaderTyped, HeaderKnown

\* A step that goes elsewhere, or dies, without a call or a node.
LEMMA GotoStep ==
  ASSUME TreeInv, text' \in Seq(Token), token' \in Token, pc # "done",
         Fatal \/ (~Reading /\ pc # "fatal" /\ ~Reading' /\ \E p : p # "declare output" /\ Goto(p))
  PROVE  TreeInv'
  <1>1. Quiet /\ UNCHANGED <<declaration, header>> /\ pc' # "declare output"
    BY DEF Fatal, Goto, Quiet
  <1>2. TypeOK'
    BY <1>1, QuietType, HeaderKept DEF TreeInv
  <1>3. HeaderKnown'
    BY <1>1, HeaderKept
  <1>4. CASE Fatal
    <2>1. pc' = "fatal" /\ ~Reading'
      BY <1>4 DEF Fatal, Reading, InExpression, Live
    <2> QED
      BY <1>1, <1>2, <1>3, <2>1, QuietStep
  <1>5. CASE ~Reading /\ pc # "fatal" /\ ~Reading'
    BY <1>1, <1>2, <1>3, <1>5, QuietStep
  <1> QED
    BY <1>4, <1>5

\* Points of the code outside the statement.
HeaderPoint ==
  {"section", "output colon", "input colon", "iterate", "output name", "input type",
   "output type", "input star", "output star", "input name", "input more",
   "declare output", "iterate more"}

\* At the points of the header no statement is being read.
LEMMA HeaderPoints ==
  /\ pc \in HeaderPoint => ~Reading /\ pc # "fatal" /\ pc # "done"
  /\ pc' \in HeaderPoint \cup {"done"} => ~Reading'
  BY DEF HeaderPoint, Reading, InExpression, Live

\* The choice of the section to read next.
LEMMA DispatchStep ==
  ASSUME TreeInv, NEW t \in Token, get_next_token(t), pc \in HeaderPoint, Dispatch(t)
  PROVE  TreeInv'
  <1>1. text' \in Seq(Token) /\ token' \in Token
    BY TokenRead DEF TreeInv
  <1>2. Fatal \/ \E p \in HeaderPoint \cup {"done"} : p # "declare output" /\ Goto(p)
    BY DEF Dispatch, HeaderPoint
  <1>3. Fatal \/ (pc' \in HeaderPoint \cup {"done"} /\ \E p : p # "declare output" /\ Goto(p))
    BY <1>2 DEF Goto
  <1> QED
    BY <1>1, <1>3, GotoStep, HeaderPoints

\* A token of the header that only leads elsewhere.
LEMMA GotoHeader ==
  ASSUME TreeInv, NEW t \in Token, get_next_token(t), pc \in HeaderPoint,
         NEW p \in HeaderPoint \ {"declare output"}, Goto(p) \/ Fatal
  PROVE  TreeInv'
  <1>1. text' \in Seq(Token) /\ token' \in Token
    BY TokenRead DEF TreeInv
  <1>2. Fatal \/ (pc' \in HeaderPoint \cup {"done"} /\ \E q : q # "declare output" /\ Goto(q))
    BY DEF Goto
  <1> QED
    BY <1>1, <1>2, GotoStep, HeaderPoints

\* A token of the header that ends the process.
LEMMA HeaderDies ==
  ASSUME TreeInv, NEW t \in Token, get_next_token(t), pc \in HeaderPoint, Fatal
  PROVE  TreeInv'
  BY TokenRead, GotoStep, HeaderPoints DEF TreeInv

\* A declaration: everything but the header is left alone.
LEMMA DeclareStep ==
  ASSUME TreeInv, NEW t \in Token, get_next_token(t), pc \in HeaderPoint, pc' \in HeaderPoint,
         Quiet, HeaderTyped', HeaderKnown'
  PROVE  TreeInv'
  <1>1. text' \in Seq(Token) /\ token' \in Token
    BY TokenRead DEF TreeInv
  <1>2. TypeOK'
    BY <1>1, QuietType DEF TreeInv
  <1>3. pc # "done" /\ ~Reading /\ pc # "fatal" /\ ~Reading'
    BY HeaderPoints
  <1> QED
    BY <1>2, <1>3, QuietStep

\* An array is declared, or the process ends.
LEMMA DeclareInputStep ==
  ASSUME TreeInv, NEW t \in Token, get_next_token(t), pc \in HeaderPoint,
         NEW is_pointer \in BOOLEAN, DeclareInput(t, is_pointer)
  PROVE  TreeInv'
  <1>1. CASE declared \in Base /\ t \in Name
    <2>1. /\ name_type_map' = [name_type_map EXCEPT ![t] =
                                 [base |-> declared, pointer |-> is_pointer]]
          /\ pc' = "input more"
          /\ UNCHANGED <<declaration, iterates_set, output_name, output_var_type>>
          /\ Quiet
      BY <1>1 DEF DeclareInput, Quiet
    <2>2. [base |-> declared, pointer |-> is_pointer] \in TypeOf \cup {NoType}
      BY <1>1 DEF TypeOf
    <2>3. HeaderTyped'
      BY <2>1, <2>2 DEF TreeInv, TypeOK, HeaderTyped, declaration
    <2>4. HeaderKnown'
      BY <2>1 DEF TreeInv, Stack, HeaderKnown
    <2> QED
      BY <2>1, <2>3, <2>4, DeclareStep DEF HeaderPoint
  <1>2. CASE ~(declared \in Base /\ t \in Name)
    <2>1. Fatal
      BY <1>2 DEF DeclareInput
    <2> QED
      BY <2>1, HeaderDies
  <1> QED
    BY <1>1, <1>2

\* The actions that read the header.
HeaderAction(t) ==
  \/ Section(t) \/ Colon(t) \/ TypeToken(t) \/ InputStar(t) \/ InputName(t) \/ InputMore(t)
  \/ OutputStar(t) \/ DeclareOutput(t) \/ Iterate(t) \/ IterateMore(t)

\* Every action of the header keeps the invariant of the tree.
LEMMA HeaderStep ==
  ASSUME TreeInv, NEW t \in Token, HeaderAction(t)
  PROVE  TreeInv'
  <1>1. CASE Section(t)
    BY <1>1, DispatchStep DEF Section, HeaderPoint
  <1>2. CASE Colon(t)
    <2>1. /\ get_next_token(t) /\ pc \in HeaderPoint
          /\ \E p \in {"input type", "output type"} : GotoOrDie(p, t = "Colon")
      BY <1>2 DEF Colon, HeaderPoint
    <2>2. \E p \in HeaderPoint \ {"declare output"} : Goto(p) \/ Fatal
      BY <2>1 DEF GotoOrDie, HeaderPoint
    <2> QED
      BY <2>1, <2>2, GotoHeader
  <1>3. CASE TypeToken(t)
    <2>1. /\ get_next_token(t) /\ pc \in HeaderPoint /\ pc' \in HeaderPoint
          /\ Quiet /\ UNCHANGED <<pointer, header>> /\ declared' = t
          /\ pc' # "declare output"
      BY <1>3 DEF TypeToken, HeaderPoint, Quiet
    <2>2. HeaderTyped'
      BY <2>1 DEF TreeInv, TypeOK, HeaderTyped, header
    <2>3. HeaderKnown'
      BY <2>1 DEF TreeInv, Stack, HeaderKnown, header
    <2> QED
      BY <2>1, <2>2, <2>3, DeclareStep
  <1>4. CASE InputStar(t)
    <2>1. get_next_token(t) /\ pc \in HeaderPoint
      BY <1>4 DEF InputStar, HeaderPoint
    <2>2. CASE t = "Mult"
      BY <1>4, <2>1, <2>2, GotoHeader DEF InputStar, HeaderPoint
    <2>3. CASE t # "Mult"
      BY <1>4, <2>1, <2>3, DeclareInputStep DEF InputStar
    <2> QED
      BY <2>2, <2>3
  <1>5. CASE InputName(t)
    BY <1>5, DeclareInputStep DEF InputName, HeaderPoint
  <1>6. CASE InputMore(t)
    <2>1. get_next_token(t) /\ pc \in HeaderPoint
      BY <1>6 DEF InputMore, HeaderPoint
    <2>2. CASE t = "Comma"
      BY <1>6, <2>1, <2>2, GotoHeader DEF InputMore, HeaderPoint
    <2>3. CASE t # "Comma"
      BY <1>6, <2>1, <2>3, DispatchStep DEF InputMore
    <2> QED
      BY <2>2, <2>3
  <1>7. CASE OutputStar(t)
    <2>1. get_next_token(t) /\ pc \in HeaderPoint
      BY <1>7 DEF OutputStar, HeaderPoint
    <2>2. CASE declared \in Base
      <3>1. /\ pc' \in HeaderPoint /\ Quiet /\ UNCHANGED <<declared, header>>
            /\ pointer' = (t = "Mult")
        BY <1>7, <2>2 DEF OutputStar, HeaderPoint, Quiet
      <3>2. HeaderTyped'
        BY <3>1 DEF TreeInv, TypeOK, HeaderTyped, header
      <3>3. HeaderKnown'
        BY <2>2, <3>1 DEF TreeInv, Stack, HeaderKnown, header
      <3> QED
        BY <2>1, <3>1, <3>2, <3>3, DeclareStep
    <2>3. CASE declared \notin Base
      BY <1>7, <2>1, <2>3, GotoHeader DEF OutputStar, HeaderPoint
    <2> QED
      BY <2>2, <2>3
  <1>8. CASE DeclareOutput(t)
    <2>1. get_next_token(t) /\ pc \in HeaderPoint /\ pc = "declare output"
      BY <1>8 DEF DeclareOutput, HeaderPoint
    <2>2. CASE t \in Name
      <3> DEFINE type == [base |-> declared, pointer |-> pointer]
      <3>1. /\ output_name' = t
            /\ output_var_type' = type
            /\ name_type_map' = [name_type_map EXCEPT ![t] = type]
            /\ pc' = "section" /\ UNCHANGED <<declaration, iterates_set>>
            /\ Quiet
        BY <1>8, <2>2 DEF DeclareOutput, Quiet
      <3>2. type \in TypeOf \cup {NoType}
        BY <2>1 DEF TreeInv, TypeOK, Stack, TypeOf
      <3> HIDE DEF type
      <3>3. HeaderTyped'
        BY <2>2, <3>1, <3>2 DEF TreeInv, TypeOK, HeaderTyped, declaration
      <3>4. HeaderKnown' /\ pc' \in HeaderPoint
        BY <2>2, <3>1 DEF HeaderKnown, HeaderPoint
      <3> QED
        BY <2>1, <3>1, <3>3, <3>4, DeclareStep
    <2>3. CASE t \notin Name
      BY <1>8, <2>1, <2>3, HeaderDies DEF DeclareOutput
    <2> QED
      BY <2>2, <2>3
  <1>9. CASE Iterate(t)
    <2>1. get_next_token(t) /\ pc \in HeaderPoint
      BY <1>9 DEF Iterate, HeaderPoint
    <2>2. CASE t \in Name
      <3>1. /\ iterates_set' = iterates_set \cup {t}
            /\ pc' \in HeaderPoint /\ pc' # "declare output" /\ Quiet
            /\ UNCHANGED <<declaration, name_type_map, output_name, output_var_type>>
        BY <1>9, <2>2 DEF Iterate, HeaderPoint, Quiet
      <3>2. HeaderTyped'
        BY <2>2, <3>1 DEF TreeInv, TypeOK, HeaderTyped, declaration
      <3>3. HeaderKnown'
        BY <3>1 DEF TreeInv, Stack, HeaderKnown
      <3> QED
        BY <2>1, <3>1, <3>2, <3>3, DeclareStep
    <2>3. CASE t \notin Name
      BY <1>9, <2>1, <2>3, HeaderDies DEF Iterate
    <2> QED
      BY <2>2, <2>3
  <1>10. CASE IterateMore(t)
    <2>1. get_next_token(t) /\ pc \in HeaderPoint
      BY <1>10 DEF IterateMore, HeaderPoint
    <2>2. CASE t = "Comma"
      BY <1>10, <2>1, <2>2, GotoHeader DEF IterateMore, HeaderPoint
    <2>3. CASE t # "Comma"
      BY <1>10, <2>1, <2>3, DispatchStep DEF IterateMore
    <2> QED
      BY <2>2, <2>3
  <1> QED
    BY <1>1, <1>2, <1>3, <1>4, <1>5, <1>6, <1>7, <1>8, <1>9, <1>10 DEF HeaderAction

-----------------------------------------------------------------------------
(***************************************************************************)
(* Calls and returns                                                       *)
(***************************************************************************)
LEMMA TypeStep ==
  ASSUME TreeInv, text' \in Seq(Token), token' \in Token, UNCHANGED <<declaration, header>>,
         heap' \in Seq(NodeRecord), need' \in [Node' -> Nat],
         node' \in Node' \cup {0}, root' \in Node' \cup {0},
         addr' \in Node' \cup {0}, out_index' \in Node' \cup {0},
         frames' \in Seq(Frame(Node')),
         gather_set' \cup scatter_set' \cup reduction_set' \cup load_set' \subseteq Name
  PROVE  TypeOK'
  <1>1. HeaderTyped'
    BY HeaderKept
  <1> QED
    BY <1>1 DEF TypeOK, HeaderTyped, Frame

\* Frames after a call, and after the return from it.
LEMMA AppendedFrame ==
  ASSUME TypeOK, NEW x \in Frame(Node), frames' = Append(frames, x)
  PROVE  /\ frames' \in Seq(Frame(Node))
         /\ Len(frames) \in Nat /\ Len(frames') = Len(frames) + 1
         /\ DOMAIN frames = 1 .. Len(frames) /\ DOMAIN frames' = 1 .. Len(frames) + 1
         /\ \A f \in 1 .. Len(frames) : frames'[f] = frames[f]
         /\ frames'[Len(frames) + 1] = x
         /\ {frames'[f].left : f \in DOMAIN frames'}
              = {frames[f].left : f \in DOMAIN frames} \cup {x.left}
  <1>1. frames \in Seq(Frame(Node))
    BY FramesType
  <1>2. /\ frames' \in Seq(Frame(Node))
        /\ Len(frames) \in Nat /\ Len(frames') = Len(frames) + 1
        /\ DOMAIN frames = 1 .. Len(frames) /\ DOMAIN frames' = 1 .. Len(frames) + 1
        /\ \A f \in 1 .. Len(frames) : frames'[f] = frames[f]
        /\ frames'[Len(frames) + 1] = x
    BY <1>1
  <1>3. 1 .. Len(frames) + 1 = (1 .. Len(frames)) \cup {Len(frames) + 1}
    BY <1>2
  <1>4. {frames'[f].left : f \in DOMAIN frames'}
          = {frames[f].left : f \in DOMAIN frames} \cup {x.left}
    BY <1>2, <1>3
  <1> QED
    BY <1>2, <1>4

\* What a step that stays in the statement keeps of the tree's invariant.
LEMMA StillTyped ==
  ASSUME TreeInv, text' \in Seq(Token), token' \in Token,
         UNCHANGED <<node, declaration, header, tree, sets, output, root>>,
         frames' \in Seq(Frame(Node))
  PROVE  TypeOK'
  <1>1. UNCHANGED <<heap, need, addr, out_index, node, root, sets>> /\ Node' = Node
    BY DEF tree, output, Node
  <1>2. Frame(Node') = Frame(Node)
    BY <1>1
  <1>3. /\ heap' \in Seq(NodeRecord) /\ need' \in [Node' -> Nat]
        /\ node' \in Node' \cup {0} /\ root' \in Node' \cup {0}
        /\ addr' \in Node' \cup {0} /\ out_index' \in Node' \cup {0}
        /\ gather_set' \cup scatter_set' \cup reduction_set' \cup load_set' \subseteq Name
    BY <1>1 DEF TreeInv, TypeOK, sets
  <1> QED
    BY <1>2, <1>3, TypeStep

\* ParseExpr calls for the index of the output and for the data, and
\* ParseInputExpr itself for what stands in brackets or behind an operator.
FirstCall(place, left) ==
  /\ pc \in {"output bracket", "equal"}
  /\ place \in {"output index", "data"}
  /\ left = 0
  /\ place = "output index" => out_index = 0

NestedCall(place, left, operator) ==
  /\ pc \in {"suffix", "operator"}
  /\ place \in {"index", "right"}
  /\ left = node
  /\ place = "right" => operator \in Binary
  /\ place = "index" => heap[node].kind = "var"

\* A call of ParseInputExpr: for an index, for the data, or for what stands to
\* the right of an operator.
LEMMA CallStep ==
  ASSUME TreeInv, text' \in Seq(Token), token' \in Token,
         UNCHANGED <<node, declaration, header, tree, sets, output, root>>,
         NEW place, NEW left, NEW operator \in Token, Call(place, left, operator),
         FirstCall(place, left) \/ NestedCall(place, left, operator)
  PROVE  TreeInv'
  <1> DEFINE x == [place |-> place, left |-> left, operator |-> operator]
             last == Len(frames) + 1
  <1>1. UNCHANGED <<heap, need, addr, out_index, node, root, sets, output_name,
                    output_var_type>>
    BY DEF tree, output, header
  <1>2. /\ NeedCountsUses' /\ HeapWellMade' /\ SetsFollowTree'
        /\ Node' = Node /\ \A m : Uses(m)' = Uses(m)
    BY <1>1, SameTree
  <1>3. frames' = Append(frames, x) /\ pc' = "operand"
    BY DEF Call
  <1>4. TypeOK /\ Stack /\ Pending /\ Rooted /\ Reading /\ pc # "done"
    BY DEF TreeInv, Reading, InExpression, Live, FirstCall, NestedCall
  <1>5. x \in Frame(Node) /\ x.place = place /\ x.left = left /\ x.operator = operator
    BY <1>4 DEF Frame, TypeOK, FirstCall, NestedCall
  <1> HIDE DEF x
  <1>6. /\ frames' \in Seq(Frame(Node))
        /\ Len(frames) \in Nat /\ Len(frames') = last
        /\ DOMAIN frames = 1 .. Len(frames) /\ DOMAIN frames' = 1 .. last
        /\ \A f \in 1 .. Len(frames) : frames'[f] = frames[f]
        /\ frames'[last] = x
        /\ frames \in Seq(Frame(Node))
    BY <1>3, <1>4, <1>5, AppendedFrame, FramesType
  <1>13. {frames'[f].left : f \in DOMAIN frames'}
           = {frames[f].left : f \in DOMAIN frames} \cup {x.left}
    BY <1>3, <1>4, <1>5, AppendedFrame
  <1>7. TypeOK'
    BY <1>6, StillTyped
  <1>8. ~Live' /\ InExpression' /\ Reading'
    BY <1>3 DEF Live, InExpression, Reading
  <1>9. root = 0 /\ root' = 0
    BY <1>1, <1>4 DEF Stack
  <1>10. /\ 1 .. last = (1 .. Len(frames)) \cup {last}
         /\ \A f \in 2 .. last : f \in 2 .. Len(frames) \/ f = last
         /\ last \in 2 .. last => frames # <<>>
    BY <1>6
  <1>11. CASE FirstCall(place, left)
    <2>1. ~Live /\ ~InExpression /\ frames = <<>> /\ Len(frames) = 0
      BY <1>4, <1>11 DEF Live, InExpression, Stack, FirstCall
    <2>2. x.place \in {"output index", "data"} /\ x.left = 0
          /\ (x.place = "output index" => out_index = 0)
      BY <1>5, <1>11 DEF FirstCall
    <2>3. /\ frames' # <<>> /\ frames'[1] = x /\ Len(frames') = 1
          /\ DOMAIN frames' = 1 .. 1 /\ 1 .. 1 = {1} /\ 2 .. 1 = {}
      <3>1. last = 1
        BY <2>1
      <3> HIDE DEF last
      <3>2. frames'[1] = x /\ Len(frames') = 1 /\ DOMAIN frames' = 1 .. 1
        BY <1>6, <3>1
      <3>3. frames' # <<>>
        <4>1. Len(frames') # 0
          BY <3>2
        <4> QED
          BY <4>1
      <3>4. 1 .. 1 = {1} /\ 2 .. 1 = {}
        OBVIOUS
      <3> QED
        BY <3>2, <3>3, <3>4
    <2>4. Stack'
      <3>1. /\ frames'[1].place \in {"output index", "data"} /\ frames'[1].left = 0
            /\ frames'[1].place = "output index" => out_index' = 0
        BY <1>1, <2>2, <2>3
      <3>2. \A f \in 2 .. Len(frames') : frames'[f].place \in {"index", "right"}
        BY <2>3
      <3>3. \A f \in DOMAIN frames' :
              frames'[f].place \notin {"index", "right"}
        BY <2>3, <3>1
      <3>4. HeaderKnown'
        BY <1>1, <1>3, <1>4 DEF Stack, HeaderKnown
      <3> QED
        BY <1>3, <1>8, <1>9, <2>3, <3>1, <3>2, <3>3, <3>4 DEF Stack, HeaderKnown
    <2>5. Waiting' = Waiting
      BY <1>1, <1>8, <1>13, <2>1, <2>2 DEF Waiting
    <2>6. Pending'
      BY <1>1, <1>2, <1>4, <1>8, <2>3, <2>5 DEF Pending, YoungerThanOutput
    <2> QED
      BY <1>2, <1>7, <1>9, <2>4, <2>6 DEF TreeInv, Rooted
  <1>12. CASE NestedCall(place, left, operator)
    <2>1. /\ Live /\ InExpression /\ frames # <<>>
          /\ x.place \in {"index", "right"} /\ x.left = node
          /\ (x.place = "right" => x.operator \in Binary)
          /\ (x.place = "index" => heap[node].kind = "var")
      BY <1>4, <1>5, <1>12 DEF Live, InExpression, Stack, NestedCall
    <2>2. Len(frames) >= 1 /\ last \in 2 .. last /\ frames'[1] = frames[1]
      BY <1>6, <2>1
    <2>3. Stack'
      <3>1. frames' # <<>>
        BY <1>6
      <3>2. \A f \in 2 .. Len(frames') : frames'[f].place \in {"index", "right"}
        <4>1. \A f \in 2 .. Len(frames) : frames[f].place \in {"index", "right"}
          BY <1>4, <2>1 DEF Stack
        <4>2. \A f \in 2 .. Len(frames) : frames'[f] = frames[f]
          BY <1>6
        <4>3. frames'[last].place \in {"index", "right"}
          BY <1>6, <2>1
        <4> HIDE DEF last
        <4> QED
          BY <1>6, <1>10, <4>1, <4>2, <4>3
      <3>3. \A f \in DOMAIN frames' :
              /\ frames'[f].place = "right" => frames'[f].operator \in Binary
              /\ frames'[f].place = "index" => heap'[frames'[f].left].kind = "var"
        <4>1. \A f \in 1 .. Len(frames) :
                /\ frames[f].place = "right" => frames[f].operator \in Binary
                /\ frames[f].place = "index" => heap'[frames[f].left].kind = "var"
          BY <1>1, <1>4, <1>6, <2>1 DEF Stack
        <4>2. /\ x.place = "right" => x.operator \in Binary
              /\ x.place = "index" => heap'[x.left].kind = "var"
          BY <1>1, <2>1
        <4> HIDE DEF last
        <4> QED
          BY <1>6, <1>10, <4>1, <4>2
      <3>4. HeaderKnown'
        BY <1>1, <1>3, <1>4 DEF Stack, HeaderKnown
      <3>5. /\ frames'[1].place \in {"output index", "data"} /\ frames'[1].left = 0
            /\ frames'[1].place = "output index" => out_index' = 0
        BY <1>1, <1>4, <2>1, <2>2 DEF Stack
      <3> QED
        BY <1>3, <1>8, <1>9, <3>1, <3>2, <3>3, <3>4, <3>5 DEF Stack, HeaderKnown
    <2>4. Waiting' = Waiting
      BY <1>1, <1>8, <1>13, <2>1 DEF Waiting
    <2>5. \A f \in 2 .. Len(frames') :
            /\ frames'[f].left \in Node' /\ addr' < frames'[f].left /\ out_index' < frames'[f].left
            /\ \A g \in 2 .. f - 1 : frames'[g].left < frames'[f].left
      <3>1. ASSUME NEW f \in 2 .. last
            PROVE  /\ frames'[f].left \in Node' /\ addr' < frames'[f].left /\ out_index' < frames'[f].left
                   /\ \A g \in 2 .. f - 1 : frames'[g].left < frames'[f].left
        <4>1. CASE f \in 2 .. Len(frames)
          <5>1. /\ frames[f].left \in Node /\ addr < frames[f].left /\ out_index < frames[f].left
                /\ \A g \in 2 .. f - 1 : frames[g].left < frames[f].left
            BY <1>4, <4>1 DEF Pending, YoungerThanOutput
          <5>2. frames'[f] = frames[f] /\ \A g \in 2 .. f - 1 : frames'[g] = frames[g]
            BY <1>6, <4>1
          <5> QED
            BY <1>1, <1>2, <5>1, <5>2
        <4>2. CASE f = last
          <5>1. /\ node \in Node /\ addr < node /\ out_index < node
                /\ \A g \in 2 .. Len(frames) : frames[g].left < node
            BY <1>4, <2>1 DEF Pending, YoungerThanOutput
          <5>2. /\ frames'[f].left = node
                /\ \A g \in 2 .. f - 1 : g \in 2 .. Len(frames) /\ frames'[g] = frames[g]
            BY <1>6, <2>1, <4>2
          <5> QED
            BY <1>1, <1>2, <5>1, <5>2
        <4> QED
          BY <1>10, <4>1, <4>2
      <3> QED
        BY <1>6, <3>1
    <2>6. Pending'
      BY <1>1, <1>2, <1>4, <1>8, <2>4, <2>5 DEF Pending, YoungerThanOutput
    <2> QED
      BY <1>2, <1>7, <1>9, <2>3, <2>6 DEF TreeInv, Rooted
  <1> QED
    BY <1>11, <1>12

\* From one point of the statement to the next.
LEMMA NextPoint ==
  ASSUME TreeInv, text' \in Seq(Token), token' \in Token, NEW p, Goto(p),
         \/ pc = "output bracket" /\ p = "equal"
         \/ pc = "suffix" /\ p = "operator"
         \/ pc = "operator" /\ p = "return"
  PROVE  TreeInv'
  <1>1. UNCHANGED <<heap, need, addr, out_index, frames, node, root, sets, output_name,
                    output_var_type>> /\ pc' = p
    BY DEF Goto, tree, output, header
  <1>2. /\ NeedCountsUses' /\ HeapWellMade' /\ SetsFollowTree'
        /\ Node' = Node /\ \A m : Uses(m)' = Uses(m)
    BY <1>1, SameTree
  <1>3. frames \in Seq(Frame(Node))
    BY FramesType DEF TreeInv
  <1>4. TypeOK'
    BY <1>1, <1>3, StillTyped DEF Goto
  <1>5. root = 0 /\ root' = 0
    BY <1>1 DEF TreeInv, Stack
  <1>6. (Live' <=> Live) /\ (InExpression' <=> InExpression) /\ Reading /\ Reading'
    BY <1>1 DEF Live, InExpression, Reading
  <1>7. Stack'
    BY <1>1, <1>5, <1>6 DEF TreeInv, Stack
  <1>8. Waiting' = Waiting
    BY <1>1, <1>6 DEF Waiting
  <1>9. Pending'
    BY <1>1, <1>2, <1>6, <1>8 DEF TreeInv, Pending, YoungerThanOutput
  <1> QED
    BY <1>2, <1>4, <1>5, <1>7, <1>9 DEF TreeInv, Rooted

-----------------------------------------------------------------------------
(***************************************************************************)
(* Steps that make a node                                                  *)
(***************************************************************************)
LEMMA SetsOfTreeNext ==
  /\ GatherIndices' = GatheredWith(heap, addr)'
  /\ ScatterIndices' = ScatteredWith(heap)'
  /\ Loaded' = LoadedFrom(heap, addr)'
  <1>1. (/\ GatherIndices = GatheredWith(heap, addr)
         /\ ScatterIndices = ScatteredWith(heap)
         /\ Loaded = LoadedFrom(heap, addr))'
    BY SetsOfTree, PTL
  <1> QED
    BY <1>1

\* The same, of a heap that is known.
LEMMA SetsOfHeap ==
  ASSUME NEW h, heap' = h, addr' = addr
  PROVE  /\ GatherIndices' = GatheredWith(h, addr)
         /\ ScatterIndices' = ScatteredWith(h)
         /\ Loaded' = LoadedFrom(h, addr)
  <1>1. GatherIndices' = GatheredWith(h, addr)
    BY SetsOfTreeNext DEF GatheredWith, GathersIn, IndicesIn, ArrayIn
  <1>2. ScatterIndices' = ScatteredWith(h)
    BY SetsOfTreeNext DEF ScatteredWith, IndicesIn, ArrayIn
  <1>3. Loaded' = LoadedFrom(h, addr)
    BY SetsOfTreeNext DEF LoadedFrom, LoadsIn, IndicesIn, ArrayIn
  <1> QED
    BY <1>1, <1>2, <1>3

\* The nodes that wait are used by nobody, and nobody else is unused.
LEMMA WaitingWaits ==
  ASSUME TreeInv, Reading
  PROVE  Waiting \in SUBSET (1 .. Len(heap)) /\ Waits(heap, Waiting)
  <1>1. heap \in Heaps /\ Node = 1 .. Len(heap)
    BY HeapIs DEF TreeInv
  <1>2. /\ \A m \in Waiting : Uses(m) = {}
        /\ \A n \in Node : Uses(n) = {} /\ heap[n].kids # <<>> => n \in Waiting
    BY DEF TreeInv, Pending
  <1>3. Waits(heap, Waiting)
    BY <1>1, <1>2 DEF Waits, Uses
  <1>4. ASSUME TypeOK PROVE \A f \in DOMAIN frames : frames[f].left \in Node \cup {0}
    <2>1. CASE frames = <<>>
      BY <2>1
    <2>2. CASE frames # <<>>
      BY <1>4, <2>2, TopOfFrames
    <2> QED
      BY <2>1, <2>2
  <1>5. addr \in Node \cup {0} /\ out_index \in Node \cup {0} /\ node \in Node \cup {0} /\ TypeOK
    BY DEF TreeInv, TypeOK
  <1>6. Waiting \subseteq Node
    BY <1>4, <1>5 DEF Waiting
  <1> QED
    BY <1>1, <1>3, <1>6

\* The stack after a return.
LEMMA Popped ==
  ASSUME TypeOK, frames # <<>>, frames' = Front(frames)
  PROVE  /\ frames' \in Seq(Frame(Node))
         /\ Len(frames) \in Nat /\ Len(frames') = Len(frames) - 1
         /\ DOMAIN frames' = 1 .. Len(frames) - 1 /\ DOMAIN frames = 1 .. Len(frames)
         /\ \A f \in 1 .. Len(frames) - 1 : frames'[f] = frames[f]
         /\ {frames[f].left : f \in DOMAIN frames}
              = {frames'[f].left : f \in DOMAIN frames'} \cup {Top.left}
  <1>1. /\ frames' \in Seq(Frame(Node))
        /\ Len(frames) \in Nat /\ Len(frames) >= 1 /\ Len(frames') = Len(frames) - 1
        /\ DOMAIN frames = 1 .. Len(frames)
        /\ \A f \in 1 .. Len(frames) - 1 : frames'[f] = frames[f]
        /\ Top = frames[Len(frames)]
    BY TopOfFrames
  <1>2. DOMAIN frames' = 1 .. Len(frames) - 1
    BY <1>1
  <1>3. 1 .. Len(frames) = (1 .. Len(frames) - 1) \cup {Len(frames)}
    BY <1>1
  <1>4. {frames[f].left : f \in DOMAIN frames}
          = {frames'[f].left : f \in DOMAIN frames'} \cup {Top.left}
    BY <1>1, <1>2, <1>3
  <1> QED
    BY <1>1, <1>2, <1>4

\* What a node made in an expression must be, and what the stack becomes: the
\* calls whose locals it takes have returned.
Taken(x) ==
  /\ Fits(heap, x)
  /\ x.kind \notin {"scatter", "store"}
  /\ x.kind = "var" => x.node_name \in Name
  /\ \A n \in Range(x.kids) :
       addr < n /\ out_index < n /\ \A f \in 1 .. Len(frames') : frames[f].left < n
  /\ \A n \in Waiting \ Range(x.kids) : n \in Waiting' \/ heap[n].kids = <<>>

Unwound ==
  /\ frames' \in Seq(Frame(Node))
  /\ frames' # <<>>
  /\ Len(frames') <= Len(frames)
  /\ \A f \in 1 .. Len(frames') : frames'[f] = frames[f]

\* One node made while an expression is read: calls may have returned, the
\* node has taken in what they left behind, and now waits itself.
LEMMA MadeNode ==
  ASSUME TreeInv, InExpression, text' \in Seq(Token), token' \in Token,
         NEW x, Make(<<x>>), Taken(x), Unwound,
         UNCHANGED <<declaration, header, output, root>>, node' = Len(heap) + 1,
         Live', pc' = "suffix" => x.kind = "var",
         gather_set' \cup scatter_set' \cup reduction_set' \cup load_set' \subseteq Name,
         SetsFollowTree'
  PROVE  TreeInv'
  <1> DEFINE new == Len(heap) + 1
  <1>1. /\ heap \in Heaps /\ Counted(heap, need) /\ Node = 1 .. Len(heap) /\ Len(heap) \in Nat
        /\ TypeOK /\ Stack /\ Pending /\ Rooted /\ Reading
    BY HeapIs DEF TreeInv, Reading
  <1>2. heap' = Append(heap, x) /\ Counted(heap', need')
    BY <1>1, MakeOne DEF Taken
  <1>3. /\ heap' \in Heaps /\ Len(heap') = new
        /\ \A n \in 1 .. Len(heap) : heap'[n] = heap[n]
        /\ heap'[new] = x
    BY <1>1, <1>2, AddedNode DEF Taken
  <1>4. Node' = 1 .. new /\ Node \subseteq Node' /\ new \in Node'
        /\ \A n \in Node' : n \in Node \/ n = new
    BY <1>1, <1>3 DEF Node, Heaps
  <1>5. UNCHANGED <<addr, out_index, root, output_name, output_var_type>>
    BY DEF output, header
  <1>6. /\ heap' \in Seq(NodeRecord) /\ need' \in [Node' -> Nat]
        /\ NeedCountsUses' /\ HeapWellMade'
    BY <1>2, <1>3, HeapBack DEF Node, NeedCountsUses, Uses, HeapWellMade
  <1>7. TypeOK'
    <2>1. frames' \in Seq(Frame(Node'))
      BY <1>4, LongerFrames DEF Unwound
    <2>2. /\ node' \in Node' \cup {0} /\ root' \in Node' \cup {0}
          /\ addr' \in Node' \cup {0} /\ out_index' \in Node' \cup {0}
      BY <1>1, <1>4, <1>5 DEF TypeOK
    <2> QED
      BY <1>6, <2>1, <2>2, TypeStep
  <1>8. InExpression' /\ Reading' /\ pc' \notin {"output bracket", "operand", "fatal", "declare output"}
    BY DEF InExpression, Reading, Live
  <1>9. root = 0 /\ root' = 0
    BY <1>1, <1>5 DEF Stack, InExpression, Live
  <1>10. /\ Len(frames') \in Nat /\ DOMAIN frames' = 1 .. Len(frames') /\ Len(frames') >= 1
         /\ Len(frames) \in Nat /\ DOMAIN frames = 1 .. Len(frames)
    BY <1>1, FramesType DEF Unwound
  <1>11. \A f \in 1 .. Len(frames') :
           /\ f \in 1 .. Len(frames) /\ frames'[f] = frames[f]
           /\ frames[f].left \in Node \cup {0}
    <2>1. frames # <<>>
      BY <1>1 DEF Stack
    <2>2. \A f \in 1 .. Len(frames) : frames[f].left \in Node \cup {0}
      BY <1>1, <2>1, TopOfFrames
    <2>3. \A f \in 1 .. Len(frames') : f \in 1 .. Len(frames) /\ frames'[f] = frames[f]
      BY <1>10 DEF Unwound
    <2> QED
      BY <2>2, <2>3
  <1>12. Stack'
    <2>1. /\ frames[1].place \in {"output index", "data"} /\ frames[1].left = 0
          /\ frames[1].place = "output index" => out_index = 0
          /\ \A f \in 2 .. Len(frames) : frames[f].place \in {"index", "right"}
          /\ \A f \in DOMAIN frames :
               /\ frames[f].place = "right" => frames[f].operator \in Binary
               /\ frames[f].place = "index" => heap[frames[f].left].kind = "var"
      BY <1>1 DEF Stack
    <2>2. /\ frames'[1].place \in {"output index", "data"} /\ frames'[1].left = 0
          /\ frames'[1].place = "output index" => out_index' = 0
      <3>1. 1 \in 1 .. Len(frames')
        BY <1>10
      <3>2. frames'[1] = frames[1]
        BY <1>11, <3>1
      <3> QED
        BY <1>5, <2>1, <3>2
    <2>3. \A f \in 2 .. Len(frames') : frames'[f].place \in {"index", "right"}
      <3>1. \A f \in 2 .. Len(frames') : f \in 2 .. Len(frames) /\ f \in 1 .. Len(frames')
        BY <1>10 DEF Unwound
      <3> QED
        BY <1>11, <2>1, <3>1
    <2>4. ASSUME NEW f \in DOMAIN frames'
          PROVE  /\ frames'[f].place = "right" => frames'[f].operator \in Binary
                 /\ frames'[f].place = "index" => heap'[frames'[f].left].kind = "var"
      <3>1. /\ f \in 1 .. Len(frames') /\ f \in DOMAIN frames /\ frames'[f] = frames[f]
        BY <1>10, <1>11
      <3>2. frames[f].place = "index" => frames[f].left \in Node
        <4>1. frames[f].place = "index" => f # 1
          BY <2>1
        <4>2. f # 1 => f \in 2 .. Len(frames)
          BY <1>10, <1>11, <3>1
        <4> QED
          BY <1>1, <1>8, <4>1, <4>2 DEF Pending, YoungerThanOutput
      <3>3. frames[f].place = "index" => heap'[frames[f].left] = heap[frames[f].left]
        BY <1>1, <1>3, <3>2
      <3> QED
        BY <2>1, <3>1, <3>3
    <2>5. pc' = "suffix" => heap'[node'].kind = "var"
      BY <1>3
    <2>6. output_var_type'.pointer => output_name' \in Name
      BY <1>1, <1>5 DEF Stack
    <2> QED
      BY <1>8, <1>9, <2>2, <2>3, <2>4, <2>5, <2>6 DEF Stack, Unwound
  <1>13. /\ addr \in Node /\ heap[addr].kind = "var" /\ heap[addr].node_name = output_name
         /\ out_index # 0 => addr < out_index
         /\ out_index \in Node \cup {0}
    BY <1>1 DEF Pending, TypeOK
  <1>14. Waiting' = ({addr, out_index} \cup {frames'[f].left : f \in DOMAIN frames'}
                       \cup {new}) \ {0}
    BY <1>5 DEF Waiting
  <1>15. Waits(heap', Waiting')
    <2>1. Waiting \in SUBSET (1 .. Len(heap)) /\ Waits(heap, Waiting)
      BY <1>1, WaitingWaits
    <2>2. new \in Waiting'
      BY <1>1, <1>14
    <2>3. ASSUME NEW n \in Waiting', n # new
          PROVE  n \in Waiting \ Range(x.kids)
      <3>1. n \in {addr, out_index} \/ \E f \in 1 .. Len(frames') : n = frames[f].left
        BY <1>10, <1>11, <1>14, <2>3
      <3>2. n # 0
        BY <1>14
      <3>3. n \in Waiting
        BY <1>10, <1>11, <3>1, <3>2 DEF Waiting
      <3>4. n \in Node
        BY <1>1, <2>1, <3>3
      <3>5. n \notin Range(x.kids)
        BY <1>1, <3>1, <3>4 DEF Taken
      <3> QED
        BY <3>3, <3>5
    <2>4. \A n \in Waiting \ Range(x.kids) : n \in Waiting' \/ heap[n].kids = <<>>
      BY DEF Taken
    <2>5. Waiting' \subseteq (Waiting \ Range(x.kids)) \cup {new}
      BY <2>3
    <2>6. Fits(heap, x)
      BY DEF Taken
    <2> QED
      BY <1>1, <1>2, <2>1, <2>2, <2>4, <2>5, <2>6, WaitsAdded
  <1>16. Pending'
    <2>1. addr' \in Node' /\ heap'[addr'].kind = "var" /\ heap'[addr'].node_name = output_name'
      BY <1>1, <1>3, <1>4, <1>5, <1>13
    <2>2. \A f \in 2 .. Len(frames') :
            /\ frames'[f].left \in Node' /\ addr' < frames'[f].left
            /\ out_index' < frames'[f].left /\ frames'[f].left < node'
            /\ \A g \in 2 .. f - 1 : frames'[g].left < frames'[f].left
      <3> SUFFICES ASSUME NEW f \in 2 .. Len(frames')
                   PROVE  /\ frames'[f].left \in Node' /\ addr' < frames'[f].left
                          /\ out_index' < frames'[f].left /\ frames'[f].left < node'
                          /\ \A g \in 2 .. f - 1 : frames'[g].left < frames'[f].left
        OBVIOUS
      <3>1. /\ f \in 2 .. Len(frames) /\ f \in 1 .. Len(frames')
            /\ \A g \in 2 .. f - 1 : g \in 1 .. Len(frames')
        BY <1>10, <1>11
      <3>2. /\ frames[f].left \in Node /\ addr < frames[f].left /\ out_index < frames[f].left
            /\ \A g \in 2 .. f - 1 : frames[g].left < frames[f].left
        BY <1>1, <3>1 DEF Pending, YoungerThanOutput
      <3>3. frames'[f] = frames[f] /\ \A g \in 2 .. f - 1 : frames'[g] = frames[g]
        BY <1>11, <3>1
      <3>4. frames[f].left < Len(heap) + 1
        BY <1>1, <3>2
      <3> QED
        BY <1>4, <1>5, <3>2, <3>3, <3>4
    <2>3. node' \in Node' /\ addr' < node' /\ out_index' < node'
      BY <1>1, <1>4, <1>5, <1>13
    <2>4. /\ \A m \in Waiting' : Uses(m)' = {}
          /\ \A n \in Node' : Uses(n)' = {} /\ heap'[n].kids # <<>> => n \in Waiting'
      BY <1>3, <1>4, <1>15 DEF Waits, Uses
    <2>5. ASSUME NEW n \in Node'
          PROVE  /\ heap'[n].kind \notin {"scatter", "store"}
                 /\ heap'[n].kind = "var" /\ n # addr' => heap'[n].node_name \in Name
      <3>1. CASE n \in Node
        <4>1. heap'[n] = heap[n]
          BY <1>1, <1>3, <3>1
        <4> QED
          BY <1>1, <1>5, <3>1, <4>1 DEF Pending
      <3>2. CASE n = new
        BY <1>3, <3>2 DEF Taken
      <3> QED
        BY <1>4, <3>1, <3>2
    <2> QED
      BY <1>5, <1>13, <2>1, <2>2, <2>3, <2>4, <2>5 DEF Pending, YoungerThanOutput
  <1> QED
    BY <1>6, <1>7, <1>9, <1>12, <1>16 DEF TreeInv, Rooted

\* The sets of names after a node that is not a scatter.
LEMMA SetsNext ==
  ASSUME TreeInv, NEW x, Fits(heap, x), heap' = Append(heap, x), addr' = addr,
         x.kind # "scatter"
  PROVE  /\ x.kind = "gather" /\ x.kids[1] # addr =>
              GatherIndices' = GatherIndices \cup {heap[x.kids[2]].addr_name}
         /\ ~(x.kind = "gather" /\ x.kids[1] # addr) => GatherIndices' = GatherIndices
         /\ ScatterIndices' = ScatterIndices
         /\ Loaded' \subseteq Loaded \cup LoadedBy(x, addr)
         /\ Loaded \cup LoadedBy(x, addr)
              \subseteq Loaded' \cup (IF x.kind = "gather" THEN {heap[x.kids[2]].addr_name}
                                                          ELSE {})
  <1>1. heap \in Heaps
    BY HeapIs DEF TreeInv
  <1>2. /\ x.kind = "gather" /\ x.kids[1] # addr =>
             GatheredWith(heap', addr) = GatheredWith(heap, addr) \cup IndexedBy(heap, x)
        /\ ~(x.kind = "gather" /\ x.kids[1] # addr) =>
             GatheredWith(heap', addr) = GatheredWith(heap, addr)
        /\ ScatteredWith(heap') = ScatteredWith(heap)
        /\ LoadedFrom(heap', addr) \subseteq LoadedFrom(heap, addr) \cup LoadedBy(x, addr)
        /\ LoadedFrom(heap, addr) \cup LoadedBy(x, addr)
             \subseteq LoadedFrom(heap', addr) \cup IndexedBy(heap, x)
    BY <1>1, SetsAdded
  <1>3. /\ GatherIndices' = GatheredWith(heap', addr')
        /\ ScatterIndices' = ScatteredWith(heap')
        /\ Loaded' = LoadedFrom(heap', addr')
    BY SetsOfTreeNext DEF GatheredWith, ScatteredWith, LoadedFrom, GathersIn, LoadsIn,
                          IndicesIn, ArrayIn
  <1>4. IndexedBy(heap, x) = IF x.kind = "gather" THEN {heap[x.kids[2]].addr_name} ELSE {}
    BY DEF IndexedBy, IndexOfNode
  <1> QED
    BY <1>2, <1>3, <1>4, SetsOfTree

\* A variable or an operator changes none of the sets of names.
LEMMA SetsSame ==
  ASSUME TreeInv, NEW x, Fits(heap, x), heap' = Append(heap, x), addr' = addr,
         x.kind \in Binary \cup {"var"}, UNCHANGED sets
  PROVE  SetsFollowTree'
  <1>1. x.kind # "scatter" /\ x.kind # "gather" /\ LoadedBy(x, addr) = {}
    BY DEF Binary, LoadedBy
  <1>2. /\ GatherIndices' = GatherIndices /\ ScatterIndices' = ScatterIndices
        /\ Loaded' = Loaded
    BY <1>1, SetsNext
  <1> QED
    BY <1>2 DEF TreeInv, SetsFollowTree, sets

\* A gather: its index goes from load_set to gather_set.
LEMMA SetsGather ==
  ASSUME TreeInv, NEW x, Fits(heap, x), heap' = Append(heap, x), addr' = addr,
         x.kind = "gather", x.kids[1] # addr, NEW index, index = heap[x.kids[2]].addr_name,
         gather_set' = gather_set \cup {index}, load_set' = load_set \ {index},
         UNCHANGED <<scatter_set, reduction_set>>
  PROVE  SetsFollowTree'
  <1>1. LoadedBy(x, addr) = {}
    BY DEF LoadedBy
  <1>2. /\ GatherIndices' = GatherIndices \cup {index} /\ ScatterIndices' = ScatterIndices
        /\ Loaded' \subseteq Loaded /\ Loaded \subseteq Loaded' \cup {index}
    BY <1>1, SetsNext
  <1> QED
    BY <1>2 DEF TreeInv, SetsFollowTree

\* A load: its array goes to load_set.
LEMMA SetsLoad ==
  ASSUME TreeInv, NEW x, Fits(heap, x), heap' = Append(heap, x), addr' = addr,
         x.kind = "load", x.kids[1] # addr, NEW name, name = x.addr_name,
         load_set' = load_set \cup {name}, UNCHANGED <<gather_set, scatter_set, reduction_set>>
  PROVE  SetsFollowTree'
  <1>1. LoadedBy(x, addr) = {name}
    BY DEF LoadedBy
  <1>2. /\ GatherIndices' = GatherIndices /\ ScatterIndices' = ScatterIndices
        /\ Loaded' \subseteq Loaded \cup {name} /\ Loaded \cup {name} \subseteq Loaded'
    BY <1>1, SetsNext
  <1> QED
    BY <1>2 DEF TreeInv, SetsFollowTree

\* Nodes of a heap have names.
LEMMA NamesOfNode ==
  ASSUME NEW h \in Heaps, NEW n \in 1 .. Len(h)
  PROVE  /\ h[n].node_name \in Name \cup {""}
         /\ h[n].addr_name \in Name \cup {""}
         /\ h[n].index_name \in Name \cup {""}
  BY NodeOfHeap DEF NodeRecord

\* A name is read, and its node made; anything else ends the process.
LEMMA OperandStep ==
  ASSUME TreeInv, NEW t \in Token, Operand(t)
  PROVE  TreeInv'
  <1>1. text' \in Seq(Token) /\ token' \in Token
    BY TokenRead DEF Operand, TreeInv
  <1>2. CASE t \in Name /\ (name_type_map[t] # NoType \/ t \in iterates_set)
    <2> DEFINE x == NewNode("var", <<>>, t, "", "")
    <2>1. /\ pc = "operand" /\ Make(<<x>>) /\ node' = Len(heap) + 1 /\ pc' = "suffix"
          /\ UNCHANGED <<frames, declaration, header, sets, output, root>>
      BY <1>2 DEF Operand
    <2>2. x \in NodeRecord /\ x.kind = "var" /\ x.kids = <<>> /\ x.node_name = t
      <3>1. "var" \in NodeKind
        BY DEF NodeKind
      <3>2. <<>> \in Seq(Nat)
        OBVIOUS
      <3>3. t \in Name \cup {""}
        BY <1>2
      <3>4. "" \in Name \cup {""}
        OBVIOUS
      <3> QED
        BY <3>1, <3>2, <3>3, <3>4 DEF NewNode, NodeRecord
    <2> HIDE DEF x
    <2>3. heap \in Heaps /\ Counted(heap, need) /\ TypeOK /\ Stack
      BY HeapIs DEF TreeInv
    <2>4. Fits(heap, x)
      BY <2>2, NoKids, ArityOfKinds DEF Fits
    <2>5. heap' = Append(heap, x) /\ addr' = addr
      BY <2>1, <2>3, <2>4, MakeOne DEF output
    <2>6. InExpression /\ ~Live /\ Live'
      BY <2>1 DEF InExpression, Live
    <2>7. Unwound
      <3>1. frames \in Seq(Frame(Node)) /\ frames # <<>>
        BY <2>3, <2>6, FramesType DEF Stack
      <3> QED
        BY <2>1, <3>1 DEF Unwound
    <2>8. Taken(x)
      <3>1. Waiting \subseteq Waiting'
        BY <2>1, <2>6 DEF Waiting, output
      <3> QED
        BY <1>2, <2>2, <2>4, <3>1, NoKids DEF Taken
    <2>9. SetsFollowTree'
      BY <2>1, <2>2, <2>4, <2>5, SetsSame
    <2>10. gather_set' \cup scatter_set' \cup reduction_set' \cup load_set' \subseteq Name
      BY <2>1, <2>3 DEF sets, TypeOK
    <2> QED
      BY <1>1, <2>1, <2>2, <2>6, <2>7, <2>8, <2>9, <2>10, MadeNode
  <1>3. CASE ~(t \in Name /\ (name_type_map[t] # NoType \/ t \in iterates_set))
    <2>1. Fatal /\ pc # "done"
      BY <1>3 DEF Operand
    <2> QED
      BY <1>1, <2>1, GotoStep
  <1> QED
    BY <1>2, <1>3

\* The expression of a call and what called it.
Caller ==
  /\ Live
  /\ Len(frames) >= 2 /\ Len(frames) \in Nat
  /\ Top = frames[Len(frames)]
  /\ Top.left \in Node /\ node \in Node
  /\ Top.left < node
  /\ addr < Top.left /\ out_index < Top.left /\ addr < node /\ out_index < node
  /\ \A f \in 1 .. Len(frames) - 1 : frames[f].left < Top.left /\ frames[f].left < node

\* Below the call that returns there is another.
LEMMA CallerIs ==
  ASSUME TreeInv, pc = "return", Top.place \in {"index", "right"}
  PROVE  Caller
  <1>1. TypeOK /\ Stack /\ Pending /\ Node = 1 .. Len(heap) /\ Len(heap) \in Nat
    BY HeapIs DEF TreeInv
  <1>2. Live /\ InExpression /\ Reading
    BY DEF Live, InExpression, Reading
  <1>3. /\ frames # <<>> /\ frames[1].place \in {"output index", "data"} /\ frames[1].left = 0
    BY <1>1, <1>2 DEF Stack
  <1>4. Top = frames[Len(frames)]
    BY <1>1, <1>3, TopOfFrames
  <1>5. Len(frames) # 1
    BY <1>3, <1>4
  <1>10. Len(frames) \in Nat /\ Len(frames) >= 1
    BY <1>1, <1>3, TopOfFrames
  <1>6. Len(frames) \in 2 .. Len(frames) /\ Len(frames) >= 2
    BY <1>5, <1>10
  <1>7. /\ Top.left \in Node /\ addr < Top.left /\ out_index < Top.left
        /\ \A g \in 2 .. Len(frames) - 1 : frames[g].left < Top.left
        /\ Top.left < node
        /\ node \in Node /\ addr < node /\ out_index < node
    BY <1>1, <1>2, <1>4, <1>6 DEF Pending, YoungerThanOutput
  <1>8. \A f \in 2 .. Len(frames) : frames[f].left < node
    BY <1>1, <1>2 DEF Pending
  <1>9. ASSUME NEW f \in 1 .. Len(frames) - 1
        PROVE  frames[f].left < Top.left /\ frames[f].left < node
    <2>1. CASE f = 1
      <3>1. frames[f].left = 0
        BY <1>3, <2>1
      <3>2. 0 < Top.left /\ 0 < node
        BY <1>1, <1>7
      <3> QED
        BY <3>1, <3>2
    <2>2. CASE f # 1
      <3>1. f \in 2 .. Len(frames) - 1 /\ f \in 2 .. Len(frames)
        BY <1>10, <2>2
      <3> QED
        BY <1>7, <1>8, <3>1
    <2> QED
      BY <2>1, <2>2
  <1> QED
    BY <1>2, <1>4, <1>6, <1>7, <1>9, <1>10 DEF Caller

\* The call returns, and its node is made of all or some of what it waited for.
LEMMA Returned ==
  ASSUME TreeInv, Caller, NEW x, Fits(heap, x), x.kind \notin {"var", "scatter", "store"},
         frames' = Front(frames), node' = Len(heap) + 1, Live', UNCHANGED output,
         \/ Range(x.kids) = {Top.left, node}
         \/ Range(x.kids) = {Top.left} /\ heap[node].kids = <<>>
  PROVE  Taken(x) /\ Unwound
  <1>1. TypeOK /\ frames # <<>> /\ heap \in Heaps /\ Node = 1 .. Len(heap)
    BY HeapIs DEF TreeInv, Caller
  <1>2. /\ frames' \in Seq(Frame(Node))
        /\ Len(frames) \in Nat /\ Len(frames') = Len(frames) - 1
        /\ DOMAIN frames' = 1 .. Len(frames) - 1
        /\ \A f \in 1 .. Len(frames) - 1 : frames'[f] = frames[f]
    BY <1>1, Popped
  <1>3. {frames[f].left : f \in DOMAIN frames}
          = {frames'[f].left : f \in DOMAIN frames'} \cup {Top.left}
    BY <1>1, Popped
  <1>4. Unwound
    <2>1. Len(frames') # 0 /\ Len(frames') <= Len(frames)
      BY <1>2 DEF Caller
    <2>2. frames' # <<>>
      BY <2>1
    <2> QED
      BY <1>2, <2>1, <2>2 DEF Unwound
  <1>5. \A n \in Range(x.kids) :
          addr < n /\ out_index < n /\ \A f \in 1 .. Len(frames') : frames[f].left < n
    BY <1>2 DEF Caller
  <1>6. ASSUME NEW n \in Waiting \ Range(x.kids)
        PROVE  n \in Waiting' \/ heap[n].kids = <<>>
    <2>1. n \in {addr, out_index} \/ n \in {frames'[f].left : f \in DOMAIN frames'}
            \/ n \in {Top.left, node}
      BY <1>3, <1>6 DEF Waiting
    <2>2. n # 0
      BY DEF Waiting
    <2>3. n \in {addr, out_index} \/ n \in {frames'[f].left : f \in DOMAIN frames'}
            => n \in Waiting'
      BY <2>2 DEF Waiting, output
    <2>4. n \in {Top.left, node} => n = node /\ heap[node].kids = <<>>
      BY <1>6
    <2> QED
      BY <2>1, <2>3, <2>4
  <1> QED
    BY <1>4, <1>5, <1>6 DEF Taken

\* Variables and loads read in an expression have names.
LEMMA NodesAreNamed ==
  ASSUME TreeInv, Reading, NEW n \in Node
  PROVE  /\ heap[n].kind = "var" /\ n # addr => heap[n].node_name \in Name
         /\ heap[n].kind = "load" => heap[n].addr_name \in Name
  <1>1. heap \in Heaps /\ Node = 1 .. Len(heap) /\ Len(heap) \in Nat /\ Pending
    BY HeapIs DEF TreeInv
  <1>2. \A m \in Node : heap[m].kind = "var" /\ m # addr => heap[m].node_name \in Name
    BY <1>1 DEF Pending
  <1>3. Uses(addr) = {}
    <2>1. addr \in Node
      BY <1>1 DEF Pending
    <2>2. addr \in Waiting
      BY <1>1, <2>1 DEF Waiting
    <2> QED
      BY <1>1, <2>2 DEF Pending
  <1>4. ASSUME heap[n].kind = "load"
        PROVE  heap[n].addr_name \in Name
    <2>1. WellMade(heap, n) /\ heap[n].kids \in Seq(Nat) /\ n \in DOMAIN heap
      BY <1>1, NodeOfHeap DEF Node
    <2>2. /\ 1 \in 1 .. Len(heap[n].kids)
          /\ heap[heap[n].kids[1]].kind = "var"
          /\ heap[n].addr_name = heap[heap[n].kids[1]].node_name
      BY <1>4, <2>1, ArityOfKinds DEF WellMade
    <2>3. heap[n].kids[1] \in Range(heap[n].kids)
      BY <2>1, <2>2, KidsInRange
    <2>4. heap[n].kids[1] \in Node
      BY <1>1, <2>1, <2>3 DEF WellMade
    <2>5. heap[n].kids[1] # addr
      BY <1>3, <2>1, <2>3 DEF Uses, UsesIn
    <2> QED
      BY <1>2, <2>2, <2>4, <2>5
  <1> QED
    BY <1>2, <1>4

\* "]" after an index: a gather or a load is made and is the operand.
LEMMA ReturnIndexStep ==
  ASSUME TreeInv, NEW t \in Token, ReturnIndex(t)
  PROVE  TreeInv'
  <1>1. text' \in Seq(Token) /\ token' \in Token
    BY TokenRead DEF ReturnIndex, TreeInv
  <1>2. pc = "return" /\ Top.place = "index"
    BY DEF ReturnIndex
  <1>3. Caller
    BY <1>2, CallerIs
  <1>4. /\ heap \in Heaps /\ Counted(heap, need) /\ TypeOK /\ Stack
        /\ Node = 1 .. Len(heap) /\ Len(heap) \in Nat
    BY HeapIs DEF TreeInv
  <1>5. InExpression /\ Reading /\ pc # "done"
    BY <1>2 DEF InExpression, Live, Reading
  <1>6. Top.left \in Nat /\ node \in Nat /\ Top.left # node /\ Top.left # addr /\ node # addr
    <2>1. /\ Top.left \in Node /\ node \in Node /\ Top.left < node
          /\ addr < Top.left /\ addr < node /\ addr \in Node \cup {0}
      BY <1>3, <1>4 DEF Caller, TypeOK
    <2> QED
      BY <1>4, <2>1
  <1>7. heap[Top.left].kind = "var"
    <2>1. Len(frames) \in DOMAIN frames
      BY <1>3, <1>4, FramesType DEF Caller
    <2> QED
      BY <1>2, <1>3, <1>4, <1>5, <2>1 DEF Stack, Caller
  <1>8. heap[Top.left].node_name \in Name
    BY <1>3, <1>5, <1>6, <1>7, NodesAreNamed DEF Caller
  <1>9. CASE Fatal
    BY <1>1, <1>5, <1>9, GotoStep
  <1>10. CASE ~Fatal /\ heap[node].kind = "load"
    <2> DEFINE index == heap[node].addr_name
               name == heap[Top.left].node_name
               x == NewNode("gather", <<Top.left, node>>, index, name, index)
    <2>1. /\ GatherElement(Top.left) /\ node' = Len(heap) + 1 /\ frames' = Front(frames)
          /\ pc' = "operator" /\ UNCHANGED <<declaration, header, output, root>>
      BY <1>10 DEF ReturnIndex
    <2>2. /\ Make(<<x>>) /\ gather_set' = gather_set \cup {index}
          /\ load_set' = load_set \ {index} /\ UNCHANGED <<scatter_set, reduction_set>>
      BY <2>1 DEF GatherElement
    <2>3. index \in Name
      BY <1>3, <1>5, <1>10, NodesAreNamed DEF Caller
    <2>4. "gather" \in NodeKind
      BY DEF NodeKind
    <2>5. /\ <<Top.left, node>> \in Seq(Nat) /\ Len(<<Top.left, node>>) = 2
          /\ <<Top.left, node>>[1] = Top.left /\ <<Top.left, node>>[2] = node
          /\ Range(<<Top.left, node>>) = {Top.left, node} /\ IsInjective(<<Top.left, node>>)
      BY <1>6, TwoKids
    <2>6. /\ x \in NodeRecord /\ x.kind = "gather" /\ x.kids = <<Top.left, node>>
          /\ x.addr_name = name /\ x.index_name = index
      BY <1>8, <2>3, <2>4, <2>5 DEF NewNode, NodeRecord
    <2> HIDE DEF x
    <2>7. /\ Range(x.kids) = {Top.left, node} /\ Len(x.kids) = 2 /\ IsInjective(x.kids)
          /\ x.kids[1] = Top.left /\ x.kids[2] = node
      BY <2>5, <2>6
    <2>8. Fits(heap, x)
      BY <1>3, <1>4, <1>7, <1>10, <2>6, <2>7, ArityOfKinds DEF Fits, Caller
    <2>9. heap' = Append(heap, x) /\ addr' = addr
      BY <1>4, <2>1, <2>2, <2>8, MakeOne DEF output
    <2>10. Live' /\ pc' # "suffix"
      BY <2>1 DEF Live
    <2>11. Taken(x) /\ Unwound
      BY <1>3, <2>1, <2>6, <2>7, <2>8, <2>10, Returned
    <2>12. SetsFollowTree'
      BY <1>6, <2>2, <2>6, <2>7, <2>8, <2>9, SetsGather
    <2>13. gather_set' \cup scatter_set' \cup reduction_set' \cup load_set' \subseteq Name
      BY <1>4, <2>2, <2>3 DEF TypeOK
    <2> QED
      BY <1>1, <1>5, <2>1, <2>2, <2>10, <2>11, <2>12, <2>13, MadeNode
  <1>11. CASE ~Fatal /\ heap[node].kind # "load"
    <2> DEFINE index == heap[node].node_name
               name == heap[Top.left].node_name
               x == NewNode("load", <<Top.left>>, index, name, index)
    <2>1. /\ heap[node].kind = "var" /\ LoadElement(Top.left) /\ node' = Len(heap) + 1
          /\ frames' = Front(frames)
          /\ pc' = "operator" /\ UNCHANGED <<declaration, header, output, root>>
      BY <1>11 DEF ReturnIndex
    <2>2. /\ Make(<<x>>) /\ load_set' = load_set \cup {name}
          /\ UNCHANGED <<gather_set, scatter_set, reduction_set>>
      BY <2>1 DEF LoadElement
    <2>3. index \in Name
      BY <1>3, <1>5, <1>6, <2>1, NodesAreNamed DEF Caller
    <2>4. "load" \in NodeKind
      BY DEF NodeKind
    <2>5. /\ <<Top.left>> \in Seq(Nat) /\ Len(<<Top.left>>) = 1 /\ <<Top.left>>[1] = Top.left
          /\ Range(<<Top.left>>) = {Top.left} /\ IsInjective(<<Top.left>>)
      BY <1>6, OneKid
    <2>6. /\ x \in NodeRecord /\ x.kind = "load" /\ x.kids = <<Top.left>>
          /\ x.addr_name = name /\ x.index_name = index
      BY <1>8, <2>3, <2>4, <2>5 DEF NewNode, NodeRecord
    <2> HIDE DEF x
    <2>7. /\ Range(x.kids) = {Top.left} /\ Len(x.kids) = 1 /\ IsInjective(x.kids)
          /\ x.kids[1] = Top.left
      BY <2>5, <2>6
    <2>8. Fits(heap, x)
      BY <1>3, <1>4, <1>7, <2>6, <2>7, ArityOfKinds DEF Fits, Caller
    <2>9. heap' = Append(heap, x) /\ addr' = addr
      BY <1>4, <2>1, <2>2, <2>8, MakeOne DEF output
    <2>10. Live' /\ pc' # "suffix"
      BY <2>1 DEF Live
    <2>11. heap[node].kids = <<>>
      <3>1. node \in 1 .. Len(heap)
        BY <1>3, <1>4 DEF Caller
      <3>2. WellMade(heap, node) /\ heap[node].kids \in Seq(Nat)
        BY <1>4, <3>1, NodeOfHeap
      <3>3. Len(heap[node].kids) = 0
        BY <2>1, <3>2, ArityOfKinds DEF WellMade
      <3> QED
        BY <3>2, <3>3
    <2>12. Taken(x) /\ Unwound
      BY <1>3, <2>1, <2>6, <2>7, <2>8, <2>10, <2>11, Returned
    <2>13. SetsFollowTree'
      BY <1>6, <2>2, <2>6, <2>7, <2>8, <2>9, SetsLoad
    <2>14. gather_set' \cup scatter_set' \cup reduction_set' \cup load_set' \subseteq Name
      BY <1>4, <1>8, <2>2 DEF TypeOK
    <2> QED
      BY <1>1, <1>5, <2>1, <2>2, <2>10, <2>12, <2>13, <2>14, MadeNode
  <1> QED
    BY <1>9, <1>10, <1>11

\* The right operand has been read: the node of the operator is made.
LEMMA ReturnRightStep ==
  ASSUME TreeInv, ReturnRight
  PROVE  TreeInv'
  <1>1. /\ heap \in Heaps /\ Counted(heap, need) /\ TypeOK /\ Stack
        /\ Node = 1 .. Len(heap) /\ Len(heap) \in Nat
    BY HeapIs DEF TreeInv
  <1>2. text' \in Seq(Token) /\ token' \in Token
    BY <1>1 DEF ReturnRight, TypeOK
  <1>3. pc = "return" /\ Top.place = "right"
    BY DEF ReturnRight
  <1>4. Caller
    BY <1>3, CallerIs
  <1>5. InExpression /\ pc # "done"
    BY <1>3 DEF InExpression, Live
  <1>6. Top.left \in Nat /\ node \in Nat /\ Top.left # node
    <2>1. Top.left \in Node /\ node \in Node /\ Top.left < node
      BY <1>4 DEF Caller
    <2> QED
      BY <1>1, <2>1
  <1>7. Top.operator \in Binary
    <2>1. Len(frames) \in DOMAIN frames
      BY <1>1, <1>4, FramesType DEF Caller
    <2> QED
      BY <1>1, <1>3, <1>4, <1>5, <2>1 DEF Stack, Caller
  <1> DEFINE x == NewNode(Top.operator, <<Top.left, node>>, "", "", "")
  <1>8. /\ Make(<<x>>) /\ node' = Len(heap) + 1 /\ frames' = Front(frames)
        /\ UNCHANGED <<pc, declaration, header, sets, output, root>>
    BY DEF ReturnRight
  <1>9. /\ <<Top.left, node>> \in Seq(Nat) /\ Len(<<Top.left, node>>) = 2
        /\ Range(<<Top.left, node>>) = {Top.left, node} /\ IsInjective(<<Top.left, node>>)
    BY <1>6, TwoKids
  <1>10. Top.operator \in NodeKind
    BY <1>7 DEF NodeKind
  <1>11. x \in NodeRecord /\ x.kind = Top.operator /\ x.kids = <<Top.left, node>>
    BY <1>9, <1>10 DEF NewNode, NodeRecord
  <1> HIDE DEF x
  <1>12. Range(x.kids) = {Top.left, node} /\ Len(x.kids) = 2 /\ IsInjective(x.kids)
    BY <1>9, <1>11
  <1>13. x.kind \notin {"var", "load", "gather", "scatter", "store"}
    BY <1>7, <1>11 DEF Binary
  <1>14. Arity(x.kind) = 2
    BY <1>7, <1>11, ArityOfKinds
  <1>15. Fits(heap, x)
    BY <1>1, <1>4, <1>11, <1>12, <1>13, <1>14 DEF Fits, Caller
  <1>16. heap' = Append(heap, x) /\ addr' = addr
    BY <1>1, <1>8, <1>15, MakeOne DEF output
  <1>17. Live' /\ pc' # "suffix"
    BY <1>3, <1>8 DEF Live
  <1>18. Taken(x) /\ Unwound
    BY <1>4, <1>8, <1>12, <1>13, <1>15, <1>17, Returned
  <1>19. SetsFollowTree'
    BY <1>7, <1>8, <1>11, <1>15, <1>16, SetsSame
  <1>20. gather_set' \cup scatter_set' \cup reduction_set' \cup load_set' \subseteq Name
    BY <1>1, <1>8 DEF TypeOK, sets
  <1> QED
    BY <1>2, <1>5, <1>8, <1>17, <1>18, <1>19, <1>20, MadeNode

\* The calls.
LEMMA OutputBracketStep ==
  ASSUME TreeInv, NEW t \in Token, OutputBracket(t)
  PROVE  TreeInv'
  <1>1. text' \in Seq(Token) /\ token' \in Token /\ pc = "output bracket"
    BY TokenRead DEF OutputBracket, TreeInv
  <1>2. CASE t = "LeftBracket"
    <2>1. /\ Call("output index", 0, "End")
          /\ UNCHANGED <<node, declaration, header, tree, sets, output, root>>
      BY <1>2 DEF OutputBracket
    <2>2. FirstCall("output index", 0)
      BY <1>1 DEF TreeInv, Stack, FirstCall
    <2>3. "End" \in Token
      BY DEF Token, Kind
    <2> QED
      BY <1>1, <2>1, <2>2, <2>3, CallStep
  <1>3. CASE t # "LeftBracket"
    BY <1>1, <1>3, NextPoint DEF OutputBracket
  <1> QED
    BY <1>2, <1>3

\* "+=" or "*=", and the data is read next; anything else ends the process.
LEMMA EqualTypeStep ==
  ASSUME TreeInv, EqualType
  PROVE  TreeInv'
  <1>1. text' \in Seq(Token) /\ token' \in Token /\ token \in Token /\ pc = "equal"
    BY DEF EqualType, TreeInv, TypeOK
  <1>2. CASE token \in {"AddEquel", "MultEquel"}
    <2>1. /\ Call("data", 0, token)
          /\ UNCHANGED <<node, declaration, header, tree, sets, output, root>>
      BY <1>2 DEF EqualType
    <2>2. FirstCall("data", 0)
      BY <1>1 DEF FirstCall
    <2> QED
      BY <1>1, <2>1, <2>2, CallStep
  <1>3. CASE token \notin {"AddEquel", "MultEquel"}
    <2>1. Fatal
      BY <1>3 DEF EqualType
    <2> QED
      BY <1>1, <2>1, GotoStep
  <1> QED
    BY <1>2, <1>3

\* After a name: an index follows or not.
LEMMA SuffixStep ==
  ASSUME TreeInv, NEW t \in Token, Suffix(t)
  PROVE  TreeInv'
  <1>1. text' \in Seq(Token) /\ token' \in Token /\ pc = "suffix"
    BY TokenRead DEF Suffix, TreeInv
  <1>2. CASE t = "LeftBracket"
    <2>1. /\ Call("index", node, "End")
          /\ UNCHANGED <<node, declaration, header, tree, sets, output, root>>
      BY <1>2 DEF Suffix
    <2>2. NestedCall("index", node, "End")
      BY <1>1 DEF TreeInv, Stack, NestedCall
    <2>3. "End" \in Token
      BY DEF Token, Kind
    <2> QED
      BY <1>1, <2>1, <2>2, <2>3, CallStep
  <1>3. CASE t # "LeftBracket"
    BY <1>1, <1>3, NextPoint DEF Suffix
  <1> QED
    BY <1>2, <1>3

\* After an operand: an operator follows, or the call returns.
LEMMA OperatorStep ==
  ASSUME TreeInv, Operator
  PROVE  TreeInv'
  <1>1. text' \in Seq(Token) /\ token' \in Token /\ token \in Token /\ pc = "operator"
    BY DEF Operator, TreeInv, TypeOK
  <1>2. CASE token \in Binary
    <2>1. /\ Call("right", node, token)
          /\ UNCHANGED <<node, declaration, header, tree, sets, output, root>>
      BY <1>2 DEF Operator
    <2>2. NestedCall("right", node, token)
      BY <1>1, <1>2 DEF NestedCall
    <2> QED
      BY <1>1, <2>1, <2>2, CallStep
  <1>3. CASE token \notin Binary
    BY <1>1, <1>3, NextPoint DEF Operator
  <1> QED
    BY <1>2, <1>3

\* An index without its closing bracket ends the process.
LEMMA MissingBracketStep ==
  ASSUME TreeInv, MissingBracket
  PROVE  TreeInv'
  <1>1. text' \in Seq(Token) /\ token' \in Token /\ pc # "done" /\ Fatal
    BY DEF MissingBracket, TreeInv, TypeOK
  <1> QED
    BY <1>1, GotoStep

\* The node of the output is the first.
LEMMA OutputNodeStep ==
  ASSUME TreeInv, NEW t \in Token, OutputNode(t)
  PROVE  TreeInv'
  <1>1. text' \in Seq(Token) /\ token' \in Token /\ pc = "output name"
    BY TokenRead DEF OutputNode, TreeInv
  <1>2. CASE TokenName(t) # output_name
    <2>1. Fatal
      BY <1>2 DEF OutputNode
    <2> QED
      BY <1>1, <2>1, GotoStep
  <1>3. CASE TokenName(t) = output_name
    <2> DEFINE x == NewNode("var", <<>>, output_name, "", "")
    <2>1. /\ Make(<<x>>) /\ addr' = Len(heap) + 1 /\ pc' = "output bracket"
          /\ UNCHANGED <<frames, node, declaration, header, sets, out_index, root>>
      BY <1>3 DEF OutputNode
    <2>2. /\ heap \in Heaps /\ Counted(heap, need) /\ TypeOK /\ Stack /\ SetsFollowTree
          /\ Node = 1 .. Len(heap)
      BY HeapIs DEF TreeInv
    <2>3. /\ ~Reading /\ ~InExpression /\ ~Live /\ pc \notin {"done", "fatal"}
          /\ Reading' /\ ~InExpression' /\ ~Live'
          /\ pc' \notin {"done", "fatal", "suffix", "declare output"}
      BY <1>1, <2>1 DEF Reading, InExpression, Live
    <2>4. heap = <<>> /\ Len(heap) = 0 /\ addr = 0 /\ out_index = 0 /\ frames = <<>> /\ root = 0
      BY <2>2, <2>3 DEF Stack
    <2>5. x \in NodeRecord /\ x.kind = "var" /\ x.kids = <<>> /\ x.node_name = output_name
      <3>1. "var" \in NodeKind
        BY DEF NodeKind
      <3>2. <<>> \in Seq(Nat)
        OBVIOUS
      <3>3. output_name \in Name \cup {""}
        BY <2>2 DEF TypeOK
      <3>4. "" \in Name \cup {""}
        OBVIOUS
      <3> QED
        BY <3>1, <3>2, <3>3, <3>4 DEF NewNode, NodeRecord
    <2> HIDE DEF x
    <2>6. Fits(heap, x)
      BY <2>5, NoKids, ArityOfKinds DEF Fits
    <2>7. heap' = Append(heap, x) /\ Counted(heap', need')
      BY <2>1, <2>2, <2>6, MakeOne
    <2>8. heap' \in Heaps /\ Len(heap') = 1 /\ heap'[1] = x
      <3>1. heap' \in Heaps /\ Len(heap') = Len(heap) + 1 /\ heap'[Len(heap) + 1] = x
        BY <2>2, <2>6, <2>7, AddedNode
      <3>2. Len(heap) + 1 = 1
        BY <2>4
      <3> QED
        BY <3>1, <3>2
    <2>9. Node' = {1} /\ addr' = 1 /\ out_index' = 0 /\ root' = 0 /\ frames' = <<>>
      <3>1. Node' = 1 .. 1
        BY <2>8 DEF Node, Heaps
      <3>2. 1 .. 1 = {1}
        OBVIOUS
      <3>3. addr' = 1
        <4>1. addr' = Len(heap) + 1
          BY <2>1
        <4>2. Len(heap) + 1 = 1
          BY <2>4
        <4> QED
          BY <4>1, <4>2
      <3>4. out_index' = 0 /\ root' = 0 /\ frames' = <<>>
        BY <2>1, <2>4
      <3> QED
        BY <3>1, <3>2, <3>3, <3>4
    <2>10. /\ heap' \in Seq(NodeRecord) /\ need' \in [Node' -> Nat]
           /\ NeedCountsUses' /\ HeapWellMade'
      BY <2>7, <2>8, HeapBack DEF Node, NeedCountsUses, Uses, HeapWellMade
    <2>11. TypeOK'
      <3>1. node' \in Node' \cup {0}
        <4>1. node \in Node \cup {0} /\ node' = node
          BY <2>1, <2>2 DEF TypeOK
        <4>2. Node = 1 .. 0 /\ 1 .. 0 = {}
          BY <2>2, <2>4
        <4> QED
          BY <4>1, <4>2
      <3>2. frames' \in Seq(Frame(Node'))
        BY <2>9
      <3>3. gather_set' \cup scatter_set' \cup reduction_set' \cup load_set' \subseteq Name
        BY <2>1, <2>2 DEF TypeOK, sets
      <3> QED
        BY <1>1, <2>1, <2>9, <2>10, <3>1, <3>2, <3>3, TypeStep
    <2>12. HeaderKnown'
      BY <2>1, <2>2, <2>3 DEF HeaderKnown, Stack, header
    <2>13. Stack'
      <3>1. Len(frames') = 0
        BY <2>9
      <3> QED
        BY <2>3, <2>9, <2>12 DEF Stack, HeaderKnown
    <2>14. Waiting' = {1}
      <3>1. {frames'[f].left : f \in DOMAIN frames'} = {}
        BY <2>9
      <3> QED
        <4>1. Waiting' = ({addr', out_index'} \cup {}) \ {0}
          BY <2>3, <3>1 DEF Waiting
        <4>2. addr' = 1 /\ out_index' = 0
          BY <2>9
        <4> QED
          BY <4>1, <4>2
    <2>15. Uses(1)' = {}
      BY <2>5, <2>8, <2>9, NoKids DEF Uses, UsesIn, Node
    <2>16. Pending'
      <3>1. 2 .. Len(frames') = {}
        BY <2>9
      <3>2. /\ heap'[1].kind = "var" /\ heap'[1].node_name = output_name /\ heap'[1].kids = <<>>
            /\ output_name' = output_name
        BY <2>1, <2>5, <2>8 DEF header
      <3> QED
        BY <2>3, <2>9, <2>14, <2>15, <3>1, <3>2 DEF Pending
    <2>17. SetsFollowTree'
      <3>1. GatherIndices = {} /\ ScatterIndices = {} /\ Loaded = {}
        BY <2>4 DEF GatherIndices, ScatterIndices, Loaded, Inputs, Indices, OfKind, Node
      <3>2. \A n \in Node' : heap'[n].kind = "var"
        BY <2>5, <2>8, <2>9
      <3>3. GatherIndices' = {} /\ ScatterIndices' = {} /\ Loaded' = {}
        BY <3>2 DEF GatherIndices, ScatterIndices, Loaded, Inputs, Indices, OfKind
      <3> QED
        BY <2>1, <2>2, <3>1, <3>3 DEF SetsFollowTree, sets
    <2> QED
      BY <2>9, <2>10, <2>11, <2>13, <2>16, <2>17 DEF TreeInv, Rooted
  <1> QED
    BY <1>2, <1>3

\* The calls above the first.
LEMMA BeyondOne == \A n \in Nat : n >= 1 /\ n # 1 => n \in 2 .. n
  OBVIOUS

\* "]" after the index of the output.
LEMMA ReturnOutputIndexStep ==
  ASSUME TreeInv, NEW t \in Token, ReturnOutputIndex(t)
  PROVE  TreeInv'
  <1>1. /\ text' \in Seq(Token) /\ token' \in Token
        /\ pc = "return" /\ Top.place = "output index"
    BY TokenRead DEF ReturnOutputIndex, TreeInv
  <1>2. /\ out_index' = node /\ frames' = Front(frames) /\ pc' = "equal"
        /\ UNCHANGED <<node, declaration, header, heap, need, sets, addr, root>>
    BY DEF ReturnOutputIndex, tree
  <1>3. TypeOK /\ Stack /\ Pending /\ Node = 1 .. Len(heap) /\ Len(heap) \in Nat
    BY HeapIs DEF TreeInv
  <1>4. /\ Live /\ InExpression /\ Reading
        /\ ~Live' /\ ~InExpression' /\ Reading'
        /\ pc' \notin {"output bracket", "suffix", "declare output", "done", "fatal"}
    BY <1>1, <1>2 DEF Live, InExpression, Reading
  <1>5. frames # <<>>
    BY <1>3, <1>4 DEF Stack
  <1>6. Len(frames) \in Nat /\ Len(frames) >= 1
    BY <1>3, <1>5, TopOfFrames
  <1>7. Len(frames) = 1
    <2>1. \A f \in 2 .. Len(frames) : frames[f].place \in {"index", "right"}
      BY <1>3, <1>4 DEF Stack
    <2>2. frames[Len(frames)].place = "output index"
      BY <1>1, <1>3, <1>5, TopOfFrames
    <2>3. Len(frames) \notin 2 .. Len(frames)
      BY <2>1, <2>2
    <2>4. Len(frames) # 1 => Len(frames) \in 2 .. Len(frames)
      BY <1>6, BeyondOne
    <2> QED
      BY <2>3, <2>4
  <1>8. frames' = <<>>
    <2>1. frames' \in Seq(Frame(Node)) /\ Len(frames') = 0
      BY <1>2, <1>3, <1>5, <1>7, Popped
    <2> QED
      BY <2>1
  <1>9. /\ NeedCountsUses' /\ HeapWellMade' /\ SetsFollowTree'
        /\ Node' = Node /\ \A m : Uses(m)' = Uses(m)
    BY <1>2, SameTree
  <1>10. node \in Node /\ addr \in Node /\ addr < node
    BY <1>3, <1>4 DEF Pending, YoungerThanOutput
  <1>11. out_index = 0
    <2>1. Top = frames[1]
      BY <1>3, <1>5, <1>7, TopOfFrames
    <2> QED
      BY <1>1, <1>3, <1>4, <2>1 DEF Stack
  <1>12. root = 0 /\ root' = 0
    BY <1>1, <1>2, <1>3 DEF Stack
  <1>13. TypeOK'
    <2>1. frames' \in Seq(Frame(Node'))
      BY <1>8
    <2>2. /\ heap' \in Seq(NodeRecord) /\ need' \in [Node' -> Nat]
          /\ node' \in Node' \cup {0} /\ root' \in Node' \cup {0}
          /\ addr' \in Node' \cup {0} /\ out_index' \in Node' \cup {0}
          /\ gather_set' \cup scatter_set' \cup reduction_set' \cup load_set' \subseteq Name
      BY <1>2, <1>3, <1>9, <1>10 DEF TypeOK, sets
    <2> QED
      BY <1>1, <1>2, <2>1, <2>2, TypeStep
  <1>14. HeaderKnown'
    BY <1>2, <1>3, <1>4 DEF HeaderKnown, Stack, header
  <1>15. Stack'
    BY <1>4, <1>8, <1>12, <1>14 DEF Stack, HeaderKnown
  <1>16. Waiting' \subseteq Waiting /\ Waiting \subseteq Waiting'
    <2>1. {frames'[f].left : f \in DOMAIN frames'} = {}
      BY <1>8
    <2>2. Waiting' = {addr, node} \ {0}
      BY <1>2, <1>4, <2>1 DEF Waiting
    <2>3. {frames[f].left : f \in DOMAIN frames} = {0}
      <3>1. DOMAIN frames = {1}
        <4>1. DOMAIN frames = 1 .. 1
          BY <1>3, <1>5, <1>7, TopOfFrames
        <4>2. 1 .. 1 = {1}
          OBVIOUS
        <4> QED
          BY <4>1, <4>2
      <3>2. frames[1].left = 0
        BY <1>3, <1>4 DEF Stack
      <3> QED
        BY <3>1, <3>2
    <2>4. Waiting = {addr, node} \ {0}
      BY <1>4, <1>11, <2>3 DEF Waiting
    <2> QED
      BY <2>2, <2>4
  <1>17. Pending'
    <2>1. 2 .. Len(frames') = {}
      BY <1>8
    <2>2. output_name' = output_name
      BY <1>2 DEF header
    <2>3. \A m \in Waiting' : Uses(m)' = {}
      BY <1>3, <1>4, <1>9, <1>16 DEF Pending
    <2>4. \A n \in Node' :
            /\ heap'[n].kind \notin {"scatter", "store"}
            /\ heap'[n].kind = "var" /\ n # addr' => heap'[n].node_name \in Name
            /\ Uses(n)' = {} /\ heap'[n].kids # <<>> => n \in Waiting'
      BY <1>2, <1>3, <1>4, <1>9, <1>16 DEF Pending
    <2>5. addr' \in Node' /\ heap'[addr'].kind = "var" /\ heap'[addr'].node_name = output_name'
      BY <1>2, <1>3, <1>4, <1>9, <2>2 DEF Pending
    <2> QED
      BY <1>2, <1>4, <1>10, <2>1, <2>3, <2>4, <2>5 DEF Pending
  <1> QED
    BY <1>9, <1>12, <1>13, <1>15, <1>17 DEF TreeInv, Rooted

-----------------------------------------------------------------------------
(***************************************************************************)
(* The last three nodes                                                    *)
(***************************************************************************)
\* The data has been read, with an index before it.
LEMMA LastCall ==
  ASSUME TreeInv, pc = "return", Top.place = "data", out_index # 0
  PROVE  /\ Len(frames) = 1 /\ frames # <<>>
         /\ addr \in Node /\ out_index \in Node /\ node \in Node
         /\ addr < out_index /\ out_index < node
         /\ heap[addr].kind = "var" /\ heap[addr].node_name = output_name
         /\ Waiting = {addr, out_index, node}
  <1>1. TypeOK /\ Stack /\ Pending /\ Node = 1 .. Len(heap) /\ Len(heap) \in Nat
    BY HeapIs DEF TreeInv
  <1>2. Live /\ InExpression /\ Reading
    BY DEF Live, InExpression, Reading
  <1>3. frames # <<>>
    BY <1>1, <1>2 DEF Stack
  <1>4. Len(frames) \in Nat /\ Len(frames) >= 1
    BY <1>1, <1>3, TopOfFrames
  <1>5. Len(frames) = 1
    <2>1. \A f \in 2 .. Len(frames) : frames[f].place \in {"index", "right"}
      BY <1>1, <1>2 DEF Stack
    <2>2. frames[Len(frames)].place = "data"
      BY <1>1, <1>3, TopOfFrames
    <2>3. Len(frames) \notin 2 .. Len(frames)
      BY <2>1, <2>2
    <2> QED
      BY <1>4, <2>3, BeyondOne
  <1>6. /\ addr \in Node /\ heap[addr].kind = "var" /\ heap[addr].node_name = output_name
        /\ addr < out_index
        /\ node \in Node /\ out_index < node
    BY <1>1, <1>2 DEF Pending, YoungerThanOutput
  <1>7. out_index \in Node
    BY <1>1 DEF TypeOK
  <1>8. {frames[f].left : f \in DOMAIN frames} = {0}
    <2>1. DOMAIN frames = 1 .. 1
      BY <1>1, <1>3, <1>5, TopOfFrames
    <2>2. 1 .. 1 = {1}
      OBVIOUS
    <2>3. frames[1].left = 0
      BY <1>1, <1>2 DEF Stack
    <2> QED
      BY <2>1, <2>2, <2>3
  <1>9. 0 \notin Node
    BY <1>1
  <1>10. Waiting = {addr, out_index, node}
    BY <1>2, <1>6, <1>7, <1>8, <1>9 DEF Waiting
  <1> QED
    BY <1>3, <1>5, <1>6, <1>7, <1>10

\* The last three nodes made: only the root waits, and the stack is empty.
LEMMA Finished ==
  ASSUME TreeInv, text' \in Seq(Token), token' \in Token, pc' = "done",
         frames # <<>>, Len(frames) = 1, frames' = Front(frames),
         UNCHANGED <<node, declaration, header, output>>,
         heap' \in Heaps, Counted(heap', need'), Len(heap') = Len(heap) + 3,
         root' = Len(heap) + 3, heap'[Len(heap) + 3].kids # <<>>,
         Waits(heap', {Len(heap) + 3}),
         gather_set' \cup scatter_set' \cup reduction_set' \cup load_set' \subseteq Name,
         SetsFollowTree'
  PROVE  TreeInv'
  <1>1. TypeOK /\ Stack /\ Node = 1 .. Len(heap) /\ Len(heap) \in Nat
    BY HeapIs DEF TreeInv
  <1>2. Node' = 1 .. Len(heap) + 3 /\ Node \subseteq Node' /\ root' \in Node'
    BY <1>1 DEF Node, Heaps
  <1>3. /\ heap' \in Seq(NodeRecord) /\ need' \in [Node' -> Nat]
        /\ NeedCountsUses' /\ HeapWellMade'
    BY HeapBack DEF Node, NeedCountsUses, Uses, HeapWellMade
  <1>4. frames' = <<>>
    <2>1. frames' \in Seq(Frame(Node)) /\ Len(frames') = 0
      BY <1>1, Popped
    <2> QED
      BY <2>1
  <1>5. TypeOK'
    <2>1. frames' \in Seq(Frame(Node'))
      BY <1>4
    <2>2. /\ node' \in Node' \cup {0} /\ root' \in Node' \cup {0}
          /\ addr' \in Node' \cup {0} /\ out_index' \in Node' \cup {0}
      BY <1>1, <1>2 DEF TypeOK, output
    <2> QED
      BY <1>3, <2>1, <2>2, TypeStep
  <1>6. ~InExpression' /\ ~Reading' /\ pc' \notin {"output bracket", "suffix", "declare output"}
    BY DEF InExpression, Reading, Live
  <1>7. output_var_type'.pointer => output_name' \in Name
    BY <1>1 DEF Stack, header
  <1>8. Stack'
    BY <1>4, <1>6, <1>7 DEF Stack
  <1>9. Pending'
    BY <1>6 DEF Pending
  <1>10. Rooted'
    <2>1. /\ Uses(root)' = {}
          /\ \A n \in Node' : Uses(n)' = {} /\ heap'[n].kids # <<>> => n = root'
      BY <1>1, <1>2 DEF Waits, Uses
    <2> QED
      BY <2>1 DEF Rooted
  <1> QED
    BY <1>3, <1>5, <1>8, <1>9, <1>10 DEF TreeInv

\* Kinds of nodes, as members of their sets.
LEMMA StringsOfNodes ==
  /\ "gather" \in NodeKind /\ "Add" \in NodeKind /\ "scatter" \in NodeKind
  /\ "load" \in NodeKind /\ "store" \in NodeKind /\ "Add" \in Binary
  BY DEF NodeKind, Binary

\* The statement ends, and its output is scattered to.
LEMMA ScatterStep ==
  ASSUME TreeInv, text' \in Seq(Token), token' \in Token,
         pc = "return", Top.place = "data", out_index # 0, output_name \in Name,
         heap[out_index].kind = "load", ScatterTree, frames' = Front(frames), pc' = "done",
         UNCHANGED <<node, declaration, header, output>>
  PROVE  TreeInv'
  <1> DEFINE n == Len(heap)
             index == heap[out_index].addr_name
             x == NewNode("gather", <<addr, out_index>>, index, output_name, index)
             y == NewNode("Add", <<n + 1, node>>, output_name, "", index)
             z == NewNode("scatter", <<addr, out_index, n + 2>>, "", output_name, index)
  <1>1. /\ heap \in Heaps /\ Counted(heap, need) /\ TypeOK
        /\ Node = 1 .. n /\ n \in Nat
    BY HeapIs DEF TreeInv
  <1>2. /\ Len(frames) = 1 /\ frames # <<>>
        /\ addr \in Node /\ out_index \in Node /\ node \in Node
        /\ addr < out_index /\ out_index < node
        /\ heap[addr].kind = "var" /\ heap[addr].node_name = output_name
        /\ Waiting = {addr, out_index, node}
    BY LastCall
  <1>3. Reading
    BY DEF Reading, InExpression, Live
  <1>4. index \in Name
    BY <1>2, <1>3, NodesAreNamed
  <1>5. /\ Make(<<x, y, z>>) /\ root' = n + 3
        /\ reduction_set' = reduction_set \cup {index}
        /\ scatter_set' = scatter_set \cup {index}
        /\ load_set' = load_set \ {index} /\ UNCHANGED gather_set
    BY DEF ScatterTree
  <1>6. /\ addr \in Nat /\ out_index \in Nat /\ node \in Nat /\ n + 1 \in Nat /\ n + 2 \in Nat
        /\ addr # out_index /\ addr # n + 2 /\ out_index # n + 2 /\ n + 1 # node
        /\ addr # node /\ out_index # node
        /\ {addr, out_index} \subseteq 1 .. n /\ {n + 1, node} \subseteq 1 .. n + 1
        /\ {addr, out_index, n + 2} \subseteq 1 .. n + 2
    BY <1>1, <1>2
  <1> DEFINE xs == <<addr, out_index>>
             ys == <<n + 1, node>>
             zs == <<addr, out_index, n + 2>>
  <1>7. /\ xs \in Seq(Nat) /\ Len(xs) = 2 /\ xs[1] = addr /\ xs[2] = out_index
        /\ Range(xs) = {addr, out_index} /\ IsInjective(xs)
    BY <1>6, TwoKids
  <1>8. /\ ys \in Seq(Nat) /\ Len(ys) = 2 /\ Range(ys) = {n + 1, node} /\ IsInjective(ys)
    BY <1>6, TwoKids
  <1>9. /\ zs \in Seq(Nat) /\ Len(zs) = 3 /\ zs[1] = addr /\ zs[2] = out_index /\ zs # <<>>
        /\ Range(zs) = {addr, out_index, n + 2} /\ IsInjective(zs)
    BY <1>6, ThreeKids
  <1> HIDE DEF xs, ys, zs
  <1>10. /\ x \in NodeRecord /\ x.kind = "gather" /\ x.kids = xs
         /\ x.addr_name = output_name /\ x.index_name = index
    BY <1>4, <1>7, StringsOfNodes DEF NewNode, NodeRecord, xs
  <1>11. y \in NodeRecord /\ y.kind = "Add" /\ y.kids = ys
    BY <1>4, <1>8, StringsOfNodes DEF NewNode, NodeRecord, ys
  <1>12. /\ z \in NodeRecord /\ z.kind = "scatter" /\ z.kids = zs
         /\ z.addr_name = output_name /\ z.index_name = index
    BY <1>4, <1>9, StringsOfNodes DEF NewNode, NodeRecord, zs
  <1> HIDE DEF x, y, z
  <1> DEFINE h1 == Append(heap, x)
             h2 == Append(h1, y)
             h3 == Append(h2, z)
  <1>13. Fits(heap, x)
    <2>1. heap[x.kids[1]].kind = "var" /\ x.addr_name = heap[x.kids[1]].node_name
      BY <1>2, <1>7, <1>10
    <2>2. heap[x.kids[2]].kind = "load" /\ x.index_name = heap[x.kids[2]].addr_name
      BY <1>7, <1>10
    <2>3. /\ Len(x.kids) = Arity(x.kind) /\ IsInjective(x.kids)
          /\ Range(x.kids) \subseteq 1 .. n
      BY <1>6, <1>7, <1>10, ArityOfKinds
    <2> QED
      BY <1>10, <2>1, <2>2, <2>3 DEF Fits
  <1>14. /\ h1 \in Heaps /\ Len(h1) = n + 1
         /\ \A m \in 1 .. n : h1[m] = heap[m]
    BY <1>1, <1>13, AddedNode
  <1> HIDE DEF h1
  <1>15. Fits(h1, y)
    <2>1. Len(y.kids) = Arity(y.kind) /\ IsInjective(y.kids)
      BY <1>8, <1>11, ArityOfKinds, StringsOfNodes
    <2>2. Range(y.kids) \subseteq 1 .. Len(h1)
      BY <1>6, <1>8, <1>11, <1>14
    <2> QED
      BY <1>11, <2>1, <2>2 DEF Fits
  <1>16. /\ h2 \in Heaps /\ Len(h2) = Len(h1) + 1
         /\ \A m \in 1 .. Len(h1) : h2[m] = h1[m]
    BY <1>14, <1>15, AddedNode
  <1> HIDE DEF h2
  <1>17. Len(h2) = n + 2 /\ h2[addr] = heap[addr] /\ h2[out_index] = heap[out_index]
    <2>1. addr \in 1 .. n /\ out_index \in 1 .. n /\ addr \in 1 .. n + 1 /\ out_index \in 1 .. n + 1
      BY <1>1, <1>2
    <2>2. Len(h2) = n + 2
      BY <1>1, <1>14, <1>16
    <2> QED
      BY <1>14, <1>16, <2>1, <2>2
  <1>18. Fits(h2, z)
    <2>1. h2[z.kids[1]].kind = "var" /\ z.addr_name = h2[z.kids[1]].node_name
      BY <1>2, <1>9, <1>12, <1>17
    <2>2. h2[z.kids[2]].kind = "load" /\ z.index_name = h2[z.kids[2]].addr_name
      BY <1>9, <1>12, <1>17
    <2>3. Len(z.kids) = Arity(z.kind) /\ IsInjective(z.kids)
      BY <1>9, <1>12, ArityOfKinds
    <2>4. Range(z.kids) = {addr, out_index, n + 2} /\ 1 .. Len(h2) = 1 .. n + 2
      BY <1>9, <1>12, <1>17
    <2>5. Range(z.kids) \subseteq 1 .. Len(h2)
      BY <1>6, <2>4
    <2> QED
      BY <1>12, <2>1, <2>2, <2>3, <2>5 DEF Fits
  <1>19. /\ h3 \in Heaps /\ Len(h3) = n + 3 /\ h3[n + 3] = z
    <2>1. h3 \in Heaps /\ Len(h3) = Len(h2) + 1 /\ h3[Len(h2) + 1] = z
      BY <1>16, <1>18, AddedNode
    <2>2. Len(h2) + 1 = n + 3
      BY <1>1, <1>17
    <2> HIDE DEF h3
    <2> QED
      BY <2>1, <2>2
  <1>20. heap' = h3 /\ Counted(heap', need')
    BY <1>1, <1>5, <1>13, <1>15, <1>18, MakeThree DEF h1, h2
  <1>21. Waits(h1, {node, n + 1})
    <2>1. Waiting \in SUBSET (1 .. n) /\ Waits(heap, Waiting)
      BY <1>3, WaitingWaits
    <2>2. /\ n + 1 \in {node, n + 1}
          /\ {node, n + 1} \subseteq (Waiting \ Range(x.kids)) \cup {n + 1}
          /\ \A m \in Waiting \ Range(x.kids) : m \in {node, n + 1}
      BY <1>2, <1>6, <1>7, <1>10
    <2> QED
      BY <1>1, <1>13, <2>1, <2>2, WaitsAdded DEF h1
  <1>22. Waits(h2, {n + 2})
    <2> DEFINE W == {node, n + 1}
    <2>1. W \in SUBSET (1 .. Len(h1)) /\ Waits(h1, W)
      BY <1>6, <1>14, <1>21
    <2>2. /\ Len(h1) + 1 = n + 2
          /\ {n + 2} \subseteq (W \ Range(y.kids)) \cup {n + 2}
          /\ \A m \in W \ Range(y.kids) : m \in {n + 2}
      BY <1>1, <1>8, <1>11, <1>14
    <2> HIDE DEF W
    <2> QED
      BY <1>14, <1>15, <2>1, <2>2, WaitsAdded DEF h2
  <1>23. Waits(h3, {n + 3})
    <2> DEFINE W == {n + 2}
    <2>1. W \in SUBSET (1 .. Len(h2)) /\ Waits(h2, W)
      BY <1>1, <1>17, <1>22
    <2>2. /\ Len(h2) + 1 = n + 3
          /\ {n + 3} \subseteq (W \ Range(z.kids)) \cup {n + 3}
          /\ \A m \in W \ Range(z.kids) : m \in {n + 3}
      BY <1>1, <1>9, <1>12, <1>17
    <2> HIDE DEF W
    <2> QED
      BY <1>16, <1>18, <2>1, <2>2, WaitsAdded
  <1>24. SetsFollowTree'
    <2>1. /\ GatheredWith(h1, addr) = GatheredWith(heap, addr)
          /\ ScatteredWith(h1) = ScatteredWith(heap)
          /\ LoadedFrom(h1, addr) \subseteq LoadedFrom(heap, addr)
          /\ LoadedFrom(heap, addr) \subseteq LoadedFrom(h1, addr) \cup {index}
      <3>1. /\ IndexedBy(heap, x) = {index} /\ LoadedBy(x, addr) = {}
            /\ x.kind # "scatter" /\ ~(x.kind = "gather" /\ x.kids[1] # addr)
        BY <1>7, <1>10 DEF IndexedBy, IndexOfNode, LoadedBy
      <3> QED
        BY <1>1, <1>13, <3>1, SetsAdded DEF h1
    <2>2. /\ GatheredWith(h2, addr) = GatheredWith(h1, addr)
          /\ ScatteredWith(h2) = ScatteredWith(h1)
          /\ LoadedFrom(h2, addr) \subseteq LoadedFrom(h1, addr)
          /\ LoadedFrom(h1, addr) \subseteq LoadedFrom(h2, addr)
      <3>1. IndexedBy(h1, y) = {} /\ LoadedBy(y, addr) = {} /\ y.kind = "Add"
        BY <1>11 DEF IndexedBy, IndexOfNode, LoadedBy
      <3> QED
        BY <1>14, <1>15, <3>1, SetsAdded DEF h2
    <2>3. /\ GatheredWith(h3, addr) = GatheredWith(h2, addr)
          /\ ScatteredWith(h3) = ScatteredWith(h2) \cup {index}
          /\ LoadedFrom(h3, addr) \subseteq LoadedFrom(h2, addr)
          /\ LoadedFrom(h2, addr) \subseteq LoadedFrom(h3, addr) \cup {index}
      <3>1. IndexedBy(h2, z) = {index} /\ LoadedBy(z, addr) = {} /\ z.kind = "scatter"
        BY <1>9, <1>12, <1>17 DEF IndexedBy, IndexOfNode, LoadedBy
      <3> QED
        BY <1>16, <1>18, <3>1, SetsAdded
    <2>4. /\ GatherIndices' = GatheredWith(h3, addr)
          /\ ScatterIndices' = ScatteredWith(h3)
          /\ Loaded' = LoadedFrom(h3, addr)
      <3>1. addr' = addr /\ heap' = h3
        BY <1>20 DEF output
      <3> HIDE DEF h3
      <3> QED
        BY <3>1, SetsOfHeap
    <2> HIDE DEF h3
    <2>5. /\ GatherIndices' = GatherIndices
          /\ ScatterIndices' = ScatterIndices \cup {index}
          /\ Loaded' \subseteq Loaded /\ Loaded \subseteq Loaded' \cup {index}
      BY <2>1, <2>2, <2>3, <2>4, SetsOfTree
    <2> QED
      BY <1>5, <2>5 DEF TreeInv, SetsFollowTree
  <1>25. gather_set' \cup scatter_set' \cup reduction_set' \cup load_set' \subseteq Name
    BY <1>1, <1>4, <1>5 DEF TypeOK
  <1>26. heap'[n + 3].kids # <<>>
    BY <1>9, <1>12, <1>19, <1>20
  <1> HIDE DEF h3
  <1> QED
    BY <1>2, <1>5, <1>19, <1>20, <1>23, <1>24, <1>25, <1>26, Finished

\* The statement ends, and its output is stored to.
LEMMA StoreStep ==
  ASSUME TreeInv, text' \in Seq(Token), token' \in Token,
         pc = "return", Top.place = "data", out_index # 0, output_name \in Name,
         heap[out_index].kind = "var", StoreTree, frames' = Front(frames), pc' = "done",
         UNCHANGED <<node, declaration, header, output>>
  PROVE  TreeInv'
  <1> DEFINE n == Len(heap)
             index == heap[out_index].node_name
             x == NewNode("load", <<addr>>, "", output_name, index)
             y == NewNode("Add", <<n + 1, node>>, index, "", "")
             z == NewNode("store", <<addr, n + 2>>, "", output_name, "")
  <1>1. /\ heap \in Heaps /\ Counted(heap, need) /\ TypeOK
        /\ Node = 1 .. n /\ n \in Nat
    BY HeapIs DEF TreeInv
  <1>2. /\ Len(frames) = 1 /\ frames # <<>>
        /\ addr \in Node /\ out_index \in Node /\ node \in Node
        /\ addr < out_index /\ out_index < node
        /\ heap[addr].kind = "var" /\ heap[addr].node_name = output_name
        /\ Waiting = {addr, out_index, node}
    BY LastCall
  <1>3. Reading
    BY DEF Reading, InExpression, Live
  <1>4. index \in Name
    <2>1. out_index # addr
      BY <1>1, <1>2
    <2> QED
      BY <1>2, <1>3, <2>1, NodesAreNamed
  <1>5. /\ Make(<<x, y, z>>) /\ root' = n + 3
        /\ UNCHANGED sets
    BY DEF StoreTree
  <1>6. /\ addr \in Nat /\ out_index \in Nat /\ node \in Nat /\ n + 1 \in Nat /\ n + 2 \in Nat
        /\ addr # out_index /\ addr # n + 2 /\ out_index # n + 2 /\ n + 1 # node
        /\ addr # node /\ out_index # node
        /\ {addr} \subseteq 1 .. n /\ {n + 1, node} \subseteq 1 .. n + 1
        /\ {addr, n + 2} \subseteq 1 .. n + 2
    BY <1>1, <1>2
  <1> DEFINE xs == <<addr>>
             ys == <<n + 1, node>>
             zs == <<addr, n + 2>>
  <1>7. /\ xs \in Seq(Nat) /\ Len(xs) = 1 /\ xs[1] = addr
        /\ Range(xs) = {addr} /\ IsInjective(xs)
    BY <1>6, OneKid
  <1>8. /\ ys \in Seq(Nat) /\ Len(ys) = 2 /\ Range(ys) = {n + 1, node} /\ IsInjective(ys)
    BY <1>6, TwoKids
  <1>9. /\ zs \in Seq(Nat) /\ Len(zs) = 2 /\ zs[1] = addr /\ zs # <<>>
        /\ Range(zs) = {addr, n + 2} /\ IsInjective(zs)
    BY <1>6, TwoKids
  <1> HIDE DEF xs, ys, zs
  <1>10. /\ x \in NodeRecord /\ x.kind = "load" /\ x.kids = xs
         /\ x.addr_name = output_name
    BY <1>4, <1>7, StringsOfNodes DEF NewNode, NodeRecord, xs
  <1>11. y \in NodeRecord /\ y.kind = "Add" /\ y.kids = ys
    BY <1>4, <1>8, StringsOfNodes DEF NewNode, NodeRecord, ys
  <1>12. /\ z \in NodeRecord /\ z.kind = "store" /\ z.kids = zs
         /\ z.addr_name = output_name
    BY <1>4, <1>9, StringsOfNodes DEF NewNode, NodeRecord, zs
  <1> HIDE DEF x, y, z
  <1> DEFINE h1 == Append(heap, x)
             h2 == Append(h1, y)
             h3 == Append(h2, z)
  <1>13. Fits(heap, x)
    BY <1>2, <1>6, <1>7, <1>10, ArityOfKinds DEF Fits
  <1>14. /\ h1 \in Heaps /\ Len(h1) = n + 1
         /\ \A m \in 1 .. n : h1[m] = heap[m]
    BY <1>1, <1>13, AddedNode
  <1> HIDE DEF h1
  <1>15. Fits(h1, y)
    <2>1. Len(y.kids) = Arity(y.kind) /\ IsInjective(y.kids)
      BY <1>8, <1>11, ArityOfKinds, StringsOfNodes
    <2>2. Range(y.kids) \subseteq 1 .. Len(h1)
      BY <1>6, <1>8, <1>11, <1>14
    <2> QED
      BY <1>11, <2>1, <2>2 DEF Fits
  <1>16. /\ h2 \in Heaps /\ Len(h2) = Len(h1) + 1
         /\ \A m \in 1 .. Len(h1) : h2[m] = h1[m]
    BY <1>14, <1>15, AddedNode
  <1> HIDE DEF h2
  <1>17. Len(h2) = n + 2 /\ h2[addr] = heap[addr] /\ h2[out_index] = heap[out_index]
    <2>1. addr \in 1 .. n /\ out_index \in 1 .. n /\ addr \in 1 .. n + 1 /\ out_index \in 1 .. n + 1
      BY <1>1, <1>2
    <2>2. Len(h2) = n + 2
      BY <1>1, <1>14, <1>16
    <2> QED
      BY <1>14, <1>16, <2>1, <2>2
  <1>18. Fits(h2, z)
    <2>1. h2[z.kids[1]].kind = "var" /\ z.addr_name = h2[z.kids[1]].node_name
      BY <1>2, <1>9, <1>12, <1>17
    <2>3. /\ Len(z.kids) = Arity(z.kind) /\ Range(z.kids) \subseteq 1 .. Len(h2)
          /\ IsInjective(z.kids)
      BY <1>6, <1>9, <1>12, <1>17, ArityOfKinds
    <2> QED
      BY <1>12, <2>1, <2>3 DEF Fits
  <1>19. /\ h3 \in Heaps /\ Len(h3) = n + 3 /\ h3[n + 3] = z
    <2>1. h3 \in Heaps /\ Len(h3) = Len(h2) + 1 /\ h3[Len(h2) + 1] = z
      BY <1>16, <1>18, AddedNode
    <2>2. Len(h2) + 1 = n + 3
      BY <1>1, <1>17
    <2> HIDE DEF h3
    <2> QED
      BY <2>1, <2>2
  <1>20. heap' = h3 /\ Counted(heap', need')
    BY <1>1, <1>5, <1>13, <1>15, <1>18, MakeThree DEF h1, h2
  <1>21. Waits(h1, {node, n + 1})
    <2>1. Waiting \in SUBSET (1 .. n) /\ Waits(heap, Waiting)
      BY <1>3, WaitingWaits
    <2>2. /\ n + 1 \in {node, n + 1}
          /\ {node, n + 1} \subseteq (Waiting \ Range(x.kids)) \cup {n + 1}
          /\ \A m \in Waiting \ Range(x.kids) :
               m \in {node, n + 1} \/ heap[m].kids = <<>>
      <3>1. WellMade(heap, out_index) /\ heap[out_index].kids \in Seq(Nat)
        BY <1>1, <1>2, NodeOfHeap
      <3>2. heap[out_index].kids = <<>>
        BY <3>1, ArityOfKinds DEF WellMade
      <3> QED
        BY <1>2, <1>6, <1>7, <1>10, <3>2
    <2> QED
      BY <1>1, <1>13, <2>1, <2>2, WaitsAdded DEF h1
  <1>22. Waits(h2, {n + 2})
    <2> DEFINE W == {node, n + 1}
    <2>1. W \in SUBSET (1 .. Len(h1)) /\ Waits(h1, W)
      BY <1>6, <1>14, <1>21
    <2>2. /\ Len(h1) + 1 = n + 2
          /\ {n + 2} \subseteq (W \ Range(y.kids)) \cup {n + 2}
          /\ \A m \in W \ Range(y.kids) : m \in {n + 2}
      BY <1>1, <1>8, <1>11, <1>14
    <2> HIDE DEF W
    <2> QED
      BY <1>14, <1>15, <2>1, <2>2, WaitsAdded DEF h2
  <1>23. Waits(h3, {n + 3})
    <2> DEFINE W == {n + 2}
    <2>1. W \in SUBSET (1 .. Len(h2)) /\ Waits(h2, W)
      BY <1>1, <1>17, <1>22
    <2>2. /\ Len(h2) + 1 = n + 3
          /\ {n + 3} \subseteq (W \ Range(z.kids)) \cup {n + 3}
          /\ \A m \in W \ Range(z.kids) : m \in {n + 3}
      BY <1>1, <1>9, <1>12, <1>17
    <2> HIDE DEF W
    <2> QED
      BY <1>16, <1>18, <2>1, <2>2, WaitsAdded
  <1>24. SetsFollowTree'
    <2>1. /\ GatheredWith(h1, addr) = GatheredWith(heap, addr)
          /\ ScatteredWith(h1) = ScatteredWith(heap)
          /\ LoadedFrom(h1, addr) \subseteq LoadedFrom(heap, addr)
          /\ LoadedFrom(heap, addr) \subseteq LoadedFrom(h1, addr)
      <3>1. /\ IndexedBy(heap, x) = {} /\ LoadedBy(x, addr) = {} /\ x.kind = "load"
        BY <1>7, <1>10 DEF IndexedBy, IndexOfNode, LoadedBy
      <3> QED
        BY <1>1, <1>13, <3>1, SetsAdded DEF h1
    <2>2. /\ GatheredWith(h2, addr) = GatheredWith(h1, addr)
          /\ ScatteredWith(h2) = ScatteredWith(h1)
          /\ LoadedFrom(h2, addr) \subseteq LoadedFrom(h1, addr)
          /\ LoadedFrom(h1, addr) \subseteq LoadedFrom(h2, addr)
      <3>1. IndexedBy(h1, y) = {} /\ LoadedBy(y, addr) = {} /\ y.kind = "Add"
        BY <1>11 DEF IndexedBy, IndexOfNode, LoadedBy
      <3> QED
        BY <1>14, <1>15, <3>1, SetsAdded DEF h2
    <2>3. /\ GatheredWith(h3, addr) = GatheredWith(h2, addr)
          /\ ScatteredWith(h3) = ScatteredWith(h2)
          /\ LoadedFrom(h3, addr) \subseteq LoadedFrom(h2, addr)
          /\ LoadedFrom(h2, addr) \subseteq LoadedFrom(h3, addr)
      <3>1. IndexedBy(h2, z) = {} /\ LoadedBy(z, addr) = {} /\ z.kind = "store"
        BY <1>9, <1>12, <1>17 DEF IndexedBy, IndexOfNode, LoadedBy
      <3> QED
        BY <1>16, <1>18, <3>1, SetsAdded
    <2>4. /\ GatherIndices' = GatheredWith(h3, addr)
          /\ ScatterIndices' = ScatteredWith(h3)
          /\ Loaded' = LoadedFrom(h3, addr)
      <3>1. addr' = addr /\ heap' = h3
        BY <1>20 DEF output
      <3> HIDE DEF h3
      <3> QED
        BY <3>1, SetsOfHeap
    <2> HIDE DEF h3
    <2>5. /\ GatherIndices' = GatherIndices
          /\ ScatterIndices' = ScatterIndices
          /\ Loaded' = Loaded
      BY <2>1, <2>2, <2>3, <2>4, SetsOfTree
    <2> QED
      BY <1>5, <2>5 DEF TreeInv, SetsFollowTree, sets
  <1>25. gather_set' \cup scatter_set' \cup reduction_set' \cup load_set' \subseteq Name
    BY <1>1, <1>5 DEF TypeOK, sets
  <1>26. heap'[n + 3].kids # <<>>
    BY <1>9, <1>12, <1>19, <1>20
  <1> HIDE DEF h3
  <1> QED
    BY <1>2, <1>5, <1>19, <1>20, <1>23, <1>24, <1>25, <1>26, Finished

\* The data has been read: the tree is completed, or the process ends.
LEMMA CompleteStep ==
  ASSUME TreeInv, NEW place \in {"load", "var"}, Complete(place)
  PROVE  TreeInv'
  <1>1. /\ text' \in Seq(Token) /\ token' \in Token /\ TypeOK /\ Stack
        /\ pc = "return" /\ Top.place = "data"
    BY DEF Complete, TreeInv, TypeOK
  <1> DEFINE fine == /\ out_index # 0
                     /\ Top.operator = "AddEquel"
                     /\ output_var_type.pointer
                     /\ heap[out_index].kind \in {"load", "var"}
  <1>2. CASE fine
    <2>1. /\ heap[out_index].kind = place
          /\ IF place = "load" THEN ScatterTree ELSE StoreTree
          /\ frames' = Front(frames) /\ pc' = "done"
          /\ UNCHANGED <<node, declaration, header, output>>
      BY <1>2 DEF Complete
    <2>2. output_name \in Name
      BY <1>1, <1>2 DEF Stack
    <2>3. CASE place = "load"
      BY <1>1, <1>2, <2>1, <2>2, <2>3, ScatterStep
    <2>4. CASE place = "var"
      BY <1>1, <1>2, <2>1, <2>2, <2>4, StoreStep
    <2> QED
      BY <2>3, <2>4
  <1>3. CASE ~fine
    <2>1. Fatal
      BY <1>3 DEF Complete
    <2> QED
      BY <1>1, <2>1, GotoStep
  <1> QED
    BY <1>2, <1>3

-----------------------------------------------------------------------------
(***************************************************************************)
(* The text that has been read                                             *)
(***************************************************************************)
Word == Token \cup {""}

\* What a heap stands for is made of words.
LEMMA WordsTyped ==
  ASSUME NEW h \in Heaps
  PROVE  \A n \in 1 .. Len(h) : WordsOf(h)[n] \in Seq(Word)
  <1> DEFINE f == WordsOf(h)
             S == {n \in Nat : \A m \in 1 .. n : m <= Len(h) => f[m] \in Seq(Word)}
  <1>1. \A n \in 1 .. Len(h) : f[n] = NodeWords(h[n], f)
    BY WordsAre
  <1> HIDE DEF f
  <1>2. 0 \in S
    OBVIOUS
  <1>3. ASSUME NEW n \in Nat, n \in S
        PROVE  n + 1 \in S
    <2> SUFFICES ASSUME n + 1 <= Len(h) PROVE f[n + 1] \in Seq(Word)
      BY <1>3, NodeOfHeap
    <2> DEFINE x == h[n + 1]
    <2>1. n + 1 \in 1 .. Len(h)
      BY NodeOfHeap
    <2>2. WellMade(h, n + 1) /\ x \in NodeRecord /\ x.kind \in NodeKind /\ x.kids \in Seq(Nat)
      BY <2>1, NodeOfHeap
    <2>3. x.node_name \in Word /\ x.addr_name \in Word /\ x.index_name \in Word
      BY <2>2 DEF NodeRecord, Word, Token
    <2>4. "LeftBracket" \in Word /\ "RightBracket" \in Word
      BY DEF Word, Token, Kind
    <2>5. f[n + 1] = NodeWords(x, f)
      BY <1>1, <2>1
    <2>6. \A m \in 1 .. n : f[m] \in Seq(Word)
      BY <1>3, <2>1, NodeOfHeap
    <2> HIDE DEF x
    <2>7. ASSUME x.kind \in Binary \cup {"gather"}
          PROVE  f[x.kids[1]] \in Seq(Word) /\ f[x.kids[2]] \in Seq(Word)
      <3>1. Len(x.kids) = Arity(x.kind) /\ Range(x.kids) \subseteq 1 .. n
        BY <2>2 DEF WellMade, x
      <3>2. 1 \in 1 .. Len(x.kids) /\ 2 \in 1 .. Len(x.kids)
        BY <2>7, <3>1, ArityOfKinds
      <3>3. x.kids[1] \in Range(x.kids) /\ x.kids[2] \in Range(x.kids)
        BY <2>2, <3>2, KidsInRange
      <3> QED
        BY <2>6, <3>1, <3>3
    <2>8. CASE x.kind \in {"scatter", "store"}
      <3>1. NodeWords(x, f) = <<>>
        BY <2>8 DEF NodeWords, Binary
      <3> QED
        BY <2>5, <3>1
    <2>9. CASE x.kind = "var"
      <3>1. NodeWords(x, f) = <<x.node_name>>
        BY <2>9 DEF NodeWords, Binary
      <3> QED
        BY <2>3, <2>5, <3>1
    <2>10. CASE x.kind = "load"
      <3>1. NodeWords(x, f)
              = <<x.addr_name, "LeftBracket">> \o <<x.index_name>> \o <<"RightBracket">>
        BY <2>10 DEF NodeWords, Binary
      <3> QED
        BY <2>3, <2>4, <2>5, <3>1
    <2>11. CASE x.kind = "gather"
      <3>1. NodeWords(x, f)
              = <<x.addr_name, "LeftBracket">> \o f[x.kids[2]] \o <<"RightBracket">>
        BY <2>11 DEF NodeWords, Binary
      <3> QED
        BY <2>3, <2>4, <2>5, <2>7, <2>11, <3>1
    <2>12. CASE x.kind \in Binary
      <3>1. NodeWords(x, f) = f[x.kids[1]] \o <<x.kind>> \o f[x.kids[2]]
        BY <2>12 DEF NodeWords, Binary
      <3>2. x.kind \in Word
        BY <2>12 DEF Word, Token, Kind
      <3> DEFINE left == f[x.kids[1]]
                 right == f[x.kids[2]]
      <3>3. left \in Seq(Word) /\ right \in Seq(Word)
        BY <2>7, <2>12
      <3> HIDE DEF left, right
      <3>4. left \o <<x.kind>> \o right \in Seq(Word)
        BY <3>2, <3>3
      <3> QED
        BY <2>5, <3>1, <3>4 DEF left, right
    <2> QED
      BY <2>2, <2>8, <2>9, <2>10, <2>11, <2>12 DEF NodeKind
  <1>4. \A n \in Nat : n \in S
    <2> HIDE DEF S
    <2> QED
      BY <1>2, <1>3, SetInduction
  <1>5. Len(h) \in Nat /\ Len(h) \in S
    BY <1>4, NodeOfHeap
  <1>6. \A n \in 1 .. Len(h) : n <= Len(h)
    BY <1>5
  <1>7. \A n \in 1 .. Len(h) : f[n] \in Seq(Word)
    BY <1>5, <1>6
  <1> QED
    BY <1>7 DEF f

\* The words of an added node.
LEMMA WordsAdded ==
  ASSUME NEW h \in Heaps, NEW x, Fits(h, x)
  PROVE  /\ \A n \in 1 .. Len(h) : WordsOf(Append(h, x))[n] = WordsOf(h)[n]
         /\ x.kind = "var" => WordsOf(Append(h, x))[Len(h) + 1] = <<x.node_name>>
         /\ x.kind = "load" =>
              WordsOf(Append(h, x))[Len(h) + 1]
                = <<x.addr_name, "LeftBracket">> \o <<x.index_name>> \o <<"RightBracket">>
         /\ x.kind = "gather" =>
              WordsOf(Append(h, x))[Len(h) + 1]
                = <<x.addr_name, "LeftBracket">> \o WordsOf(h)[x.kids[2]] \o <<"RightBracket">>
         /\ x.kind \in Binary =>
              WordsOf(Append(h, x))[Len(h) + 1]
                = WordsOf(h)[x.kids[1]] \o <<x.kind>> \o WordsOf(h)[x.kids[2]]
  <1> DEFINE f == WordsOf(h)
             g == WordsOf(Append(h, x))
             new == Len(h) + 1
  <1>1. /\ Append(h, x) \in Heaps /\ Len(Append(h, x)) = new /\ Append(h, x)[new] = x
        /\ new \in 1 .. new
    BY AddedNode, NodeOfHeap
  <1>2. g[new] = NodeWords(x, g)
    BY <1>1, WordsAre
  <1>3. \A n \in 1 .. Len(h) : g[n] = f[n]
    BY <1>1, WordsStay
  <1>4. ASSUME x.kind \in Binary \cup {"gather"}
        PROVE  x.kids[1] \in 1 .. Len(h) /\ x.kids[2] \in 1 .. Len(h)
    <2>1. x.kids \in Seq(Nat) /\ Len(x.kids) = 2 /\ Range(x.kids) \subseteq 1 .. Len(h)
      BY <1>4, ArityOfKinds DEF Fits, NodeRecord
    <2> QED
      BY <2>1, KidsInRange
  <1> HIDE DEF f, g, new
  <1>5. x.kind = "var" => g[new] = <<x.node_name>>
    BY <1>2 DEF NodeWords, Binary
  <1>6. x.kind = "load" =>
          g[new] = <<x.addr_name, "LeftBracket">> \o <<x.index_name>> \o <<"RightBracket">>
    BY <1>2 DEF NodeWords, Binary
  <1>7. x.kind = "gather" =>
          g[new] = <<x.addr_name, "LeftBracket">> \o f[x.kids[2]] \o <<"RightBracket">>
    <2>1. x.kind = "gather" =>
            g[new] = <<x.addr_name, "LeftBracket">> \o g[x.kids[2]] \o <<"RightBracket">>
      BY <1>2 DEF NodeWords, Binary
    <2> QED
      BY <1>3, <1>4, <2>1
  <1>8. x.kind \in Binary => g[new] = f[x.kids[1]] \o <<x.kind>> \o f[x.kids[2]]
    <2>1. x.kind \in Binary => g[new] = g[x.kids[1]] \o <<x.kind>> \o g[x.kids[2]]
      BY <1>2 DEF NodeWords, Binary
    <2> QED
      BY <1>3, <1>4, <2>1
  <1> QED
    BY <1>3, <1>5, <1>6, <1>7, <1>8 DEF f, g, new

\* What is read stays a suffix of the text when a token is read.
LEMMA ReadOn ==
  ASSUME NEW T, NEW s \in Seq(T), NEW t \in Seq(T), NEW e \in T, IsSuffix(s, t)
  PROVE  IsSuffix(s \o <<e>>, Append(t, e))
  <1>1. <<e>> \in Seq(T) /\ Append(t, e) = t \o <<e>>
    OBVIOUS
  <1> QED
    BY <1>1, SuffixGrows

\* The pieces, as a function of what they are written from.
PieceWith(f, words, name, out) ==
  CASE f.place = "output index" -> <<name, "LeftBracket">>
    [] f.place = "data"         ->
         (<<name, "LeftBracket">> \o words[out] \o <<"RightBracket">>) \o <<f.operator>>
    [] f.place = "index"        -> words[f.left] \o <<"LeftBracket">>
    [] f.place = "right"        -> words[f.left] \o <<f.operator>>

PiecesWith(fs, words, name, out) ==
  [f \in DOMAIN fs |-> PieceWith(fs[f], words, name, out)]

\* The nodes whose words a piece needs are there.
CanWrite(f, out, nodes) ==
  /\ f.place \in {"output index", "data", "index", "right"}
  /\ f.operator \in Token
  /\ f.place = "data" => out \in nodes
  /\ f.place \in {"index", "right"} => f.left \in nodes

\* Pieces as a function of the stack and the words of the nodes.
LEMMA PiecesAre ==
  /\ Pieces = PiecesWith(frames, WordsOf(heap), output_name, out_index)
  /\ Pieces' = PiecesWith(frames', WordsOf(heap'), output_name', out_index')
  BY DEF Pieces, PiecesWith, Piece, PieceWith, OutputElement, Words

\* A piece is a sequence of words.
LEMMA PieceTyped ==
  ASSUME NEW f, NEW nodes, NEW out, NEW name \in Name, CanWrite(f, out, nodes),
         NEW words, \A n \in nodes : words[n] \in Seq(Word)
  PROVE  PieceWith(f, words, name, out) \in Seq(Word)
  <1>1. /\ name \in Word /\ "LeftBracket" \in Word /\ "RightBracket" \in Word
        /\ f.operator \in Word
    BY DEF Word, Token, Kind, CanWrite
  <1>2. CASE f.place = "output index"
    <2>1. PieceWith(f, words, name, out) = <<name, "LeftBracket">>
      BY <1>2 DEF PieceWith
    <2> QED
      BY <1>1, <2>1
  <1>3. CASE f.place = "data"
    <2>1. PieceWith(f, words, name, out)
            = (<<name, "LeftBracket">> \o words[out] \o <<"RightBracket">>) \o <<f.operator>>
      BY <1>3 DEF PieceWith
    <2>2. words[out] \in Seq(Word)
      BY <1>3 DEF CanWrite
    <2> QED
      BY <1>1, <2>1, <2>2
  <1>4. CASE f.place = "index"
    <2>1. PieceWith(f, words, name, out) = words[f.left] \o <<"LeftBracket">>
      BY <1>4 DEF PieceWith
    <2>2. words[f.left] \in Seq(Word)
      BY <1>4 DEF CanWrite
    <2> QED
      BY <1>1, <2>1, <2>2
  <1>5. CASE f.place = "right"
    <2>1. PieceWith(f, words, name, out) = words[f.left] \o <<f.operator>>
      BY <1>5 DEF PieceWith
    <2>2. words[f.left] \in Seq(Word)
      BY <1>5 DEF CanWrite
    <2> QED
      BY <1>1, <2>1, <2>2
  <1> QED
    BY <1>2, <1>3, <1>4, <1>5 DEF CanWrite

\* A piece depends on the words of its own nodes only.
LEMMA SamePiece ==
  ASSUME NEW f, NEW nodes, NEW out, NEW name, CanWrite(f, out, nodes),
         NEW words, NEW more, \A n \in nodes : more[n] = words[n]
  PROVE  PieceWith(f, more, name, out) = PieceWith(f, words, name, out)
  BY DEF PieceWith, CanWrite

\* The pieces of a stack with one more frame are one more.
OneMore(fs, gs, n, x) ==
  /\ DOMAIN gs = 1 .. n /\ DOMAIN fs = 1 .. n + 1
  /\ \A f \in 1 .. n : fs[f] = gs[f]
  /\ fs[n + 1] = x

PiecesTyped(fs, n, words, name, out) ==
  \A f \in 1 .. n : PieceWith(fs[f], words, name, out) \in Seq(Word)

WritesMore(fs, gs, x, words, name, out) ==
  Written(PiecesWith(fs, words, name, out))
    = Written(PiecesWith(gs, words, name, out)) \o PieceWith(x, words, name, out)

\* What is written of a stack with one more call.
LEMMA PiecesAppend ==
  ASSUME NEW fs, NEW gs, NEW n \in Nat, NEW x, OneMore(fs, gs, n, x),
         NEW words, NEW name, NEW out,
         PiecesTyped(gs, n, words, name, out),
         PieceWith(x, words, name, out) \in Seq(Word)
  PROVE  /\ Written(PiecesWith(gs, words, name, out)) \in Seq(Word)
         /\ WritesMore(fs, gs, x, words, name, out)
  <1> DEFINE P(f) == PieceWith(f, words, name, out)
             s == PiecesWith(gs, words, name, out)
             t == PiecesWith(fs, words, name, out)
  <1>1. /\ s = [f \in 1 .. n |-> P(gs[f])] /\ t = [f \in 1 .. n + 1 |-> P(fs[f])]
        /\ fs[n + 1] = x /\ \A f \in 1 .. n : fs[f] = gs[f]
    BY DEF PiecesWith, OneMore
  <1> HIDE DEF P, s, t
  <1>2. (\A f \in 1 .. n : P(gs[f]) \in Seq(Word)) /\ P(x) \in Seq(Word)
    BY DEF P, PiecesTyped
  <1>3. s \in Seq(Seq(Word)) /\ Len(s) = n
    <2> DEFINE T == Seq(Word)
    <2>1. s \in [1 .. n -> T]
      BY <1>1, <1>2
    <2> HIDE DEF T
    <2>2. s \in Seq(T) /\ Len(s) = n
      BY <2>1
    <2> QED
      BY <2>2 DEF T
  <1>4. /\ Append(s, P(x)) \in Seq(Seq(Word)) /\ Len(Append(s, P(x))) = n + 1
        /\ \A f \in 1 .. n : Append(s, P(x))[f] = s[f]
        /\ Append(s, P(x))[n + 1] = P(x)
    <2> DEFINE e == P(x)
    <2>1. e \in Seq(Word)
      BY <1>2
    <2> HIDE DEF e
    <2>2. /\ Append(s, e) \in Seq(Seq(Word)) /\ Len(Append(s, e)) = n + 1
          /\ \A f \in 1 .. n : Append(s, e)[f] = s[f]
          /\ Append(s, e)[n + 1] = e
      BY <1>3, <2>1
    <2> QED
      BY <2>2 DEF e
  <1>5. \A f \in 1 .. n + 1 : f \in 1 .. n \/ f = n + 1
    OBVIOUS
  <1>6. \A f \in 1 .. n + 1 : P(fs[f]) \in Seq(Word)
    BY <1>1, <1>2, <1>5
  <1>7. t \in Seq(Seq(Word)) /\ Len(t) = n + 1
    BY <1>1, <1>6
  <1>8. \A f \in 1 .. n + 1 : t[f] = Append(s, P(x))[f]
    <2> SUFFICES ASSUME NEW f \in 1 .. n + 1 PROVE t[f] = Append(s, P(x))[f]
      OBVIOUS
    <2>1. CASE f \in 1 .. n
      BY <1>1, <1>4, <2>1
    <2>2. CASE f = n + 1
      BY <1>1, <1>4, <2>2
    <2> QED
      BY <1>5, <2>1, <2>2
  <1>9. t = Append(s, P(x))
    BY <1>4, <1>7, <1>8, SeqEqual
  <1>10. "Colon" \in Word
    BY DEF Word, Token, Kind
  <1>11. Written(s) \in Seq(Word) /\ Written(t) = Written(s) \o P(x)
    BY <1>2, <1>3, <1>9, <1>10, WrittenAppend
  <1> QED
    BY <1>11 DEF P, s, t, WritesMore

\* What is written of a stack is a sequence of words.
LEMMA PiecesWritten ==
  ASSUME NEW fs, NEW n \in Nat, DOMAIN fs = 1 .. n, NEW words, NEW name, NEW out,
         \A f \in 1 .. n : PieceWith(fs[f], words, name, out) \in Seq(Word)
  PROVE  Written(PiecesWith(fs, words, name, out)) \in Seq(Word)
  <1> DEFINE P(f) == PieceWith(f, words, name, out)
             s == PiecesWith(fs, words, name, out)
  <1>1. s = [f \in 1 .. n |-> P(fs[f])]
    BY DEF PiecesWith
  <1> HIDE DEF P, s
  <1>2. \A f \in 1 .. n : P(fs[f]) \in Seq(Word)
    BY DEF P
  <1>3. s \in Seq(Seq(Word))
    BY <1>1, <1>2
  <1>4. "Colon" \in Word
    BY DEF Word, Token, Kind
  <1>6. <<>> \in Seq(Word)
    OBVIOUS
  <1>5. Written(s) \in Seq(Word)
    BY <1>3, <1>4, <1>6, WrittenAppend
  <1> QED
    BY <1>5 DEF s

CanWriteAll(fs, out, nodes) == \A f \in DOMAIN fs : CanWrite(fs[f], out, nodes)
SameOn(nodes, more, words) == \A n \in nodes : more[n] = words[n]

\* What is written of a stack depends on the words of its own nodes only.
LEMMA SamePieces ==
  ASSUME NEW fs, NEW nodes, NEW out, NEW name, CanWriteAll(fs, out, nodes),
         NEW words, NEW more, SameOn(nodes, more, words)
  PROVE  PiecesWith(fs, more, name, out) = PiecesWith(fs, words, name, out)
  <1>1. \A f \in DOMAIN fs : PieceWith(fs[f], more, name, out) = PieceWith(fs[f], words, name, out)
    BY SamePiece DEF CanWriteAll, SameOn
  <1> QED
    BY <1>1 DEF PiecesWith

\* The words after a node has been made.
LEMMA MadeWords ==
  ASSUME TreeInv, NEW x, Fits(heap, x), Make(<<x>>)
  PROVE  /\ \A n \in Node : WordsOf(heap')[n] = WordsOf(heap)[n]
         /\ x.kind = "var" => WordsOf(heap')[Len(heap) + 1] = <<x.node_name>>
         /\ x.kind = "load" =>
              WordsOf(heap')[Len(heap) + 1]
                = <<x.addr_name, "LeftBracket">> \o <<x.index_name>> \o <<"RightBracket">>
         /\ x.kind = "gather" =>
              WordsOf(heap')[Len(heap) + 1]
                = <<x.addr_name, "LeftBracket">> \o WordsOf(heap)[x.kids[2]] \o <<"RightBracket">>
         /\ x.kind \in Binary =>
              WordsOf(heap')[Len(heap) + 1]
                = WordsOf(heap)[x.kids[1]] \o <<x.kind>> \o WordsOf(heap)[x.kids[2]]
  <1>1. heap \in Heaps /\ Counted(heap, need) /\ Node = 1 .. Len(heap)
    BY HeapIs DEF TreeInv
  <1>2. heap' = Append(heap, x)
    BY <1>1, MakeOne
  <1> QED
    BY <1>1, <1>2, WordsAdded

\* In an expression, the pieces can be written.
LEMMA PiecesReadable ==
  ASSUME TreeInv, InExpression, OutputIndexed
  PROVE  /\ \A f \in 1 .. Len(frames) : CanWrite(frames[f], out_index, Node)
         /\ Live => node \in Node
  <1>1. TypeOK /\ Stack /\ Pending /\ Reading /\ Node = 1 .. Len(heap) /\ Len(heap) \in Nat
    BY HeapIs DEF TreeInv, Reading
  <1>2. /\ frames # <<>> /\ frames[1].place \in {"output index", "data"}
        /\ \A f \in 2 .. Len(frames) : frames[f].place \in {"index", "right"}
    BY <1>1 DEF Stack
  <1>3. /\ Len(frames) \in Nat /\ Len(frames) >= 1
        /\ \A f \in 1 .. Len(frames) :
             /\ frames[f].place \in {"output index", "data", "index", "right"}
             /\ frames[f].operator \in Token
    BY <1>1, <1>2, TopOfFrames
  <1>8. Len(frames) \in Nat
    BY <1>3
  <1>4. \A f \in 2 .. Len(frames) : frames[f].left \in Node
    BY <1>1 DEF Pending, YoungerThanOutput
  <1>5. frames[1].place = "data" => out_index \in Node
    <2>1. out_index \in Node \cup {0}
      BY <1>1 DEF TypeOK
    <2> QED
      BY <2>1 DEF OutputIndexed
  <1>6. ASSUME NEW f \in 1 .. Len(frames)
        PROVE  CanWrite(frames[f], out_index, Node)
    <2>1. CASE f = 1
      BY <1>2, <1>3, <1>5, <2>1 DEF CanWrite
    <2>2. CASE f # 1
      <3>1. f \in 2 .. Len(frames)
        BY <1>8, <2>2
      <3> QED
        BY <1>2, <1>3, <1>4, <3>1 DEF CanWrite
    <2> QED
      BY <2>1, <2>2
  <1>7. Live => node \in Node
    BY <1>1 DEF Pending, YoungerThanOutput
  <1> QED
    BY <1>6, <1>7

\* The words of a node are a sequence of words.
LEMMA WordsKnown ==
  ASSUME TreeInv
  PROVE  \A n \in Node : Words[n] \in Seq(Word)
  BY HeapIs, WordsTyped DEF TreeInv, Words

\* What has been read in an expression before the step.
ReadUpTo(tail) ==
  /\ \A n \in Node : Words[n] \in Seq(Word)
  /\ \A f \in 1 .. Len(frames) : PieceWith(frames[f], Words, output_name, out_index) \in Seq(Word)
  /\ Written(Pieces) \in Seq(Word)
  /\ tail \in Seq(Word)
  /\ IsSuffix(Written(Pieces) \o tail, Consumed)

\* Where an expression is read, the text ends with what has been read of it.
LEMMA ExpressionRead ==
  ASSUME TreeInv, StatementRead, output_name \in Name, InExpression, OutputIndexed
  PROVE  ReadUpTo(IF Live THEN Words[node] ELSE <<>>)
  <1>1. \A n \in Node : Words[n] \in Seq(Word)
    BY WordsKnown
  <1>2. /\ \A f \in 1 .. Len(frames) : CanWrite(frames[f], out_index, Node)
        /\ Live => node \in Node
    BY PiecesReadable
  <1>3. \A f \in 1 .. Len(frames) :
          PieceWith(frames[f], Words, output_name, out_index) \in Seq(Word)
    BY <1>1, <1>2, PieceTyped
  <1>4. (IF Live THEN Words[node] ELSE <<>>) \in Seq(Word)
    BY <1>1, <1>2
  <1>5. DOMAIN frames = 1 .. Len(frames) /\ Len(frames) \in Nat
    BY FramesType DEF TreeInv
  <1>6. Written(PiecesWith(frames, Words, output_name, out_index)) \in Seq(Word)
    BY <1>3, <1>5, PiecesWritten
  <1>7. Written(Pieces) \in Seq(Word)
    BY <1>6, PiecesAre DEF Words
  <1> QED
    BY <1>1, <1>3, <1>4, <1>7 DEF ReadUpTo, StatementRead

\* A sequence of tokens is one of words.
LEMMA TokensAreWords ==
  ASSUME NEW s \in Seq(Token)
  PROVE  s \in Seq(Word)
  <1>1. Token \subseteq Word
    BY DEF Word
  <1> QED
    BY <1>1

\* The text, and the text without the token read ahead.
LEMMA TextTyped ==
  ASSUME TreeInv, TokensRead, text # <<>>
  PROVE  /\ text \in Seq(Word) /\ Front(text) \in Seq(Word) /\ token \in Word
         /\ text = Append(Front(text), token)
  <1>1. text \in Seq(Token) /\ token \in Token /\ token = Last(text)
    BY DEF TreeInv, TypeOK, TokensRead
  <1>2. text \in Seq(Word) /\ token \in Word
    BY <1>1, TokensAreWords DEF Word
  <1> QED
    BY <1>1, <1>2, LastOfText

\* The text with the token that is read.
LEMMA TextNext ==
  ASSUME TreeInv, TokensRead, NEW t \in Token, get_next_token(t)
  PROVE  /\ text \in Seq(Word) /\ t \in Word
         /\ text' = Append(text, t) /\ text' # <<>> /\ Front(text') = text
         /\ token' = t /\ token' = Last(text')
  <1>1. text \in Seq(Token) /\ text' = Append(text, t) /\ token' = t
    BY DEF TreeInv, TypeOK, get_next_token
  <1>2. text \in Seq(Word) /\ t \in Word
    BY <1>1, TokensAreWords DEF Word
  <1> QED
    BY <1>1, <1>2, AppendOfText

\* Between the brackets of the output and the end of the data, this is the
\* only part that says something.
LEMMA ExpressionNext ==
  ASSUME InExpression',
         output_name' \in Name /\ OutputIndexed' =>
           IsSuffix(Written(Pieces') \o (IF Live' THEN Words'[node'] ELSE <<>>), Consumed')
  PROVE  StatementRead'
  <1>1. pc' # "output bracket" /\ pc' # "equal"
    BY DEF InExpression, Live
  <1> QED
    BY <1>1 DEF StatementRead

\* Steps that leave the statement, or do not reach it.
LEMMA NotReading ==
  ASSUME ~Reading'
  PROVE  StatementRead'
  BY DEF Reading, StatementRead

\* As long as the parser has not returned there is nothing to compare.
LEMMA NotParsed ==
  ASSUME pc' # "done" \/ root' = 0
  PROVE  TreeIsText'
  BY DEF TreeIsText, Parsed

\* A token is read, or the text stays.
LEMMA TokensNext ==
  ASSUME TreeInv, TokensRead, NEW t \in Token, get_next_token(t),
         pc' = "output name" => t = "Colon"
  PROVE  TokensRead'
  BY TextNext DEF TokensRead

\* No token is read.
LEMMA TokensStay ==
  ASSUME TokensRead, UNCHANGED <<text, token>>, pc' # "output name", Reading' => Reading
  PROVE  TokensRead'
  BY DEF TokensRead

\* The statement's text: what is read at the beginning.
LEMMA OutputNodeText ==
  ASSUME TreeInv, TokensRead, NEW t \in Token, OutputNode(t)
  PROVE  StatementRead' /\ TokensRead' /\ TreeIsText'
  <1>1. get_next_token(t) /\ pc = "output name" /\ pc' \in {"output bracket", "fatal"}
    BY DEF OutputNode, Fatal
  <1>2. TokensRead' /\ TreeIsText'
    BY <1>1, TokensNext, NotParsed
  <1>3. ASSUME output_name' \in Name, pc' = "output bracket"
        PROVE  IsSuffix(<<"Colon">> \o <<output_name'>>, text')
    <2>1. /\ text \in Seq(Word) /\ t \in Word /\ text' = Append(text, t)
      BY <1>1, TextNext
    <2>2. TokenName(t) = output_name /\ output_name' = output_name
      BY <1>3 DEF OutputNode, Fatal, header
    <2>3. t = output_name
      BY <1>3, <2>2, ParserAssumption DEF TokenName
    <2>4. text # <<>> /\ token = "Colon"
      BY <1>1 DEF TokensRead
    <2>5. text = Append(Front(text), "Colon") /\ Front(text) \in Seq(Word) /\ "Colon" \in Word
      BY <2>4, TextTyped
    <2>6. IsSuffix(<<"Colon">>, text)
      <3>1. <<"Colon">> \in Seq(Word) /\ Len(<<"Colon">>) = 1 /\ <<"Colon">>[1] = "Colon"
        BY <2>5
      <3>2. Len(text) >= 1 /\ text[Len(text)] = "Colon"
        BY <2>5
      <3>3. \A p \in 1 .. 1 : p = 1
        OBVIOUS
      <3>4. Len(text) - 1 + 1 = Len(text)
        BY <2>1
      <3> QED
        BY <2>1, <3>1, <3>2, <3>3, <3>4, SuffixPlaces
    <2>7. <<"Colon">> \in Seq(Word)
      BY <2>5
    <2>8. IsSuffix(<<"Colon">> \o <<t>>, Append(text, t))
      BY <2>1, <2>6, <2>7, ReadOn
    <2> QED
      BY <2>1, <2>2, <2>3, <2>8
  <1>4. pc' # "equal" /\ ~InExpression'
    BY <1>1 DEF InExpression, Live
  <1> QED
    BY <1>2, <1>3, <1>4 DEF StatementRead

\* The node of a variable.
LEMMA VarNode ==
  ASSUME NEW t \in Name
  PROVE  LET x == NewNode("var", <<>>, t, "", "")
         IN  x \in NodeRecord /\ x.kind = "var" /\ x.kids = <<>> /\ x.node_name = t
  <1>1. "var" \in NodeKind
    BY DEF NodeKind
  <1>2. <<>> \in Seq(Nat)
    OBVIOUS
  <1>3. t \in Name \cup {""}
    OBVIOUS
  <1>4. "" \in Name \cup {""}
    OBVIOUS
  <1> QED
    BY <1>1, <1>2, <1>3, <1>4 DEF NewNode, NodeRecord

\* An operand or a token after one.
LEMMA OperandText ==
  ASSUME TreeInv, TokensRead, StatementRead, NEW t \in Token, Operand(t)
  PROVE  StatementRead' /\ TokensRead' /\ TreeIsText'
  <1>1. get_next_token(t) /\ pc = "operand" /\ pc' \in {"suffix", "fatal"}
    BY DEF Operand, Fatal
  <1>2. TokensRead' /\ TreeIsText'
    BY <1>1, TokensNext, NotParsed
  <1>3. CASE pc' = "fatal"
    BY <1>2, <1>3, NotReading DEF Reading, InExpression, Live
  <1>4. CASE pc' = "suffix"
    <2>1. InExpression /\ ~Live /\ Live' /\ InExpression' /\ Consumed = text /\ Consumed' = text'
      BY <1>1, <1>4 DEF InExpression, Live, Consumed
    <2> SUFFICES ASSUME output_name' \in Name, OutputIndexed'
                 PROVE  IsSuffix(Written(Pieces') \o Words'[node'], Consumed')
      BY <1>2, <2>1, ExpressionNext
    <2> DEFINE x == NewNode("var", <<>>, t, "", "")
    <2>2. /\ t \in Name /\ Make(<<x>>) /\ node' = Len(heap) + 1
          /\ UNCHANGED <<frames, declaration, header, sets, output, root>>
      BY <1>4 DEF Operand, Fatal
    <2>3. UNCHANGED <<frames, out_index, output_name>> /\ OutputIndexed
      BY <2>2 DEF header, output, OutputIndexed
    <2>4. ReadUpTo(<<>>)
      BY <2>1, <2>3, ExpressionRead DEF header
    <2>5. \A f \in 1 .. Len(frames) : CanWrite(frames[f], out_index, Node)
      BY <2>1, <2>3, PiecesReadable
    <2>6. x \in NodeRecord /\ x.kind = "var" /\ x.kids = <<>> /\ x.node_name = t
      BY <2>2, VarNode
    <2> HIDE DEF x
    <2>7. Fits(heap, x)
      BY <2>6, NoKids, ArityOfKinds DEF Fits
    <2>8. /\ \A n \in Node : WordsOf(heap')[n] = WordsOf(heap)[n]
          /\ WordsOf(heap')[node'] = <<t>>
      BY <2>2, <2>6, <2>7, MadeWords
    <2>9. DOMAIN frames = 1 .. Len(frames)
      BY FramesType DEF TreeInv
    <2>10. Pieces' = Pieces
      <3>1. PiecesWith(frames, WordsOf(heap'), output_name, out_index)
              = PiecesWith(frames, WordsOf(heap), output_name, out_index)
        <4>1. CanWriteAll(frames, out_index, Node)
          BY <2>5, <2>9 DEF CanWriteAll
        <4>2. SameOn(Node, WordsOf(heap'), WordsOf(heap))
          BY <2>8 DEF SameOn
        <4> QED
          BY <4>1, <4>2, SamePieces
      <3> QED
        BY <2>3, <3>1, PiecesAre
    <2>11. /\ Written(Pieces) \in Seq(Word) /\ IsSuffix(Written(Pieces), text)
           /\ text \in Seq(Word) /\ t \in Word /\ text' = Append(text, t)
      BY <1>1, <2>1, <2>4, TextNext DEF ReadUpTo
    <2>12. IsSuffix(Written(Pieces) \o <<t>>, Append(text, t))
      BY <2>11, ReadOn
    <2> QED
      BY <2>1, <2>8, <2>10, <2>11, <2>12 DEF Words
  <1> QED
    BY <1>1, <1>3, <1>4

\* A call adds a piece, and what has been read goes on with it.
LEMMA CallText ==
  ASSUME TreeInv, TreeInv', StatementRead, output_name \in Name,
         NEW x, frames' = Append(frames, x), pc' = "operand", UNCHANGED <<heap, output_name, out_index>>,
         InExpression => OutputIndexed,
         OutputIndexed'
  PROVE  /\ Written(Pieces) \in Seq(Word)
         /\ PieceWith(x, Words, output_name, out_index) \in Seq(Word)
         /\ Written(Pieces') = Written(Pieces) \o PieceWith(x, Words, output_name, out_index)
  <1> DEFINE P(f) == PieceWith(f, Words, output_name, out_index)
  <1>1. InExpression' /\ TypeOK /\ frames \in Seq(Frame(Node))
    BY FramesType DEF InExpression, TreeInv
  <1>2. (\A f \in 1 .. Len(frames) : CanWrite(frames[f], out_index, Node))'
    <2>1. (TreeInv /\ InExpression /\ OutputIndexed =>
             \A f \in 1 .. Len(frames) : CanWrite(frames[f], out_index, Node))'
      BY PiecesReadable, PTL
    <2> QED
      BY <1>1, <2>1
  <1>3. Node' = Node /\ out_index' = out_index
    BY DEF Node
  <1>4. \A f \in 1 .. Len(frames') : CanWrite(frames'[f], out_index, Node)
    BY <1>2, <1>3
  <1>5. /\ Len(frames) \in Nat /\ Len(frames') = Len(frames) + 1
        /\ DOMAIN frames = 1 .. Len(frames) /\ DOMAIN frames' = 1 .. Len(frames) + 1
        /\ \A f \in 1 .. Len(frames) : frames'[f] = frames[f]
        /\ frames'[Len(frames) + 1] = x
    BY <1>1
  <1>6. \A n \in Node : Words[n] \in Seq(Word)
    BY WordsKnown
  <1>7. \A f \in 1 .. Len(frames) + 1 : P(frames'[f]) \in Seq(Word)
    BY <1>4, <1>5, <1>6, PieceTyped
  <1> HIDE DEF P
  <1>8. Len(frames) + 1 \in 1 .. Len(frames) + 1 /\ \A f \in 1 .. Len(frames) : f \in 1 .. Len(frames) + 1
    BY <1>5
  <1>9. P(x) \in Seq(Word) /\ \A f \in 1 .. Len(frames) : P(frames[f]) \in Seq(Word)
    BY <1>5, <1>7, <1>8
  <1>12. /\ OneMore(frames', frames, Len(frames), x)
         /\ PiecesTyped(frames, Len(frames), Words, output_name, out_index)
         /\ PieceWith(x, Words, output_name, out_index) \in Seq(Word)
    BY <1>5, <1>9 DEF P, OneMore, PiecesTyped
  <1>10. /\ Written(PiecesWith(frames, Words, output_name, out_index)) \in Seq(Word)
         /\ Written(PiecesWith(frames', Words, output_name, out_index))
              = Written(PiecesWith(frames, Words, output_name, out_index))
                  \o PieceWith(x, Words, output_name, out_index)
    <2>1. Len(frames) \in Nat
      BY <1>5
    <2>2. /\ Written(PiecesWith(frames, Words, output_name, out_index)) \in Seq(Word)
          /\ WritesMore(frames', frames, x, Words, output_name, out_index)
      BY <1>12, <2>1, PiecesAppend
    <2> QED
      BY <2>2 DEF WritesMore
  <1>11. /\ Pieces = PiecesWith(frames, Words, output_name, out_index)
         /\ Pieces' = PiecesWith(frames', Words, output_name, out_index)
    BY PiecesAre DEF Words
  <1> QED
    BY <1>10, <1>11, <1>12

\* A token read behind what has been read.
LEMMA ReadBehind ==
  ASSUME NEW T, NEW a \in Seq(T), NEW b \in Seq(T), NEW t \in Seq(T), NEW e \in T,
         IsSuffix(a \o b, t)
  PROVE  IsSuffix(a \o (b \o <<e>>), Append(t, e))
  <1>1. a \o b \in Seq(T) /\ a \o (b \o <<e>>) = (a \o b) \o <<e>>
    OBVIOUS
  <1> QED
    BY <1>1, ReadOn

\* The operand and what stands behind it.
LEMMA SuffixText ==
  ASSUME TreeInv, TokensRead, StatementRead, NEW t \in Token, Suffix(t)
  PROVE  StatementRead' /\ TokensRead' /\ TreeIsText'
  <1>1. get_next_token(t) /\ pc = "suffix" /\ pc' \in {"operand", "operator"}
    BY DEF Suffix, Call, Goto
  <1>2. TokensRead' /\ TreeIsText'
    BY <1>1, TokensNext, NotParsed
  <1>3. InExpression /\ Live /\ InExpression' /\ Consumed = text /\ TreeInv'
    BY <1>1, SuffixStep DEF InExpression, Live, Consumed
  <1> SUFFICES ASSUME output_name' \in Name, OutputIndexed'
               PROVE  IsSuffix(Written(Pieces') \o (IF Live' THEN Words'[node'] ELSE <<>>),
                               Consumed')
    BY <1>2, <1>3, ExpressionNext
  <1>4. /\ text \in Seq(Word) /\ t \in Word /\ text' = Append(text, t)
        /\ Front(text') = text
    BY <1>1, TextNext
  <1>5. UNCHANGED <<heap, out_index, output_name, node>>
    BY DEF Suffix, Goto, header, output, tree
  <1>6. frames # <<>> /\ frames \in Seq(Frame(Node))
    BY <1>3, FramesType DEF TreeInv, Stack
  <1>7. CASE t # "LeftBracket"
    <2>1. frames' = frames /\ pc' = "operator"
      BY <1>7 DEF Suffix, Goto
    <2>2. OutputIndexed /\ Live' /\ Consumed' = text
      BY <1>4, <1>5, <2>1 DEF OutputIndexed, Live, Consumed
    <2>3. ReadUpTo(Words[node])
      BY <1>3, <1>5, <2>2, ExpressionRead
    <2>4. Pieces' = Pieces /\ Words' = Words
      BY <1>5, <2>1, PiecesAre DEF Words
    <2> QED
      BY <1>3, <1>5, <2>2, <2>3, <2>4 DEF ReadUpTo
  <1>8. CASE t = "LeftBracket"
    <2> DEFINE x == [place |-> "index", left |-> node, operator |-> "End"]
    <2>1. frames' = Append(frames, x) /\ pc' = "operand"
      BY <1>8 DEF Suffix, Call
    <2>2. x.place = "index" /\ x.left = node
      OBVIOUS
    <2> HIDE DEF x
    <2>3. frames'[1] = frames[1]
      BY <1>6, <2>1
    <2>4. OutputIndexed /\ ~Live' /\ Consumed' = text'
      BY <1>5, <1>6, <2>1, <2>3 DEF OutputIndexed, Live, Consumed
    <2>5. ReadUpTo(Words[node])
      BY <1>3, <1>5, <2>4, ExpressionRead
    <2>6. Written(Pieces') = Written(Pieces) \o PieceWith(x, Words, output_name, out_index)
      BY <1>3, <1>5, <2>1, <2>4, CallText
    <2>7. PieceWith(x, Words, output_name, out_index) = Words[node] \o <<t>>
      BY <1>8, <2>2 DEF PieceWith
    <2>8. /\ Written(Pieces) \in Seq(Word) /\ Words[node] \in Seq(Word)
          /\ IsSuffix(Written(Pieces) \o Words[node], text)
      BY <1>3, <2>5 DEF ReadUpTo
    <2>9. IsSuffix(Written(Pieces) \o (Words[node] \o <<t>>), Append(text, t))
      BY <1>4, <2>8, ReadBehind
    <2>10. Written(Pieces') = Written(Pieces) \o (Words[node] \o <<t>>)
      BY <2>6, <2>7
    <2>11. Written(Pieces') \o <<>> = Written(Pieces')
      BY <1>4, <2>8, <2>10
    <2> QED
      BY <1>4, <2>4, <2>9, <2>10, <2>11
  <1> QED
    BY <1>7, <1>8

\* An operator, or a token that is none: the token at hand was read ahead.
LEMMA OperatorText ==
  ASSUME TreeInv, TokensRead, StatementRead, Operator
  PROVE  StatementRead' /\ TokensRead' /\ TreeIsText'
  <1>1. pc = "operator" /\ pc' \in {"operand", "return"} /\ UNCHANGED <<text, token>>
    BY DEF Operator, Call, Goto
  <1>2. InExpression /\ Live /\ InExpression' /\ Reading /\ Consumed = Front(text) /\ TreeInv'
    BY <1>1, OperatorStep DEF InExpression, Live, Consumed, Reading
  <1>3. TokensRead' /\ TreeIsText'
    BY <1>1, <1>2, TokensStay, NotParsed
  <1> SUFFICES ASSUME output_name' \in Name, OutputIndexed'
               PROVE  IsSuffix(Written(Pieces') \o (IF Live' THEN Words'[node'] ELSE <<>>),
                               Consumed')
    BY <1>2, <1>3, ExpressionNext
  <1>4. /\ Front(text) \in Seq(Word) /\ token \in Word
        /\ text = Append(Front(text), token)
    BY <1>2, TextTyped DEF TokensRead
  <1>5. UNCHANGED <<heap, out_index, output_name, node>>
    BY DEF Operator, Goto, header, output, tree
  <1>6. frames # <<>> /\ frames \in Seq(Frame(Node))
    BY <1>2, FramesType DEF TreeInv, Stack
  <1>7. CASE token \notin Binary
    <2>1. frames' = frames /\ pc' = "return"
      BY <1>7 DEF Operator, Goto
    <2>2. OutputIndexed /\ Live' /\ Consumed' = Front(text)
      BY <1>1, <1>5, <2>1 DEF OutputIndexed, Live, Consumed
    <2>3. ReadUpTo(Words[node])
      BY <1>2, <1>5, <2>2, ExpressionRead
    <2>4. Pieces' = Pieces /\ Words' = Words
      BY <1>5, <2>1, PiecesAre DEF Words
    <2> QED
      BY <1>2, <1>5, <2>2, <2>3, <2>4 DEF ReadUpTo
  <1>8. CASE token \in Binary
    <2> DEFINE x == [place |-> "right", left |-> node, operator |-> token]
    <2>1. frames' = Append(frames, x) /\ pc' = "operand"
      BY <1>8 DEF Operator, Call
    <2>2. x.place = "right" /\ x.left = node /\ x.operator = token
      OBVIOUS
    <2> HIDE DEF x
    <2>3. frames'[1] = frames[1]
      BY <1>6, <2>1
    <2>4. OutputIndexed /\ ~Live' /\ Consumed' = text
      BY <1>1, <1>5, <1>6, <2>1, <2>3 DEF OutputIndexed, Live, Consumed
    <2>5. ReadUpTo(Words[node])
      BY <1>2, <1>5, <2>4, ExpressionRead
    <2>6. Written(Pieces') = Written(Pieces) \o PieceWith(x, Words, output_name, out_index)
      BY <1>2, <1>5, <2>1, <2>4, CallText
    <2>7. PieceWith(x, Words, output_name, out_index) = Words[node] \o <<token>>
      BY <2>2 DEF PieceWith
    <2>8. /\ Written(Pieces) \in Seq(Word) /\ Words[node] \in Seq(Word)
          /\ IsSuffix(Written(Pieces) \o Words[node], Front(text))
      BY <1>2, <2>5 DEF ReadUpTo
    <2>9. IsSuffix(Written(Pieces) \o (Words[node] \o <<token>>), Append(Front(text), token))
      BY <1>4, <2>8, ReadBehind
    <2>10. Written(Pieces') = Written(Pieces) \o (Words[node] \o <<token>>)
      BY <2>6, <2>7
    <2>11. Written(Pieces') \o <<>> = Written(Pieces')
      BY <1>4, <2>8, <2>10
    <2>12. IsSuffix(Written(Pieces'), text)
      BY <1>4, <2>9, <2>10
    <2> QED
      BY <2>4, <2>11, <2>12
  <1> QED
    BY <1>7, <1>8

\* The calls of ParseExpr.
LEMMA FirstPieces ==
  ASSUME frames = <<>>
  PROVE  Written(Pieces) = <<"Colon">>
  <1>1. Pieces = <<>>
    BY DEF Pieces
  <1> QED
    BY <1>1, WrittenEmpty

\* Two words put together.
LEMMA PairOfWords == \A a, b : <<a>> \o <<b>> = <<a, b>>
  <1> SUFFICES ASSUME NEW a, NEW b PROVE <<a>> \o <<b>> = <<a, b>>
    OBVIOUS
  <1>1. <<a>> \in Seq({a, b}) /\ <<b>> \in Seq({a, b}) /\ <<a, b>> \in Seq({a, b})
    OBVIOUS
  <1>2. Len(<<a>> \o <<b>>) = 2 /\ (<<a>> \o <<b>>)[1] = a /\ (<<a>> \o <<b>>)[2] = b
    OBVIOUS
  <1>3. <<a>> \o <<b>> \in Seq({a, b})
    BY <1>1
  <1>4. \A p \in 1 .. 2 : (<<a>> \o <<b>>)[p] = <<a, b>>[p]
    BY <1>2
  <1> QED
    BY <1>1, <1>2, <1>3, <1>4, SeqEqual

\* The bracket behind the output, or the token after it.
LEMMA OutputBracketText ==
  ASSUME TreeInv, TokensRead, StatementRead, NEW t \in Token, OutputBracket(t)
  PROVE  StatementRead' /\ TokensRead' /\ TreeIsText'
  <1>1. get_next_token(t) /\ pc = "output bracket" /\ pc' \in {"operand", "equal"}
    BY DEF OutputBracket, Call, Goto
  <1>2. TokensRead' /\ TreeIsText'
    BY <1>1, TokensNext, NotParsed
  <1>3. ~InExpression /\ frames = <<>> /\ out_index = 0 /\ TreeInv'
    BY <1>1, OutputBracketStep DEF InExpression, Live, TreeInv, Stack
  <1>5. UNCHANGED <<heap, out_index, output_name, node>>
    BY DEF OutputBracket, Goto, header, output, tree
  <1>7. CASE t # "LeftBracket"
    <2>1. frames' = frames /\ pc' = "equal"
      BY <1>7 DEF OutputBracket, Goto
    <2>2. ~OutputIndexed' /\ ~InExpression'
      BY <1>3, <1>5, <2>1 DEF OutputIndexed, InExpression, Live
    <2> QED
      BY <1>2, <2>1, <2>2 DEF StatementRead
  <1>8. CASE t = "LeftBracket"
    <2> DEFINE x == [place |-> "output index", left |-> 0, operator |-> "End"]
    <2>1. frames' = Append(frames, x) /\ pc' = "operand"
      BY <1>8 DEF OutputBracket, Call
    <2>2. x.place = "output index"
      OBVIOUS
    <2> HIDE DEF x
    <2>3. frames' = <<x>> /\ frames'[1] = x /\ frames' # <<>>
      BY <1>3, <2>1
    <2>4. OutputIndexed' /\ ~Live' /\ InExpression' /\ Consumed' = text'
      BY <2>1, <2>2, <2>3 DEF OutputIndexed, Live, InExpression, Consumed
    <2> SUFFICES ASSUME output_name' \in Name
                 PROVE  IsSuffix(Written(Pieces') \o <<>>, text')
      BY <1>2, <2>4, ExpressionNext
    <2>5. /\ text \in Seq(Word) /\ t \in Word /\ text' = Append(text, t)
      BY <1>1, TextNext
    <2>6. Written(Pieces') = Written(Pieces) \o PieceWith(x, Words, output_name, out_index)
      BY <1>3, <1>5, <2>1, <2>4, CallText
    <2>7. PieceWith(x, Words, output_name, out_index) = <<output_name, t>>
      BY <1>8, <2>2 DEF PieceWith
    <2>8. IsSuffix(<<"Colon">> \o <<output_name>>, text) /\ output_name \in Word /\ "Colon" \in Word
      BY <1>1, <1>5 DEF StatementRead, Word, Token, Kind
    <2>9. <<"Colon">> \in Seq(Word) /\ <<output_name>> \in Seq(Word)
      BY <2>8
    <2>10. IsSuffix(<<"Colon">> \o (<<output_name>> \o <<t>>), Append(text, t))
      BY <2>5, <2>8, <2>9, ReadBehind
    <2>11. <<output_name>> \o <<t>> = <<output_name, t>>
      BY PairOfWords
    <2>12. Written(Pieces') = <<"Colon">> \o (<<output_name>> \o <<t>>)
      BY <1>3, <2>6, <2>7, <2>11, FirstPieces
    <2>13. Written(Pieces') \o <<>> = Written(Pieces')
      BY <2>5, <2>9, <2>12
    <2> QED
      BY <2>5, <2>10, <2>12, <2>13
  <1> QED
    BY <1>7, <1>8

\* The assignment behind the element of the output.
LEMMA EqualTypeText ==
  ASSUME TreeInv, TokensRead, StatementRead, EqualType
  PROVE  StatementRead' /\ TokensRead' /\ TreeIsText'
  <1>1. pc = "equal" /\ pc' \in {"operand", "fatal"} /\ UNCHANGED <<text, token>> /\ Reading
    BY DEF EqualType, Call, Fatal, Reading
  <1>2. TokensRead' /\ TreeIsText'
    BY <1>1, TokensStay, NotParsed
  <1>3. ~InExpression /\ frames = <<>> /\ Pending /\ TypeOK /\ TreeInv'
    BY <1>1, EqualTypeStep DEF InExpression, Live, TreeInv, Stack
  <1>5. UNCHANGED <<heap, out_index, output_name, node>>
    BY DEF EqualType, Fatal, header, output, tree
  <1>7. CASE token \notin {"AddEquel", "MultEquel"}
    <2>1. pc' = "fatal"
      BY <1>7 DEF EqualType, Fatal
    <2> QED
      BY <1>2, <2>1, NotReading DEF Reading, InExpression, Live
  <1>8. CASE token \in {"AddEquel", "MultEquel"}
    <2> DEFINE x == [place |-> "data", left |-> 0, operator |-> token]
    <2>1. frames' = Append(frames, x) /\ pc' = "operand"
      BY <1>8 DEF EqualType, Call
    <2>2. x.place = "data" /\ x.operator = token
      OBVIOUS
    <2> HIDE DEF x
    <2>3. frames' = <<x>> /\ frames'[1] = x
      BY <1>3, <2>1
    <2>4. ~Live' /\ InExpression' /\ Consumed' = text
      BY <1>1, <2>1 DEF Live, InExpression, Consumed
    <2> SUFFICES ASSUME output_name' \in Name, OutputIndexed'
                 PROVE  IsSuffix(Written(Pieces') \o <<>>, text)
      BY <1>2, <2>4, ExpressionNext
    <2>5. /\ Front(text) \in Seq(Word) /\ token \in Word
          /\ text = Append(Front(text), token)
      BY <1>1, TextTyped DEF TokensRead
    <2>6. out_index # 0 /\ OutputIndexed
      BY <1>5, <2>2, <2>3 DEF OutputIndexed
    <2>7. out_index \in Node
      BY <1>3, <2>6 DEF TypeOK
    <2>8. Written(Pieces') = Written(Pieces) \o PieceWith(x, Words, output_name, out_index)
      BY <1>3, <1>5, <2>1, CallText
    <2>9. PieceWith(x, Words, output_name, out_index) = OutputElement \o <<token>>
      BY <2>2 DEF PieceWith, OutputElement
    <2>10. Words[out_index] \in Seq(Word)
      BY <2>7, WordsKnown
    <2>11. /\ output_name \in Word /\ "Colon" \in Word
           /\ "LeftBracket" \in Word /\ "RightBracket" \in Word
      BY <1>5 DEF Word, Token, Kind
    <2>12. OutputElement \in Seq(Word)
      BY <2>10, <2>11 DEF OutputElement
    <2>13. <<"Colon">> \in Seq(Word)
      BY <2>11
    <2>14. IsSuffix(<<"Colon">> \o OutputElement, Front(text))
      BY <1>1, <1>5, <2>6 DEF StatementRead, Consumed
    <2>15. IsSuffix(<<"Colon">> \o (OutputElement \o <<token>>), Append(Front(text), token))
      BY <2>5, <2>12, <2>13, <2>14, ReadBehind
    <2>16. Written(Pieces') = <<"Colon">> \o (OutputElement \o <<token>>)
      BY <1>3, <2>8, <2>9, FirstPieces
    <2>17. Written(Pieces') \o <<>> = Written(Pieces')
      BY <2>5, <2>12, <2>13, <2>16
    <2> QED
      BY <2>5, <2>15, <2>16, <2>17
  <1> QED
    BY <1>7, <1>8

\* The words after a node has been made, once its step is known to be sound.
LEMMA NodeWordsNext ==
  ASSUME TreeInv, TreeInv', NEW x, Make(<<x>>)
  PROVE  /\ SameOn(Node, WordsOf(heap'), WordsOf(heap))
         /\ WordsOf(heap')[Len(heap) + 1] = NodeWords(x, WordsOf(heap'))
  <1>1. heap \in Heaps /\ Node = 1 .. Len(heap)
    BY HeapIs DEF TreeInv
  <1>2. heap' \in Heaps
    <2>1. (TypeOK /\ NeedCountsUses /\ HeapWellMade => heap \in Heaps)'
      BY HeapIs, PTL
    <2> QED
      BY <2>1 DEF TreeInv
  <1>3. heap' = heap \o <<x>>
    BY DEF Make
  <1>4. heap \in Seq(NodeRecord \cup {x}) /\ x \in NodeRecord \cup {x}
    BY <1>1 DEF Heaps
  <1>5. heap' = Append(heap, x) /\ Append(heap, x)[Len(heap) + 1] = x
        /\ Len(Append(heap, x)) = Len(heap) + 1 /\ Len(heap) \in Nat
    BY <1>3, <1>4
  <1>6. SameOn(Node, WordsOf(heap'), WordsOf(heap))
    BY <1>1, <1>2, <1>5, WordsStay DEF SameOn
  <1>7. Len(heap) + 1 \in 1 .. Len(heap')
    BY <1>5
  <1> QED
    BY <1>2, <1>5, <1>6, <1>7, WordsAre

\* A variable is written as its name.
LEMMA WordsOfVariable ==
  ASSUME TreeInv, NEW n \in Node, heap[n].kind = "var"
  PROVE  Words[n] = <<heap[n].node_name>>
  <1>1. heap \in Heaps /\ Node = 1 .. Len(heap)
    BY HeapIs DEF TreeInv
  <1>2. Words[n] = NodeWords(heap[n], Words)
    BY <1>1, WordsAre DEF Words
  <1> QED
    BY <1>2 DEF NodeWords, Binary

\* Putting sequences together is associative.
LEMMA Rebracket ==
  ASSUME NEW T, NEW a \in Seq(T), NEW b \in Seq(T), NEW c \in Seq(T), NEW d \in Seq(T),
         NEW t, IsSuffix((a \o (b \o c)) \o d, t)
  PROVE  IsSuffix(a \o (b \o c \o d), t)
  <1> DEFINE e == b \o c
  <1>1. e \in Seq(T)
    OBVIOUS
  <1> HIDE DEF e
  <1>2. (a \o e) \o d = a \o (e \o d)
    BY <1>1
  <1>3. IsSuffix(a \o (e \o d), t)
    BY <1>2 DEF e
  <1> QED
    BY <1>3 DEF e

\* A return takes the piece of its call away.
LEMMA ReturnText ==
  ASSUME TreeInv, StatementRead, output_name \in Name, OutputIndexed, Caller,
         frames' = Front(frames), UNCHANGED <<output_name, out_index>>,
         SameOn(Node, WordsOf(heap'), WordsOf(heap))
  PROVE  /\ Written(Pieces') \in Seq(Word)
         /\ PieceWith(Top, Words, output_name, out_index) \in Seq(Word)
         /\ Words[node] \in Seq(Word)
         /\ IsSuffix((Written(Pieces') \o PieceWith(Top, Words, output_name, out_index)) \o Words[node],
                     Consumed)
  <1> DEFINE n == Len(frames) - 1
  <1>1. Live /\ InExpression /\ Len(frames) \in Nat /\ Len(frames) >= 2 /\ Top = frames[Len(frames)]
    BY DEF Caller, InExpression
  <1>2. ReadUpTo(Words[node])
    BY <1>1, ExpressionRead
  <1>3. frames # <<>> /\ TypeOK
    BY <1>1 DEF TreeInv
  <1>4. /\ Len(frames') = n /\ DOMAIN frames' = 1 .. n /\ DOMAIN frames = 1 .. Len(frames)
        /\ \A f \in 1 .. n : frames'[f] = frames[f]
    BY <1>3, Popped
  <1>5. n \in Nat /\ n + 1 = Len(frames) /\ Len(frames) \in 1 .. Len(frames)
    BY <1>1
  <1>6. \A f \in 1 .. n : f \in 1 .. Len(frames)
    BY <1>5
  <1> HIDE DEF n
  <1>7. OneMore(frames, frames', n, Top)
    BY <1>1, <1>4, <1>5 DEF OneMore
  <1>8. \A f \in 1 .. Len(frames) :
          PieceWith(frames[f], Words, output_name, out_index) \in Seq(Word)
    BY <1>2 DEF ReadUpTo
  <1>9. /\ PiecesTyped(frames', n, Words, output_name, out_index)
        /\ PieceWith(Top, Words, output_name, out_index) \in Seq(Word)
    BY <1>1, <1>4, <1>5, <1>6, <1>8 DEF PiecesTyped
  <1>10. /\ Written(PiecesWith(frames', Words, output_name, out_index)) \in Seq(Word)
         /\ WritesMore(frames, frames', Top, Words, output_name, out_index)
    BY <1>5, <1>7, <1>9, PiecesAppend
  <1>11. CanWriteAll(frames', out_index, Node)
    <2>1. \A f \in 1 .. Len(frames) : CanWrite(frames[f], out_index, Node)
      BY <1>1, PiecesReadable
    <2> QED
      BY <1>4, <1>6, <2>1 DEF CanWriteAll
  <1>12. PiecesWith(frames', WordsOf(heap'), output_name, out_index)
           = PiecesWith(frames', WordsOf(heap), output_name, out_index)
    BY <1>11, SamePieces
  <1>13. /\ Pieces' = PiecesWith(frames', Words, output_name, out_index)
         /\ Pieces = PiecesWith(frames, Words, output_name, out_index)
    BY <1>12, PiecesAre DEF Words
  <1>14. Written(Pieces) = Written(Pieces') \o PieceWith(Top, Words, output_name, out_index)
    BY <1>10, <1>13 DEF WritesMore
  <1>15. IsSuffix(Written(Pieces) \o Words[node], Consumed) /\ Words[node] \in Seq(Word)
    BY <1>2 DEF ReadUpTo
  <1> QED
    BY <1>9, <1>10, <1>13, <1>14, <1>15

\* Left operand, operator and right operand are the words of the new node.
LEMMA ReturnRightText ==
  ASSUME TreeInv, TokensRead, StatementRead, ReturnRight
  PROVE  StatementRead' /\ TokensRead' /\ TreeIsText'
  <1>1. pc = "return" /\ pc' = "return" /\ UNCHANGED <<text, token>> /\ Top.place = "right"
    BY DEF ReturnRight
  <1>2. Live' /\ InExpression' /\ Reading /\ Consumed' = Consumed /\ TreeInv' /\ InExpression
    BY <1>1, ReturnRightStep DEF InExpression, Live, Consumed, Reading
  <1>3. TokensRead' /\ TreeIsText'
    BY <1>1, <1>2, TokensStay, NotParsed
  <1> SUFFICES ASSUME output_name' \in Name, OutputIndexed'
               PROVE  IsSuffix(Written(Pieces') \o Words'[node'], Consumed')
    BY <1>2, <1>3, ExpressionNext
  <1> DEFINE x == NewNode(Top.operator, <<Top.left, node>>, "", "", "")
             op == Top.operator
             left == Top.left
  <1>4. /\ Make(<<x>>) /\ node' = Len(heap) + 1 /\ frames' = Front(frames)
        /\ UNCHANGED <<output_name, out_index>>
    BY DEF ReturnRight, header, output
  <1>5. Caller
    BY <1>1, CallerIs
  <1>6. OutputIndexed
    <2>1. frames'[1] = frames[1] /\ frames # <<>>
      <3>1. frames # <<>> /\ TypeOK /\ 1 \in 1 .. Len(frames) - 1
        BY <1>5 DEF Caller, TreeInv
      <3> QED
        BY <1>4, <3>1, Popped
    <2> QED
      BY <1>4, <2>1 DEF OutputIndexed
  <1>7. op \in Binary
    <2>1. Len(frames) \in DOMAIN frames
      BY <1>5, FramesType DEF Caller, TreeInv
    <2> QED
      BY <1>1, <1>2, <1>5, <2>1 DEF Stack, Caller, TreeInv
  <1>8. x.kind = op /\ x.kids = <<left, node>>
    BY DEF NewNode
  <1> HIDE DEF x
  <1>9. /\ SameOn(Node, WordsOf(heap'), WordsOf(heap))
        /\ WordsOf(heap')[node'] = NodeWords(x, WordsOf(heap'))
    BY <1>2, <1>4, NodeWordsNext
  <1>10. /\ Written(Pieces') \in Seq(Word)
         /\ PieceWith(Top, Words, output_name, out_index) \in Seq(Word)
         /\ Words[node] \in Seq(Word)
         /\ IsSuffix((Written(Pieces') \o PieceWith(Top, Words, output_name, out_index)) \o Words[node],
                     Consumed)
    BY <1>4, <1>5, <1>6, <1>9, ReturnText
  <1>11. PieceWith(Top, Words, output_name, out_index) = Words[left] \o <<op>>
    BY <1>1 DEF PieceWith
  <1>12. left \in Node /\ node \in Node
    BY <1>5 DEF Caller
  <1>13. WordsOf(heap')[left] = Words[left] /\ WordsOf(heap')[node] = Words[node]
    BY <1>9, <1>12 DEF SameOn, Words
  <1> HIDE DEF op, left
  <1>14. NodeWords(x, WordsOf(heap')) = Words[left] \o <<op>> \o Words[node]
    <2>1. x.kids[1] = left /\ x.kids[2] = node
      BY <1>8
    <2> DEFINE w == WordsOf(heap')
    <2> HIDE DEF w
    <2>2. NodeWords(x, w) = w[x.kids[1]] \o <<x.kind>> \o w[x.kids[2]]
      BY <1>7, <1>8 DEF NodeWords, Binary
    <2>3. w[left] = Words[left] /\ w[node] = Words[node]
      BY <1>13 DEF w
    <2>4. NodeWords(x, w) = Words[left] \o <<op>> \o Words[node]
      BY <1>8, <2>1, <2>2, <2>3
    <2> QED
      BY <2>4 DEF w
  <1>15. Words[left] \in Seq(Word) /\ <<op>> \in Seq(Word)
    <2>1. op \in Word
      BY <1>7 DEF Word, Token, Kind
    <2> QED
      BY <1>12, <2>1, WordsKnown
  <1>16. Words'[node'] = Words[left] \o <<op>> \o Words[node]
    BY <1>9, <1>14 DEF Words
  <1>17. IsSuffix((Written(Pieces') \o (Words[left] \o <<op>>)) \o Words[node], Consumed)
    BY <1>10, <1>11
  <1>18. IsSuffix(Written(Pieces') \o (Words[left] \o <<op>> \o Words[node]), Consumed)
    BY <1>10, <1>15, <1>17, Rebracket
  <1> QED
    BY <1>2, <1>16, <1>18

\* The element that a return from brackets makes.
LEMMA ElementWords ==
  ASSUME TreeInv, TreeInv', NEW t \in Token, ReturnIndex(t), ~Fatal, Caller,
         heap[Top.left].kind = "var"
  PROVE  /\ SameOn(Node, WordsOf(heap'), WordsOf(heap))
         /\ WordsOf(heap')[node']
              = <<heap[Top.left].node_name, "LeftBracket">> \o Words[node] \o <<"RightBracket">>
  <1> DEFINE name == heap[Top.left].node_name
             w == WordsOf(heap')
  <1>1. node \in Node /\ node' = Len(heap) + 1
    BY DEF ReturnIndex, Caller
  <1>2. CASE heap[node].kind = "load"
    <2> DEFINE x == NewNode("gather", <<Top.left, node>>, heap[node].addr_name, name, heap[node].addr_name)
    <2>1. Make(<<x>>)
      BY <1>2 DEF ReturnIndex, GatherElement
    <2>2. x.kind = "gather" /\ x.kids = <<Top.left, node>> /\ x.addr_name = name
      BY DEF NewNode
    <2>3. x.kids[2] = node
      BY <2>2
    <2> HIDE DEF x, name
    <2>4. SameOn(Node, WordsOf(heap'), WordsOf(heap)) /\ w[node'] = NodeWords(x, w)
      BY <1>1, <2>1, NodeWordsNext
    <2>5. w[node] = Words[node]
      BY <1>1, <2>4 DEF SameOn, Words
    <2> HIDE DEF w
    <2>6. NodeWords(x, w) = <<name, "LeftBracket">> \o w[x.kids[2]] \o <<"RightBracket">>
      BY <2>2 DEF NodeWords, Binary
    <2>7. w[node'] = <<name, "LeftBracket">> \o Words[node] \o <<"RightBracket">>
      BY <2>3, <2>4, <2>5, <2>6
    <2> QED
      BY <2>4, <2>7 DEF w, name
  <1>3. CASE heap[node].kind # "load"
    <2> DEFINE index == heap[node].node_name
               x == NewNode("load", <<Top.left>>, index, name, index)
    <2>1. Make(<<x>>) /\ heap[node].kind = "var"
      BY <1>3 DEF ReturnIndex, LoadElement
    <2>2. x.kind = "load" /\ x.addr_name = name /\ x.index_name = index
      BY DEF NewNode
    <2>3. Words[node] = <<index>>
      BY <1>1, <2>1, WordsOfVariable
    <2> HIDE DEF x, name, index
    <2>4. SameOn(Node, WordsOf(heap'), WordsOf(heap)) /\ w[node'] = NodeWords(x, w)
      BY <1>1, <2>1, NodeWordsNext
    <2> HIDE DEF w
    <2>5. NodeWords(x, w) = <<name, "LeftBracket">> \o <<x.index_name>> \o <<"RightBracket">>
      BY <2>2 DEF NodeWords, Binary
    <2>6. w[node'] = <<name, "LeftBracket">> \o Words[node] \o <<"RightBracket">>
      BY <2>2, <2>3, <2>4, <2>5
    <2> QED
      BY <2>4, <2>6 DEF w, name
  <1> QED
    BY <1>2, <1>3

\* Array, brackets and index are the words of the new node.
LEMMA ReturnIndexText ==
  ASSUME TreeInv, TokensRead, StatementRead, NEW t \in Token, ReturnIndex(t)
  PROVE  StatementRead' /\ TokensRead' /\ TreeIsText'
  <1>1. get_next_token(t) /\ pc = "return" /\ Top.place = "index" /\ token = "RightBracket"
    BY DEF ReturnIndex
  <1>2. pc' \in {"operator", "fatal"}
    BY DEF ReturnIndex, Fatal
  <1>3. TokensRead' /\ TreeIsText'
    BY <1>1, <1>2, TokensNext, NotParsed
  <1>4. CASE Fatal
    <2>1. pc' = "fatal"
      BY <1>4 DEF Fatal
    <2> QED
      BY <1>3, <2>1, NotReading DEF Reading, InExpression, Live
  <1>5. CASE ~Fatal
    <2>1. /\ pc' = "operator" /\ frames' = Front(frames)
          /\ UNCHANGED <<output_name, out_index>>
      BY <1>5 DEF ReturnIndex, header, output
    <2>2. /\ Live /\ InExpression /\ Reading /\ Live' /\ InExpression' /\ TreeInv'
          /\ Consumed = Front(text) /\ Consumed' = Front(text')
      BY <1>1, <2>1, ReturnIndexStep DEF InExpression, Live, Consumed, Reading
    <2> SUFFICES ASSUME output_name' \in Name, OutputIndexed'
                 PROVE  IsSuffix(Written(Pieces') \o Words'[node'], Consumed')
      BY <1>3, <2>2, ExpressionNext
    <2>3. /\ Front(text) \in Seq(Word) /\ token \in Word /\ text = Append(Front(text), token)
          /\ Front(text') = text
      BY <1>1, <2>2, TextTyped, TextNext DEF TokensRead
    <2>4. Caller
      BY <1>1, CallerIs
    <2>5. OutputIndexed
      <3>1. frames # <<>> /\ TypeOK /\ 1 \in 1 .. Len(frames) - 1
        BY <2>4 DEF Caller, TreeInv
      <3>2. frames'[1] = frames[1]
        BY <2>1, <3>1, Popped
      <3> QED
        BY <2>1, <3>1, <3>2 DEF OutputIndexed
    <2>6. heap[Top.left].kind = "var" /\ Top.left \in Node
      <3>1. Len(frames) \in DOMAIN frames
        BY <2>4, FramesType DEF Caller, TreeInv
      <3> QED
        BY <1>1, <2>2, <2>4, <3>1 DEF Stack, Caller, TreeInv
    <2> DEFINE name == heap[Top.left].node_name
               W == Written(Pieces')
               wn == Words[node]
    <2>7. /\ SameOn(Node, WordsOf(heap'), WordsOf(heap))
          /\ WordsOf(heap')[node'] = <<name, "LeftBracket">> \o wn \o <<"RightBracket">>
      BY <1>5, <2>2, <2>4, <2>6, ElementWords
    <2>8. Words[Top.left] = <<name>> /\ Words[Top.left] \in Seq(Word)
      BY <2>6, WordsOfVariable, WordsKnown
    <2>9. /\ W \in Seq(Word) /\ wn \in Seq(Word)
          /\ IsSuffix((W \o PieceWith(Top, Words, output_name, out_index)) \o wn, Front(text))
      BY <2>1, <2>2, <2>4, <2>5, <2>7, ReturnText
    <2>10. PieceWith(Top, Words, output_name, out_index) = Words[Top.left] \o <<"LeftBracket">>
      BY <1>1 DEF PieceWith
    <2>11. Words'[node'] = <<name, "LeftBracket">> \o wn \o <<"RightBracket">>
      BY <2>7 DEF Words
    <2> HIDE DEF W, wn, name
    <2>12. IsSuffix((W \o (<<name>> \o <<"LeftBracket">>)) \o wn, Front(text))
      BY <2>8, <2>9, <2>10
    <2>13. <<name>> \in Seq(Word) /\ <<"LeftBracket">> \in Seq(Word)
      <3>1. "LeftBracket" \in Word
        BY DEF Word, Token, Kind
      <3> QED
        BY <2>8, <3>1
    <2>14. IsSuffix(W \o (<<name>> \o <<"LeftBracket">> \o wn), Front(text))
      BY <2>9, <2>12, <2>13, Rebracket
    <2>15. <<name>> \o <<"LeftBracket">> = <<name, "LeftBracket">>
      BY PairOfWords
    <2>16. <<name, "LeftBracket">> \o wn \in Seq(Word)
      BY <2>9, <2>13, <2>15
    <2>17. IsSuffix(W \o (<<name, "LeftBracket">> \o wn), Front(text))
      BY <2>14, <2>15
    <2>18. IsSuffix(W \o ((<<name, "LeftBracket">> \o wn) \o <<token>>), Append(Front(text), token))
      BY <2>3, <2>9, <2>16, <2>17, ReadBehind
    <2>19. Consumed' = Append(Front(text), token)
      BY <2>2, <2>3
    <2> QED
      BY <1>1, <2>11, <2>18, <2>19 DEF W
  <1> QED
    BY <1>4, <1>5

\* A call of ParseExpr when it returns.
LEMMA OneCallText ==
  ASSUME TreeInv, StatementRead, output_name \in Name, OutputIndexed, Live, Len(frames) = 1
  PROVE  /\ Words[node] \in Seq(Word)
         /\ PieceWith(Top, Words, output_name, out_index) \in Seq(Word)
         /\ IsSuffix((<<"Colon">> \o PieceWith(Top, Words, output_name, out_index)) \o Words[node],
                     Consumed)
  <1>1. InExpression /\ frames # <<>> /\ Top = frames[1]
    BY DEF InExpression, Top, Last
  <1>2. ReadUpTo(Words[node])
    BY <1>1, ExpressionRead
  <1>3. 1 \in 1 .. Len(frames) /\ DOMAIN frames = 1 .. 0 + 1
    BY FramesType DEF TreeInv
  <1>4. PieceWith(Top, Words, output_name, out_index) \in Seq(Word)
    BY <1>1, <1>2, <1>3 DEF ReadUpTo
  <1> DEFINE none == <<>>
  <1>5. none = <<>> /\ DOMAIN none = 1 .. 0 /\ \A f \in 1 .. 0 : FALSE
    OBVIOUS
  <1>6. frames[0 + 1] = Top
    BY <1>1
  <1> HIDE DEF none
  <1>7. OneMore(frames, none, 0, Top)
    BY <1>3, <1>5, <1>6 DEF OneMore
  <1>8. PiecesTyped(none, 0, Words, output_name, out_index)
    BY <1>5 DEF PiecesTyped
  <1>9. 0 \in Nat
    OBVIOUS
  <1>10. WritesMore(frames, none, Top, Words, output_name, out_index)
    BY <1>4, <1>7, <1>8, <1>9, PiecesAppend
  <1>11. PiecesWith(none, Words, output_name, out_index) = <<>>
    BY <1>5 DEF PiecesWith
  <1>12. Written(Pieces) = <<"Colon">> \o PieceWith(Top, Words, output_name, out_index)
    BY <1>10, <1>11, WrittenEmpty, PiecesAre DEF WritesMore, Words
  <1> QED
    BY <1>2, <1>4, <1>12 DEF ReadUpTo

\* The index of the output is closed: the element of the output is complete.
LEMMA ReturnOutputIndexText ==
  ASSUME TreeInv, TokensRead, StatementRead, NEW t \in Token, ReturnOutputIndex(t)
  PROVE  StatementRead' /\ TokensRead' /\ TreeIsText'
  <1>1. /\ get_next_token(t) /\ pc = "return" /\ Top.place = "output index"
        /\ token = "RightBracket" /\ pc' = "equal" /\ out_index' = node /\ frames' = Front(frames)
    BY DEF ReturnOutputIndex
  <1>2. TokensRead' /\ TreeIsText'
    BY <1>1, TokensNext, NotParsed
  <1>3. /\ Live /\ InExpression /\ Reading /\ ~InExpression' /\ TreeInv'
        /\ Consumed = Front(text) /\ Consumed' = Front(text')
    BY <1>1, ReturnOutputIndexStep DEF InExpression, Live, Consumed, Reading
  <1> SUFFICES ASSUME output_name' \in Name
               PROVE  IsSuffix(<<"Colon">> \o OutputElement', Consumed')
    BY <1>1, <1>2, <1>3 DEF StatementRead
  <1>4. UNCHANGED <<heap, output_name>>
    BY DEF ReturnOutputIndex, header, tree
  <1>5. /\ Front(text) \in Seq(Word) /\ token \in Word /\ text = Append(Front(text), token)
        /\ Front(text') = text
    BY <1>1, <1>3, TextTyped, TextNext DEF TokensRead
  <1>6. frames # <<>> /\ TypeOK /\ Stack
    BY <1>3 DEF TreeInv, Stack
  <1>7. Len(frames) = 1
    <2>1. \A f \in 2 .. Len(frames) : frames[f].place \in {"index", "right"}
      BY <1>3, <1>6 DEF Stack
    <2>2. Len(frames) \in Nat /\ Len(frames) >= 1 /\ Top = frames[Len(frames)]
      BY <1>6, TopOfFrames
    <2>3. Len(frames) \notin 2 .. Len(frames)
      BY <1>1, <2>1, <2>2
    <2> QED
      BY <2>2, <2>3, BeyondOne
  <1>8. OutputIndexed
    <2>1. Top = frames[1]
      BY <1>6, <1>7, TopOfFrames
    <2> QED
      BY <1>1, <1>6, <2>1 DEF OutputIndexed
  <1> DEFINE wn == Words[node]
  <1>9. /\ wn \in Seq(Word)
        /\ PieceWith(Top, Words, output_name, out_index) \in Seq(Word)
        /\ IsSuffix((<<"Colon">> \o PieceWith(Top, Words, output_name, out_index)) \o wn, Front(text))
    BY <1>3, <1>4, <1>7, <1>8, OneCallText
  <1>10. PieceWith(Top, Words, output_name, out_index) = <<output_name, "LeftBracket">>
    BY <1>1 DEF PieceWith
  <1>11. OutputElement' = <<output_name, "LeftBracket">> \o wn \o <<"RightBracket">>
    BY <1>1, <1>4 DEF OutputElement, Words
  <1> DEFINE p == <<output_name, "LeftBracket">>
             c == <<"Colon">>
  <1>12. p \in Seq(Word) /\ c \in Seq(Word)
    <2>1. "Colon" \in Word
      BY DEF Word, Token, Kind
    <2> QED
      BY <1>9, <1>10, <2>1
  <1>13. IsSuffix((c \o p) \o wn, Front(text))
    BY <1>9, <1>10
  <1>14. OutputElement' = p \o wn \o <<token>>
    BY <1>1, <1>11
  <1> HIDE DEF p, c, wn
  <1>15. IsSuffix(c \o (p \o wn), Front(text)) /\ p \o wn \in Seq(Word)
    <2>1. (c \o p) \o wn = c \o (p \o wn)
      BY <1>9, <1>12
    <2> QED
      BY <1>9, <1>12, <1>13, <2>1
  <1>16. IsSuffix(c \o ((p \o wn) \o <<token>>), Append(Front(text), token))
    BY <1>5, <1>12, <1>15, ReadBehind
  <1> QED
    BY <1>3, <1>5, <1>14, <1>16 DEF c

\* The process has ended.
LEMMA MissingBracketText ==
  ASSUME TreeInv, TokensRead, MissingBracket
  PROVE  StatementRead' /\ TokensRead' /\ TreeIsText'
  <1>1. pc' = "fatal" /\ UNCHANGED <<text, token>>
    BY DEF MissingBracket, Fatal
  <1>2. ~Reading'
    BY <1>1 DEF Reading, InExpression, Live
  <1> QED
    BY <1>1, <1>2, NotReading, NotParsed, TokensStay

\* The statement, from the three nodes that end it.
Says(s, element, data) == s = element \o <<"AddEquel">> \o data

\* The words of a completed tree: element, "+=" and data.
LEMMA StatementNext ==
  ASSUME TreeInv, TreeInv', node \in Node,
         NEW x, NEW y, NEW z, Make(<<x, y, z>>), root' = Len(heap) + 3,
         y.kids = <<Len(heap) + 1, node>>,
         z.kids[Len(z.kids)] = Len(heap) + 2
  PROVE  /\ SameOn(Node, WordsOf(heap'), WordsOf(heap))
         /\ Says(Statement', NodeWords(x, WordsOf(heap')), Words[node])
  <1> DEFINE n == Len(heap)
             w == WordsOf(heap')
  <1>1. heap \in Heaps /\ Node = 1 .. n /\ n \in Nat
    BY HeapIs DEF TreeInv
  <1>2. heap' \in Heaps
    <2>1. (TypeOK /\ NeedCountsUses /\ HeapWellMade => heap \in Heaps)'
      BY HeapIs, PTL
    <2> QED
      BY <2>1 DEF TreeInv
  <1>3. heap' = heap \o <<x, y, z>>
    BY DEF Make
  <1>4. heap \in Seq(NodeRecord \cup {x, y, z}) /\ <<x, y, z>> \in Seq(NodeRecord \cup {x, y, z})
    BY <1>1 DEF Heaps
  <1>5. /\ Len(heap') = n + 3
        /\ \A m \in 1 .. n : heap'[m] = heap[m]
        /\ heap'[n + 1] = x /\ heap'[n + 2] = y /\ heap'[n + 3] = z
    BY <1>1, <1>3, <1>4
  <1>6. Continues(heap', heap)
    BY <1>1, <1>5 DEF Continues
  <1>7. \A m \in 1 .. n : WordsOf(heap')[m] = WordsOf(heap)[m]
    BY <1>1, <1>2, <1>6, WordsKept
  <1>8. SameOn(Node, w, WordsOf(heap))
    BY <1>1, <1>7 DEF SameOn
  <1>9. n + 1 \in 1 .. Len(heap')
    BY <1>1, <1>5
  <1>10. w[n + 1] = NodeWords(x, w)
    BY <1>2, <1>5, <1>9, WordsAre
  <1>11. w[node] = Words[node]
    BY <1>8 DEF SameOn, Words
  <1>12. Statement'
           = w[heap'[heap'[root'].kids[Len(heap'[root'].kids)]].kids[1]]
               \o <<"AddEquel">> \o w[heap'[heap'[root'].kids[Len(heap'[root'].kids)]].kids[2]]
    BY DEF Statement, Words
  <1>13. heap'[root'].kids[Len(heap'[root'].kids)] = n + 2
    BY <1>5
  <1>14. heap'[n + 2].kids[1] = n + 1 /\ heap'[n + 2].kids[2] = node
    BY <1>5
  <1> HIDE DEF w, n
  <1>15. Statement' = w[n + 1] \o <<"AddEquel">> \o w[node]
    BY <1>12, <1>13, <1>14
  <1>16. Says(Statement', NodeWords(x, w), Words[node])
    BY <1>10, <1>11, <1>15 DEF Says
  <1> QED
    BY <1>8, <1>16 DEF w

\* The element of the output, as the text has it.
LEMMA ScatterText ==
  ASSUME TreeInv, TreeInv', node \in Node, out_index \in Node, ScatterTree
  PROVE  Says(Statement', OutputElement, Words[node])
  <1> DEFINE n == Len(heap)
             index == heap[out_index].addr_name
             x == NewNode("gather", <<addr, out_index>>, index, output_name, index)
             y == NewNode("Add", <<n + 1, node>>, output_name, "", index)
             z == NewNode("scatter", <<addr, out_index, n + 2>>, "", output_name, index)
             w == WordsOf(heap')
  <1>1. Make(<<x, y, z>>) /\ root' = n + 3
    BY DEF ScatterTree
  <1>2. /\ x.kind = "gather" /\ x.kids = <<addr, out_index>> /\ x.addr_name = output_name
        /\ y.kids = <<n + 1, node>> /\ z.kids = <<addr, out_index, n + 2>>
    BY DEF NewNode
  <1> HIDE DEF x, y, z
  <1>3. x.kids[2] = out_index /\ z.kids[Len(z.kids)] = n + 2
    BY <1>2
  <1>4. SameOn(Node, w, WordsOf(heap)) /\ Says(Statement', NodeWords(x, w), Words[node])
    BY <1>1, <1>2, <1>3, StatementNext
  <1>5. w[out_index] = Words[out_index]
    BY <1>4 DEF SameOn, Words
  <1> HIDE DEF w
  <1>6. NodeWords(x, w) = <<x.addr_name, "LeftBracket">> \o w[x.kids[2]] \o <<"RightBracket">>
    BY <1>2 DEF NodeWords, Binary
  <1>7. NodeWords(x, w) = OutputElement
    BY <1>2, <1>3, <1>5, <1>6 DEF OutputElement
  <1> QED
    BY <1>4, <1>7

\* The element written out of a store is the element that was read.
LEMMA StoreText ==
  ASSUME TreeInv, TreeInv', node \in Node, out_index \in Node, heap[out_index].kind = "var",
         StoreTree
  PROVE  Says(Statement', OutputElement, Words[node])
  <1> DEFINE n == Len(heap)
             index == heap[out_index].node_name
             x == NewNode("load", <<addr>>, "", output_name, index)
             y == NewNode("Add", <<n + 1, node>>, index, "", "")
             z == NewNode("store", <<addr, n + 2>>, "", output_name, "")
             w == WordsOf(heap')
  <1>1. Make(<<x, y, z>>) /\ root' = n + 3
    BY DEF StoreTree
  <1>2. /\ x.kind = "load" /\ x.addr_name = output_name /\ x.index_name = index
        /\ y.kids = <<n + 1, node>> /\ z.kids = <<addr, n + 2>>
    BY DEF NewNode
  <1>3. Words[out_index] = <<index>>
    BY WordsOfVariable
  <1> HIDE DEF x, y, z, index
  <1>4. z.kids[Len(z.kids)] = n + 2
    BY <1>2
  <1>5. Says(Statement', NodeWords(x, w), Words[node])
    BY <1>1, <1>2, <1>4, StatementNext
  <1> HIDE DEF w
  <1>6. NodeWords(x, w) = <<x.addr_name, "LeftBracket">> \o <<x.index_name>> \o <<"RightBracket">>
    BY <1>2 DEF NodeWords, Binary
  <1>7. NodeWords(x, w) = OutputElement
    BY <1>2, <1>3, <1>6 DEF OutputElement
  <1> QED
    BY <1>5, <1>7

\* The statement written out of the completed tree is the text read.
LEMMA CompleteText ==
  ASSUME TreeInv, TokensRead, StatementRead, NEW place \in {"load", "var"}, Complete(place)
  PROVE  StatementRead' /\ TokensRead' /\ TreeIsText'
  <1>1. /\ pc = "return" /\ Top.place = "data" /\ pc' \in {"done", "fatal"}
        /\ UNCHANGED <<text, token>>
    BY DEF Complete, Fatal
  <1>2. ~Reading' /\ TreeInv' /\ Live /\ InExpression /\ Reading /\ Consumed = Front(text)
    BY <1>1, CompleteStep DEF Reading, InExpression, Live, Consumed
  <1>3. TokensRead' /\ StatementRead'
    BY <1>1, <1>2, NotReading, TokensStay
  <1> DEFINE fine == /\ out_index # 0
                     /\ Top.operator = "AddEquel"
                     /\ output_var_type.pointer
                     /\ heap[out_index].kind \in {"load", "var"}
  <1>4. CASE ~fine
    <2>1. pc' = "fatal"
      BY <1>4 DEF Complete, Fatal
    <2> QED
      BY <1>3, <2>1, NotParsed
  <1>5. CASE fine
    <2>1. heap[out_index].kind = place /\ IF place = "load" THEN ScatterTree ELSE StoreTree
      BY <1>5 DEF Complete
    <2>2. out_index # 0 /\ Top.operator = "AddEquel" /\ output_name \in Name
      BY <1>5 DEF TreeInv, Stack
    <2>3. Len(frames) = 1 /\ frames # <<>> /\ out_index \in Node /\ node \in Node
      BY <1>1, <2>2, LastCall
    <2> DEFINE wn == Words[node]
               c == <<"Colon">>
               b == <<"AddEquel">>
    <2>4. Says(Statement', OutputElement, wn)
      <3>1. CASE place = "load"
        BY <1>2, <2>1, <2>3, <3>1, ScatterText
      <3>2. CASE place = "var"
        BY <1>2, <2>1, <2>3, <3>2, StoreText
      <3> QED
        BY <3>1, <3>2
    <2>5. OutputIndexed
      BY <2>2 DEF OutputIndexed
    <2>6. /\ wn \in Seq(Word)
          /\ PieceWith(Top, Words, output_name, out_index) \in Seq(Word)
          /\ IsSuffix((c \o PieceWith(Top, Words, output_name, out_index)) \o wn, Front(text))
      BY <1>2, <2>2, <2>3, <2>5, OneCallText
    <2>7. PieceWith(Top, Words, output_name, out_index) = OutputElement \o b
      BY <1>1, <2>2 DEF PieceWith, OutputElement
    <2>8. c \in Seq(Word) /\ b \in Seq(Word)
      <3>1. "Colon" \in Word /\ "AddEquel" \in Word
        BY DEF Word, Token, Kind
      <3> QED
        BY <3>1
    <2>9. OutputElement \in Seq(Word)
      <3>1. Words[out_index] \in Seq(Word)
        BY <2>3, WordsKnown
      <3>2. output_name \in Word /\ "LeftBracket" \in Word /\ "RightBracket" \in Word
        BY <2>2 DEF Word, Token, Kind
      <3> QED
        BY <3>1, <3>2 DEF OutputElement
    <2> HIDE DEF wn, c, b
    <2>10. IsSuffix((c \o (OutputElement \o b)) \o wn, Front(text))
      BY <2>6, <2>7
    <2>11. IsSuffix(c \o (OutputElement \o b \o wn), Front(text))
      BY <2>6, <2>8, <2>9, <2>10, Rebracket
    <2>12. Statement' = OutputElement \o b \o wn
      BY <2>4 DEF Says, b
    <2>13. IsSuffix(c \o Statement', Front(text'))
      BY <1>1, <2>11, <2>12
    <2>14. TreeIsText'
      BY <2>13 DEF TreeIsText, c
    <2> QED
      BY <1>3, <2>14
  <1> QED
    BY <1>4, <1>5

\* The header: the last token before the statement is a colon.
LEMMA DispatchText ==
  ASSUME NEW t, Dispatch(t)
  PROVE  /\ pc' \in HeaderPoint \cup {"done", "fatal"}
         /\ pc' = "output name" => t = "Colon"
         /\ root' = root
  BY DEF Dispatch, Goto, Fatal, HeaderPoint

\* After a declaration comes the next, or the end of the process.
LEMMA DeclareText ==
  ASSUME NEW t, NEW is_pointer, DeclareInput(t, is_pointer)
  PROVE  pc' \in {"input more", "fatal"} /\ root' = root
  BY DEF DeclareInput, Fatal

HeaderReads(t) ==
  /\ get_next_token(t)
  /\ pc \in HeaderPoint
  /\ pc' \in HeaderPoint \cup {"done", "fatal"}
  /\ pc' = "output name" => t = "Colon"
  /\ root' = root

\* Every action of the header reads one token and starts no statement unless
\* that token is a colon.
LEMMA HeaderRead ==
  ASSUME NEW t, HeaderAction(t)
  PROVE  HeaderReads(t)
  <1>1. CASE Section(t)
    BY <1>1, DispatchText DEF Section, HeaderReads, HeaderPoint
  <1>2. CASE Colon(t)
    BY <1>2 DEF Colon, GotoOrDie, Goto, Fatal, HeaderReads, HeaderPoint
  <1>3. CASE TypeToken(t)
    BY <1>3 DEF TypeToken, HeaderReads, HeaderPoint
  <1>4. CASE InputStar(t)
    <2>1. CASE t = "Mult"
      BY <1>4, <2>1 DEF InputStar, Goto, HeaderReads, HeaderPoint
    <2>2. CASE t # "Mult"
      BY <1>4, <2>2, DeclareText DEF InputStar, HeaderReads, HeaderPoint
    <2> QED
      BY <2>1, <2>2
  <1>5. CASE InputName(t)
    BY <1>5, DeclareText DEF InputName, HeaderReads, HeaderPoint
  <1>6. CASE InputMore(t)
    <2>1. CASE t = "Comma"
      BY <1>6, <2>1 DEF InputMore, Goto, HeaderReads, HeaderPoint
    <2>2. CASE t # "Comma"
      BY <1>6, <2>2, DispatchText DEF InputMore, HeaderReads, HeaderPoint
    <2> QED
      BY <2>1, <2>2
  <1>7. CASE OutputStar(t)
    BY <1>7 DEF OutputStar, Fatal, HeaderReads, HeaderPoint
  <1>8. CASE DeclareOutput(t)
    BY <1>8 DEF DeclareOutput, Fatal, HeaderReads, HeaderPoint
  <1>9. CASE Iterate(t)
    BY <1>9 DEF Iterate, Fatal, HeaderReads, HeaderPoint
  <1>10. CASE IterateMore(t)
    <2>1. CASE t = "Comma"
      BY <1>10, <2>1 DEF IterateMore, Goto, HeaderReads, HeaderPoint
    <2>2. CASE t # "Comma"
      BY <1>10, <2>2, DispatchText DEF IterateMore, HeaderReads, HeaderPoint
    <2> QED
      BY <2>1, <2>2
  <1> QED
    BY <1>1, <1>2, <1>3, <1>4, <1>5, <1>6, <1>7, <1>8, <1>9, <1>10 DEF HeaderAction

\* The header says nothing of the statement.
LEMMA HeaderText ==
  ASSUME TreeInv, TokensRead, NEW t \in Token, HeaderAction(t)
  PROVE  StatementRead' /\ TokensRead' /\ TreeIsText'
  <1>1. HeaderReads(t)
    BY HeaderRead
  <1>2. get_next_token(t) /\ pc \in HeaderPoint
    BY <1>1 DEF HeaderReads
  <1>3. TokensRead'
    BY <1>1, <1>2, TokensNext DEF HeaderReads
  <1>4. ~Reading'
    <2>1. CASE pc' = "fatal"
      BY <2>1 DEF Reading, InExpression, Live
    <2>2. CASE pc' # "fatal"
      BY <1>1, <2>2, HeaderPoints DEF HeaderReads
    <2> QED
      BY <2>1, <2>2
  <1>5. root' = 0
    BY <1>1, <1>2, HeaderPoints DEF HeaderReads, TreeInv, Stack
  <1> QED
    BY <1>3, <1>4, <1>5, NotReading, NotParsed

-----------------------------------------------------------------------------
(***************************************************************************)
(* The invariant of the parser                                             *)
(***************************************************************************)
LEMMA ParserInvIs ==
  ParserInv <=> TreeInv /\ TokensRead /\ StatementRead /\ TreeIsText
  BY DEF ParserInv, TreeInv

\* The invariant holds before the first token is read.
LEMMA InitParser ==
  ASSUME Init
  PROVE  ParserInv
  <1>1. /\ heap = <<>> /\ need = <<>> /\ frames = <<>> /\ text = <<>> /\ pc = "section"
        /\ node = 0 /\ root = 0 /\ addr = 0 /\ out_index = 0
    BY DEF Init
  <1>2. ~InExpression /\ ~Live /\ ~Reading
    BY <1>1 DEF InExpression, Live, Reading
  <1>3. Node = {} /\ DOMAIN heap = {}
    BY <1>1 DEF Node
  <1>4. TypeOK
    <2>1. HeaderTyped
      <3>1. "End" \in Token
        BY DEF Token, Kind
      <3> QED
        BY <3>1 DEF Init, HeaderTyped
    <2>2. need \in [Node -> Nat]
      BY <1>1, <1>3
    <2>3. gather_set \cup scatter_set \cup reduction_set \cup load_set \subseteq Name
      BY DEF Init
    <2>4. token \in Token
      BY DEF Init, Token, Kind
    <2> QED
      <3>1. heap \in Seq(NodeRecord) /\ text \in Seq(Token) /\ frames \in Seq(Frame(Node))
        BY <1>1
      <3> QED
        BY <1>1, <2>1, <2>2, <2>3, <2>4, <3>1 DEF TypeOK, HeaderTyped, Frame
  <1>5. NeedCountsUses /\ HeapWellMade
    BY <1>3 DEF NeedCountsUses, HeapWellMade
  <1>6. Stack
    <2>1. ~output_var_type.pointer
      BY DEF Init, NoType
    <2> QED
      BY <1>1, <1>2, <2>1 DEF Stack
  <1>7. Pending /\ Rooted
    BY <1>1, <1>2 DEF Pending, Rooted
  <1>8. SetsFollowTree
    <2>1. GatherIndices = {} /\ ScatterIndices = {} /\ Loaded = {}
      BY <1>3 DEF GatherIndices, ScatterIndices, Loaded, Inputs, OfKind, Indices
    <2> QED
      BY <2>1 DEF SetsFollowTree, Init
  <1>9. TokensRead /\ StatementRead
    BY <1>1, <1>2 DEF TokensRead, StatementRead
  <1>10. TreeIsText
    BY <1>1 DEF TreeIsText, Parsed
  <1> QED
    BY <1>4, <1>5, <1>6, <1>7, <1>8, <1>9, <1>10 DEF ParserInv

\* Every action of the parser keeps the invariant.
LEMMA NextParser ==
  ASSUME ParserInv, Next
  PROVE  ParserInv'
  <1>1. TreeInv /\ TokensRead /\ StatementRead /\ TreeIsText
    BY ParserInvIs
  <1> DEFINE P == TreeInv' /\ StatementRead' /\ TokensRead' /\ TreeIsText'
  <1>2. ASSUME NEW t \in Token, HeaderAction(t) PROVE P
    BY <1>1, <1>2, HeaderStep, HeaderText
  <1>3. ASSUME NEW t \in Token, OutputNode(t) PROVE P
    BY <1>1, <1>3, OutputNodeStep, OutputNodeText
  <1>4. ASSUME NEW t \in Token, OutputBracket(t) PROVE P
    BY <1>1, <1>4, OutputBracketStep, OutputBracketText
  <1>5. ASSUME NEW t \in Token, Operand(t) PROVE P
    BY <1>1, <1>5, OperandStep, OperandText
  <1>6. ASSUME NEW t \in Token, Suffix(t) PROVE P
    BY <1>1, <1>6, SuffixStep, SuffixText
  <1>7. ASSUME NEW t \in Token, ReturnIndex(t) PROVE P
    BY <1>1, <1>7, ReturnIndexStep, ReturnIndexText
  <1>8. ASSUME NEW t \in Token, ReturnOutputIndex(t) PROVE P
    BY <1>1, <1>8, ReturnOutputIndexStep, ReturnOutputIndexText
  <1>9. ASSUME EqualType PROVE P
    BY <1>1, <1>9, EqualTypeStep, EqualTypeText
  <1>10. ASSUME Operator PROVE P
    BY <1>1, <1>10, OperatorStep, OperatorText
  <1>11. ASSUME ReturnRight PROVE P
    BY <1>1, <1>11, ReturnRightStep, ReturnRightText
  <1>12. ASSUME MissingBracket PROVE P
    BY <1>1, <1>12, MissingBracketStep, MissingBracketText
  <1>13. ASSUME NEW place \in {"load", "var"}, Complete(place) PROVE P
    BY <1>1, <1>13, CompleteStep, CompleteText
  <1> HIDE DEF P
  <1>14. P
    BY <1>2, <1>3, <1>4, <1>5, <1>6, <1>7, <1>8, <1>9, <1>10, <1>11, <1>12, <1>13
       DEF Next, HeaderAction
  <1>15. (TreeInv /\ TokensRead /\ StatementRead /\ TreeIsText => ParserInv)'
    BY ParserInvIs, PTL
  <1> QED
    BY <1>14, <1>15 DEF P

\* A step that changes nothing.
LEMMA StutterParser ==
  ASSUME ParserInv, UNCHANGED vars
  PROVE  ParserInv'
  <1>1. /\ UNCHANGED <<text, token, pc, frames, node, declared, pointer, output_name, output_var_type>>
        /\ UNCHANGED <<heap, need, gather_set, scatter_set, reduction_set, load_set, addr, out_index, root>>
        /\ UNCHANGED <<name_type_map, iterates_set>>
    BY DEF vars, header, tree, sets, output, declaration
  <1>2. TreeInv /\ TokensRead /\ StatementRead /\ TreeIsText
    BY ParserInvIs
  <1>3. /\ NeedCountsUses' /\ HeapWellMade' /\ SetsFollowTree'
        /\ Node' = Node /\ \A m : Uses(m)' = Uses(m)
    BY <1>1, <1>2, SameTree DEF sets
  <1>4. /\ (Live' <=> Live) /\ (InExpression' <=> InExpression) /\ (Reading' <=> Reading)
        /\ (Parsed' <=> Parsed) /\ Consumed' = Consumed /\ (OutputIndexed' <=> OutputIndexed)
    BY <1>1 DEF Live, InExpression, Reading, Parsed, Consumed, OutputIndexed
  <1>5. TypeOK'
    BY <1>1, <1>2, <1>3 DEF TreeInv, TypeOK
  <1>6. Stack'
    BY <1>1, <1>2, <1>4 DEF TreeInv, Stack
  <1>7. Waiting' = Waiting
    BY <1>1, <1>4 DEF Waiting
  <1>8. Pending' /\ Rooted'
    BY <1>1, <1>2, <1>3, <1>4, <1>7 DEF TreeInv, Pending, Rooted, YoungerThanOutput
  <1>9. Words' = Words /\ OutputElement' = OutputElement /\ Pieces' = Pieces /\ Statement' = Statement
    BY <1>1, PiecesAre DEF Words, OutputElement, Statement
  <1>10. TokensRead' /\ StatementRead' /\ TreeIsText'
    BY <1>1, <1>2, <1>4, <1>9 DEF TokensRead, StatementRead, TreeIsText
  <1> QED
    BY <1>3, <1>5, <1>6, <1>8, <1>10 DEF ParserInv

\* The parser's inductive invariant: the nodes are well made and counted, the
\* stack of calls holds what waits to be used, and what has been read of the
\* statement is what the stack and the node have of it.
THEOREM ParserInvariant == Spec => []ParserInv
  <1>1. Init => ParserInv
    BY InitParser
  <1>2. ParserInv /\ [Next]_vars => ParserInv'
    BY NextParser, StutterParser
  <1> QED
    BY <1>1, <1>2, PTL DEF Spec

\* Types of the parser's state.
THEOREM TypeCorrect == Spec => []TypeOK
  <1>1. ParserInv => TypeOK
    BY DEF ParserInv
  <1> QED
    BY <1>1, ParserInvariant, PTL

\* need_node_ of every node is the number of its uses, at any time.
THEOREM NeedIsCounted == Spec => []NeedCountsUses
  <1>1. ParserInv => NeedCountsUses
    BY DEF ParserInv
  <1> QED
    BY <1>1, ParserInvariant, PTL

\* A parse ends with the statement that stands in the text: for any names,
\* any text and any depth of brackets and operators, nothing is lost,
\* repeated or moved.
THEOREM TextIsTree == Spec => []TreeIsText
  <1>1. ParserInv => TreeIsText
    BY DEF ParserInv
  <1> QED
    BY <1>1, ParserInvariant, PTL

\* The sets of arrays by which the later stages find what to gather, to
\* scatter and to load in step are those of the tree.
THEOREM SetsAreOfTree == Spec => []SetsMatchTree
  <1>1. ParserInv => SetsMatchTree
    <2> SUFFICES ASSUME SetsFollowTree PROVE SetsMatchTree
      BY DEF ParserInv
    <2> QED
      BY DEF SetsFollowTree, SetsMatchTree
  <1> QED
    BY <1>1, ParserInvariant, PTL

\* The operators of the library, as CodeSeed has them.
LEMMA SameLibrary ==
  /\ \A f : Seed!Range(f) = Range(f)
  /\ \A f : Seed!IsInjective(f) <=> IsInjective(f)
  /\ \A S : Seed!Cardinality(S) = Cardinality(S)
  <1>1. \A f : Seed!Range(f) = Range(f)
    BY DEF Seed!Range, Range
  <1>2. \A f : Seed!IsInjective(f) <=> IsInjective(f)
    BY DEF Seed!IsInjective, IsInjective
  <1>3. \A S : Seed!Cardinality(S) = Cardinality(S)
    BY DEF Seed!Cardinality, Cardinality
  <1> QED
    BY <1>1, <1>2, <1>3

\* The invariant is enough for what the next stage starts from.
LEMMA ParserHandsOver ==
  ASSUME ParserInv
  PROVE  HandsOver
  <1> SUFFICES ASSUME Parsed PROVE Seed!Init
    BY DEF HandsOver
  <1>1. /\ heap \in Heaps /\ Node = 1 .. Len(heap) /\ Len(heap) \in Nat
        /\ TypeOK /\ NeedCountsUses /\ HeapWellMade /\ Rooted
    BY HeapIs DEF ParserInv
  <1>2. root # 0 /\ root \in Node
    BY <1>1 DEF Parsed, TypeOK
  <1>3. /\ Uses(root) = {} /\ heap[root].kids # <<>>
        /\ \A n \in Node \ {root} : Uses(n) = {} => heap[n].kids = <<>>
    BY <1>1, <1>2 DEF Rooted
  <1> DEFINE kids == [n \in Node |-> heap[n].kids]
  <1>4. kids \in Seq(Seq(Nat)) /\ DOMAIN kids = Node /\ \A n \in Node : kids[n] = heap[n].kids
    BY <1>1, NodeOfHeap
  <1>5. Seed!Node = Node
    BY <1>4 DEF Seed!Node
  <1>6. \A n \in Node : Seed!Kids(n) = Range(heap[n].kids)
    BY <1>4, SameLibrary DEF Seed!Kids
  <1>7. \A m : Seed!Uses(m) = Uses(m)
    BY <1>5, <1>6 DEF Seed!Uses, Uses, UsesIn, Node
  <1>8. \A n \in Node : /\ Len(heap[n].kids) = Arity(heap[n].kind)
                        /\ Range(heap[n].kids) \subseteq 1 .. n - 1
                        /\ IsInjective(heap[n].kids)
    BY <1>1 DEF HeapWellMade, WellMade
  <1> DEFINE iterate == {n \in Node : heap[n].kind = "var" /\ heap[n].node_name \in iterates_set}
  <1>9. ASSUME NEW n \in iterate
        PROVE  n \in Node \ {root} /\ heap[n].kids = <<>>
    <2>1. n \in Node /\ heap[n].kids \in Seq(Nat) /\ Len(heap[n].kids) = 0
      BY <1>1, <1>8, NodeOfHeap, ArityOfKinds
    <2>2. heap[n].kids = <<>>
      BY <2>1
    <2> QED
      BY <1>3, <2>1, <2>2
  <1> HIDE DEF kids, iterate
  <1>10. /\ kids \in Seq(Seq(Nat))
         /\ \A n \in Node : Range(kids[n]) \subseteq 1 .. n - 1 /\ IsInjective(kids[n])
         /\ root \in Node
         /\ Uses(root) = {}
         /\ \A n \in Node \ {root} : Uses(n) = {} => kids[n] = <<>>
         /\ \A n \in iterate : n \in Node \ {root} /\ kids[n] = <<>>
    BY <1>2, <1>3, <1>4, <1>8, <1>9
  <1>11. Seed!Graph
    <2>1. \A n \in Node : Seed!Kids(n) \subseteq 1 .. n - 1 /\ Seed!IsInjective(kids[n])
      BY <1>4, <1>6, <1>10, SameLibrary DEF kids
    <2> QED
      BY <1>5, <1>7, <1>10, <2>1 DEF Seed!Graph, kids, iterate
  <1>12. Seed!CountUses
    <2>1. need = [m \in Node |-> Cardinality(Uses(m))]
      BY <1>1 DEF TypeOK, NeedCountsUses
    <2> QED
      BY <1>5, <1>7, <2>1, SameLibrary DEF Seed!CountUses
  <1>13. Seed!Start
    BY DEF Seed!Start
  <1> QED
    BY <1>11, <1>12, <1>13 DEF Seed!Init

\* What a parse ends with is what generate_code_seed starts from.
THEOREM ParserImplementsGraph == Spec => []HandsOver
  <1>1. ParserInv => HandsOver
    BY ParserHandsOver
  <1> QED
    BY <1>1, ParserInvariant, PTL

=============================================================================
