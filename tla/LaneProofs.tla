----------------------------- MODULE LaneProofs -----------------------------
(***************************************************************************)
(* What a loop does with the words of one chunk, for every index vector.   *)
(*                                                                         *)
(* The words: a sequence laid out by FlattenSeq has the words of every     *)
(* part where Before says; what is laid out for a chunk is as long as what *)
(* a loop takes for it, and no longer than it was counted for.  The        *)
(* feature: masks are sums over sets of lanes, whatever the order in which *)
(* MapThenSumSet takes the elements.  The lanes: every lane is filled with *)
(* the element that its index names, and, whatever the plan (contiguous,   *)
(* one location, the tree of Bit2Addr, the rounds of an unordered chunk),  *)
(* every location of the output receives the terms of its own lanes.       *)
(***************************************************************************)
EXTENDS Kernel, FiniteSetTheorems, SequenceTheorems, WellFoundedInduction, TLAPS

\* A set of naturals that is not empty has a least element.
LEMMA LeastElement ==
  ASSUME NEW D \in SUBSET Nat, D # {}
  PROVE  \E d \in D : \A e \in D : d <= e
  <1> DEFINE Less == OpToRel(<, Nat)
  <1>1. IsWellFoundedOn(Less, Nat)
    BY NatLessThanWellFounded DEF OpToRel
  <1>2. \A d, e \in Nat : <<e, d>> \in Less <=> e < d
    BY DEF OpToRel
  <1> HIDE DEF Less
  <1>3. \E d \in D : \A e \in D : <<e, d>> \notin Less
    BY <1>1, WFMin
  <1>4. PICK d \in D : \A e \in D : <<e, d>> \notin Less
    BY <1>3
  <1>5. \A e \in D : ~(e < d)
    BY <1>2, <1>4
  <1> QED
    BY <1>4, <1>5

\* A bounded one has a greatest element, and Max is it.
LEMMA GreatestElement ==
  ASSUME NEW S \in SUBSET Nat, S # {}, NEW n \in Nat, \A x \in S : x <= n
  PROVE  Max(S) \in S /\ \A x \in S : x <= Max(S)
  <1> DEFINE D == {n - x : x \in S}
  <1>1. D \in SUBSET Nat /\ D # {}
    <2>1. \A x \in S : n - x \in Nat
      OBVIOUS
    <2> QED
      BY <2>1
  <1>2. PICK d \in D : \A e \in D : d <= e
    <2> HIDE DEF D
    <2> QED
      BY <1>1, LeastElement
  <1>3. PICK m \in S : d = n - m
    BY <1>2
  <1>4. \A x \in S : m >= x
    BY <1>2, <1>3
  <1>5. Max(S) \in S /\ \A x \in S : Max(S) >= x
    BY <1>3, <1>4 DEF Max
  <1> QED
    BY <1>5

\* Induction over the naturals, for a set instead of a predicate.
LEMMA SetInduction ==
  ASSUME NEW S, 0 \in S, \A n \in Nat : n \in S => n + 1 \in S
  PROVE  \A n \in Nat : n \in S
  <1> DEFINE D == {n \in Nat : n \notin S}
  <1> SUFFICES ASSUME D # {} PROVE FALSE
    OBVIOUS
  <1>1. PICK d \in D : \A e \in D : d <= e
    BY LeastElement
  <1>2. d # 0 /\ d \in Nat /\ d \notin S
    BY <1>1
  <1>3. d - 1 \in Nat /\ d - 1 \in S
    BY <1>1, <1>2
  <1> QED
    BY <1>2, <1>3

-----------------------------------------------------------------------------
(***************************************************************************)
(* FlattenSeq                                                              *)
(***************************************************************************)
\* The recursion of FlattenSeq, and the function it defines.
Flattens(f, seqs, n) ==
  f = [k \in 1 .. n |-> IF k = 1 THEN seqs[k] ELSE f[k - 1] \o seqs[k]]

Flat(seqs) == CHOOSE f : Flattens(f, seqs, Len(seqs))

\* There is such a function.
LEMMA FlatExists ==
  ASSUME NEW seqs, Len(seqs) \in Nat
  PROVE  Flattens(Flat(seqs), seqs, Len(seqs))
  <1> DEFINE S == {n \in Nat : \E f : Flattens(f, seqs, n)}
  <1>1. 0 \in S
    <2>1. Flattens([k \in 1 .. 0 |-> 0], seqs, 0)
      BY DEF Flattens
    <2> QED
      BY <2>1
  <1>2. ASSUME NEW n \in Nat, n \in S
        PROVE  n + 1 \in S
    <2>1. PICK f : Flattens(f, seqs, n)
      BY <1>2
    <2> DEFINE g == [k \in 1 .. n + 1 |->
                       IF k = n + 1 THEN IF k = 1 THEN seqs[k] ELSE f[k - 1] \o seqs[k]
                       ELSE f[k]]
    <2>2. \A k \in 1 .. n : f[k] = IF k = 1 THEN seqs[k] ELSE f[k - 1] \o seqs[k]
      BY <2>1 DEF Flattens
    <2>3. ASSUME NEW k \in 1 .. n + 1
          PROVE  g[k] = IF k = 1 THEN seqs[k] ELSE g[k - 1] \o seqs[k]
      <3>1. CASE k = 1
        <4>1. CASE n = 0
          BY <3>1, <4>1
        <4>2. CASE n # 0
          <5>1. k \in 1 .. n /\ k # n + 1
            BY <3>1, <4>2
          <5> QED
            BY <2>2, <3>1, <5>1
        <4> QED
          BY <4>1, <4>2
      <3>2. CASE k # 1
        <4>1. k - 1 \in 1 .. n /\ k - 1 # n + 1 /\ k - 1 \in 1 .. n + 1
          BY <3>2
        <4>2. g[k - 1] = f[k - 1]
          BY <4>1
        <4>3. CASE k = n + 1
          BY <3>2, <4>2, <4>3
        <4>4. CASE k # n + 1
          <5>1. k \in 1 .. n
            BY <4>4
          <5> QED
            BY <2>2, <3>2, <4>2, <4>4, <5>1
        <4> QED
          BY <4>3, <4>4
      <3> QED
        BY <3>1, <3>2
    <2>4. DOMAIN g = 1 .. n + 1 /\ g = [k \in 1 .. n + 1 |-> g[k]]
      OBVIOUS
    <2> HIDE DEF g
    <2>5. Flattens(g, seqs, n + 1)
      BY <2>3, <2>4 DEF Flattens
    <2> QED
      BY <2>5
  <1>3. \A n \in Nat : n \in S
    <2> HIDE DEF S
    <2> QED
      BY <1>1, <1>2, SetInduction
  <1>4. \E f : Flattens(f, seqs, Len(seqs))
    BY <1>3
  <1> QED
    BY <1>4 DEF Flat

\* What FlattenSeq computes, step by step.
LEMMA FlatFacts ==
  ASSUME NEW T, NEW seqs \in Seq(Seq(T))
  PROVE  /\ DOMAIN Flat(seqs) = 1 .. Len(seqs)
         /\ \A k \in 1 .. Len(seqs) :
              Flat(seqs)[k] = IF k = 1 THEN seqs[k] ELSE Flat(seqs)[k - 1] \o seqs[k]
         /\ FlattenSeq(seqs) = IF Len(seqs) = 0 THEN <<>> ELSE Flat(seqs)[Len(seqs)]
         /\ \A k \in 1 .. Len(seqs) : Flat(seqs)[k] \in Seq(T)
  <1> DEFINE f == Flat(seqs)
  <1>1. Len(seqs) \in Nat
    OBVIOUS
  <1>2. Flattens(f, seqs, Len(seqs))
    BY <1>1, FlatExists
  <1>3. /\ DOMAIN f = 1 .. Len(seqs)
        /\ \A k \in 1 .. Len(seqs) : f[k] = IF k = 1 THEN seqs[k] ELSE f[k - 1] \o seqs[k]
    <2> HIDE DEF f
    <2> QED
      BY <1>2 DEF Flattens
  <1>4. FlattenSeq(seqs) = IF Len(seqs) = 0 THEN <<>> ELSE f[Len(seqs)]
    <2>1. FlattenSeq(seqs) = IF Len(seqs) = 0 THEN seqs ELSE f[Len(seqs)]
      BY DEF FlattenSeq, Flat, Flattens
    <2>2. Len(seqs) = 0 => seqs = <<>>
      OBVIOUS
    <2> QED
      BY <2>1, <2>2
  <1>5. \A k \in 1 .. Len(seqs) : f[k] \in Seq(T)
    <2> HIDE DEF f
    <2> DEFINE S == {n \in Nat : n \in 1 .. Len(seqs) => f[n] \in Seq(T)}
    <2>1. 0 \in S
      OBVIOUS
    <2>2. ASSUME NEW n \in Nat, n \in S
          PROVE  n + 1 \in S
      <3> SUFFICES ASSUME n + 1 \in 1 .. Len(seqs) PROVE f[n + 1] \in Seq(T)
        OBVIOUS
      <3>1. seqs[n + 1] \in Seq(T)
        OBVIOUS
      <3>2. CASE n = 0
        <4>1. n + 1 = 1 /\ 1 \in 1 .. Len(seqs)
          BY <3>2
        <4>2. f[1] = seqs[1]
          BY <1>3, <4>1
        <4> QED
          BY <3>1, <4>1, <4>2
      <3>3. CASE n # 0
        <4>1. f[n] \in Seq(T) /\ f[n + 1] = f[n] \o seqs[n + 1]
          <5>1. n \in 1 .. Len(seqs) /\ n + 1 # 1 /\ (n + 1) - 1 = n
            BY <3>3
          <5> QED
            BY <1>3, <2>2, <5>1
        <4> QED
          BY <3>1, <4>1
      <3> QED
        BY <3>2, <3>3
    <2>3. \A n \in Nat : n \in S
      <3> HIDE DEF S
      <3> QED
        BY <2>1, <2>2, SetInduction
    <2> QED
      BY <2>3
  <1> QED
    BY <1>3, <1>4, <1>5

\* A prefix of the sequences is flattened to what the whole is up to there.
LEMMA FlatPrefix ==
  ASSUME NEW T, NEW seqs \in Seq(Seq(T)), NEW k \in 1 .. Len(seqs)
  PROVE  FlattenSeq(SubSeq(seqs, 1, k)) = Flat(seqs)[k]
  <1> DEFINE pre == SubSeq(seqs, 1, k)
             f == Flat(seqs)
             g == Flat(pre)
  <1>1. pre \in Seq(Seq(T)) /\ Len(pre) = k /\ \A n \in 1 .. k : pre[n] = seqs[n]
    OBVIOUS
  <1> HIDE DEF pre
  <1>2. \A n \in 1 .. k : g[n] = IF n = 1 THEN pre[n] ELSE g[n - 1] \o pre[n]
    BY <1>1, FlatFacts
  <1>3. \A n \in 1 .. k : f[n] = IF n = 1 THEN seqs[n] ELSE f[n - 1] \o seqs[n]
    BY FlatFacts
  <1>4. FlattenSeq(pre) = g[k]
    BY <1>1, FlatFacts
  <1> HIDE DEF f, g
  <1> DEFINE S == {n \in Nat : n \in 1 .. k => f[n] = g[n]}
  <1>5. 0 \in S
    OBVIOUS
  <1>6. ASSUME NEW n \in Nat, n \in S
        PROVE  n + 1 \in S
    <2> SUFFICES ASSUME n + 1 \in 1 .. k PROVE f[n + 1] = g[n + 1]
      OBVIOUS
    <2>1. CASE n = 0
      <3>1. n + 1 = 1 /\ 1 \in 1 .. k
        BY <2>1
      <3>2. f[1] = seqs[1] /\ g[1] = pre[1]
        BY <1>2, <1>3, <3>1
      <3> QED
        BY <1>1, <3>1, <3>2
    <2>2. CASE n # 0
      <3>1. n \in 1 .. k /\ n + 1 # 1 /\ (n + 1) - 1 = n
        BY <2>2
      <3>2. f[n] = g[n]
        BY <1>6, <3>1
      <3>3. f[n + 1] = f[n] \o seqs[n + 1] /\ g[n + 1] = g[n] \o pre[n + 1]
        BY <1>2, <1>3, <3>1
      <3> QED
        BY <1>1, <3>2, <3>3
    <2> QED
      BY <2>1, <2>2
  <1>7. \A n \in Nat : n \in S
    <2> HIDE DEF S
    <2> QED
      BY <1>5, <1>6, SetInduction
  <1> QED
    BY <1>4, <1>7 DEF pre, f

\* Where the parts of a flattened sequence are.
LEMMA FlattenFacts ==
  ASSUME NEW T, NEW seqs \in Seq(Seq(T))
  PROVE  /\ FlattenSeq(seqs) \in Seq(T)
         /\ Before(seqs, 0) = 0
         /\ Before(seqs, Len(seqs)) = Len(FlattenSeq(seqs))
         /\ \A k \in 0 .. Len(seqs) : Before(seqs, k) \in 0 .. Len(FlattenSeq(seqs))
         /\ \A k \in 1 .. Len(seqs) :
              /\ Before(seqs, k) = Before(seqs, k - 1) + Len(seqs[k])
              /\ \A p \in 1 .. Len(seqs[k]) :
                   FlattenSeq(seqs)[Before(seqs, k - 1) + p] = seqs[k][p]
  <1> DEFINE f == Flat(seqs)
             len == Len(seqs)
  <1>1. /\ \A k \in 1 .. len : f[k] = IF k = 1 THEN seqs[k] ELSE f[k - 1] \o seqs[k]
        /\ FlattenSeq(seqs) = IF len = 0 THEN <<>> ELSE f[len]
        /\ \A k \in 1 .. len : f[k] \in Seq(T)
    BY FlatFacts
  <1>2. \A k \in 1 .. len : Before(seqs, k) = Len(f[k])
    BY FlatPrefix DEF Before
  <1>3. Before(seqs, 0) = 0
    <2>1. SubSeq(seqs, 1, 0) = <<>>
      OBVIOUS
    <2>2. <<>> \in Seq(Seq(T)) /\ Len(<<>>) = 0
      OBVIOUS
    <2>3. FlattenSeq(<<>>) = <<>>
      BY <2>2, FlatFacts
    <2>4. Before(seqs, 0) = Len(<<>>)
      BY <2>1, <2>3 DEF Before
    <2> QED
      BY <2>2, <2>4
  <1>4. len \in Nat /\ \A k \in 1 .. len : seqs[k] \in Seq(T)
    OBVIOUS
  <1> HIDE DEF f, len
  <1>5. FlattenSeq(seqs) \in Seq(T)
    <2>1. CASE len = 0
      BY <1>1, <2>1
    <2>2. CASE len # 0
      BY <1>1, <1>4, <2>2
    <2> QED
      BY <2>1, <2>2
  <1>6. Before(seqs, len) = Len(FlattenSeq(seqs))
    <2>1. CASE len = 0
      BY <1>1, <1>3, <2>1
    <2>2. CASE len # 0
      BY <1>1, <1>2, <1>4, <2>2
    <2> QED
      BY <2>1, <2>2
  <1>7. ASSUME NEW k \in 1 .. len
        PROVE  /\ Before(seqs, k) = Before(seqs, k - 1) + Len(seqs[k])
               /\ \A p \in 1 .. Len(seqs[k]) : f[k][Before(seqs, k - 1) + p] = seqs[k][p]
               /\ k > 1 => \A p \in 1 .. Len(f[k - 1]) : f[k][p] = f[k - 1][p]
    <2>1. CASE k = 1
      <3>1. 1 \in 1 .. len /\ 1 - 1 = 0
        BY <2>1
      <3>2. f[1] = seqs[1] /\ Before(seqs, 1) = Len(f[1])
        BY <1>1, <1>2, <3>1
      <3>3. Len(seqs[1]) \in Nat
        BY <1>4, <3>1
      <3>4. /\ Before(seqs, 1) = Before(seqs, 1 - 1) + Len(seqs[1])
            /\ \A p \in 1 .. Len(seqs[1]) : f[1][Before(seqs, 1 - 1) + p] = seqs[1][p]
        BY <1>3, <3>1, <3>2, <3>3
      <3>5. /\ Before(seqs, k) = Before(seqs, k - 1) + Len(seqs[k])
            /\ \A p \in 1 .. Len(seqs[k]) : f[k][Before(seqs, k - 1) + p] = seqs[k][p]
        BY <2>1, <3>4, Zenon
      <3>6. k > 1 => \A p \in 1 .. Len(f[k - 1]) : f[k][p] = f[k - 1][p]
        BY <2>1
      <3> QED
        BY <3>5, <3>6, Zenon
    <2>2. CASE k # 1
      <3>1. k - 1 \in 1 .. len
        BY <1>4, <2>2
      <3>2. f[k] = f[k - 1] \o seqs[k] /\ f[k - 1] \in Seq(T) /\ seqs[k] \in Seq(T)
        BY <1>1, <1>4, <2>2, <3>1
      <3>3. Before(seqs, k) = Len(f[k]) /\ Before(seqs, k - 1) = Len(f[k - 1])
        BY <1>2, <3>1
      <3> DEFINE a == f[k - 1]
                 b == seqs[k]
      <3>4. /\ Len(a \o b) = Len(a) + Len(b)
            /\ \A p \in 1 .. Len(b) : (a \o b)[Len(a) + p] = b[p]
            /\ \A p \in 1 .. Len(a) : (a \o b)[p] = a[p]
        <4>1. a \in Seq(T) /\ b \in Seq(T)
          BY <3>2
        <4> HIDE DEF a, b
        <4> QED
          BY <4>1
      <3> QED
        BY <3>2, <3>3, <3>4, Zenon
    <2> QED
      BY <2>1, <2>2
  <1> DEFINE Starts(m) == \A k \in 1 .. len : k <= m =>
                /\ Len(f[k]) <= Len(f[m])
                /\ \A p \in 1 .. Len(f[k]) : f[m][p] = f[k][p]
             S == {n \in Nat : n \in 1 .. len => Starts(n)}
  <1>8. 0 \in S
    OBVIOUS
  <1>9. ASSUME NEW n \in Nat, n \in S
        PROVE  n + 1 \in S
    <2> SUFFICES ASSUME n + 1 \in 1 .. len, NEW k \in 1 .. len, k <= n + 1
                 PROVE  /\ Len(f[k]) <= Len(f[n + 1])
                        /\ \A p \in 1 .. Len(f[k]) : f[n + 1][p] = f[k][p]
      OBVIOUS
    <2>1. Len(f[k]) \in Nat /\ Len(f[n + 1]) \in Nat
      BY <1>1
    <2>2. CASE k = n + 1
      BY <2>1, <2>2
    <2>3. CASE k # n + 1
      <3>1. n \in 1 .. len /\ k <= n /\ (n + 1) - 1 = n
        BY <1>4, <2>3
      <3>2. /\ Len(f[k]) <= Len(f[n])
            /\ \A p \in 1 .. Len(f[k]) : f[n][p] = f[k][p]
        BY <1>9, <3>1
      <3>3. n + 1 > 1 /\ n \in Nat
        BY <3>1
      <3>4. /\ Before(seqs, n + 1) = Before(seqs, n) + Len(seqs[n + 1])
            /\ \A p \in 1 .. Len(f[n]) : f[n + 1][p] = f[n][p]
        BY <1>7, <3>1, <3>3
      <3>5. Len(f[n]) = Before(seqs, n) /\ Len(f[n + 1]) = Before(seqs, n + 1)
        BY <1>2, <3>1
      <3>6. Len(f[n]) \in Nat /\ Len(seqs[n + 1]) \in Nat
        <4>1. f[n] \in Seq(T) /\ seqs[n + 1] \in Seq(T)
          BY <1>1, <1>4, <3>1
        <4> QED
          BY <4>1
      <3>7. Len(f[n]) <= Len(f[n + 1])
        BY <3>4, <3>5, <3>6
      <3>8. Len(f[k]) <= Len(f[n + 1])
        BY <2>1, <3>2, <3>6, <3>7
      <3>9. ASSUME NEW p \in 1 .. Len(f[k])
            PROVE  f[n + 1][p] = f[k][p]
        <4>1. p \in 1 .. Len(f[n])
          BY <2>1, <3>2, <3>6
        <4> QED
          BY <3>2, <3>4, <4>1
      <3> QED
        BY <3>8, <3>9
    <2> QED
      BY <2>2, <2>3
  <1>10. \A n \in 1 .. len : Starts(n)
    <2>1. \A n \in Nat : n \in S
      <3> HIDE DEF S
      <3> QED
        BY <1>8, <1>9, SetInduction
    <2> QED
      BY <2>1
  <1>11. ASSUME NEW k \in 1 .. len
         PROVE  /\ Len(f[k]) <= Len(FlattenSeq(seqs))
                /\ \A p \in 1 .. Len(f[k]) : FlattenSeq(seqs)[p] = f[k][p]
    <2>1. len \in 1 .. len /\ len # 0 /\ k <= len
      BY <1>4
    <2>2. Starts(len) /\ FlattenSeq(seqs) = f[len]
      BY <1>1, <1>10, <2>1
    <2> QED
      BY <2>1, <2>2
  <1>12. ASSUME NEW k \in 0 .. len
         PROVE  Before(seqs, k) \in 0 .. Len(FlattenSeq(seqs))
    <2>1. CASE k = 0
      BY <1>3, <1>5, <2>1
    <2>2. CASE k # 0
      <3>1. k \in 1 .. len
        BY <1>4, <2>2
      <3> QED
        BY <1>1, <1>2, <1>5, <1>11, <3>1
    <2> QED
      BY <2>1, <2>2
  <1>13. ASSUME NEW k \in 1 .. len, NEW p \in 1 .. Len(seqs[k])
         PROVE  FlattenSeq(seqs)[Before(seqs, k - 1) + p] = seqs[k][p]
    <2>1. f[k][Before(seqs, k - 1) + p] = seqs[k][p]
      BY <1>7
    <2>2. Before(seqs, k - 1) + p \in 1 .. Len(f[k])
      <3>1. /\ Len(f[k]) = Before(seqs, k - 1) + Len(seqs[k])
            /\ Len(seqs[k]) \in Nat /\ k - 1 \in 0 .. len
        BY <1>2, <1>4, <1>7
      <3>2. Before(seqs, k - 1) \in Nat
        BY <1>12, <1>5, <3>1
      <3> QED
        BY <3>1, <3>2
    <2> QED
      BY <1>11, <2>1, <2>2
  <1> QED
    BY <1>3, <1>5, <1>6, <1>7, <1>12, <1>13 DEF len

-----------------------------------------------------------------------------
(***************************************************************************)
(* Streams                                                                 *)
(***************************************************************************)
IsSeq(s) == \E T : s \in Seq(T)
AreSeqs(seqs) == \E T : seqs \in Seq(Seq(T))

\* A function on 1 .. n is a sequence.
LEMMA FunctionIsSeq ==
  ASSUME NEW s, NEW n \in Nat, s = [p \in 1 .. n |-> s[p]]
  PROVE  IsSeq(s) /\ Len(s) = n
  <1> DEFINE T == {s[p] : p \in 1 .. n}
  <1>1. s \in Seq(T) /\ Len(s) = n
    OBVIOUS
  <1> QED
    BY <1>1 DEF IsSeq

\* Two sequences make one.
LEMMA ConcatIsSeq ==
  ASSUME NEW a, NEW b, IsSeq(a), IsSeq(b)
  PROVE  IsSeq(a \o b) /\ Len(a \o b) = Len(a) + Len(b) /\ Len(a) \in Nat /\ Len(b) \in Nat
  <1>1. PICK S : a \in Seq(S)
    BY DEF IsSeq
  <1>2. PICK T : b \in Seq(T)
    BY DEF IsSeq
  <1>3. a \in Seq(S \cup T) /\ b \in Seq(S \cup T)
    BY <1>1, <1>2
  <1>4. a \o b \in Seq(S \cup T) /\ Len(a \o b) = Len(a) + Len(b) /\ Len(a) \in Nat /\ Len(b) \in Nat
    BY <1>3
  <1> QED
    BY <1>4 DEF IsSeq

\* Sequences in a row have their elements in one set.
LEMMA PartsAreSeqs ==
  ASSUME NEW seqs, NEW n \in Nat, seqs = [k \in 1 .. n |-> seqs[k]],
         \A k \in 1 .. n : IsSeq(seqs[k])
  PROVE  AreSeqs(seqs) /\ Len(seqs) = n
  <1> DEFINE T == UNION {{seqs[k][p] : p \in 1 .. Len(seqs[k])} : k \in 1 .. n}
  <1>1. ASSUME NEW k \in 1 .. n
        PROVE  seqs[k] \in Seq(T)
    <2>1. PICK S : seqs[k] \in Seq(S)
      BY DEF IsSeq
    <2>2. \A p \in 1 .. Len(seqs[k]) : seqs[k][p] \in T
      OBVIOUS
    <2> HIDE DEF T
    <2> QED
      BY <2>1, <2>2
  <1> HIDE DEF T
  <1>2. seqs \in Seq(Seq(T)) /\ Len(seqs) = n
    BY <1>1
  <1> QED
    BY <1>2 DEF AreSeqs

\* Reading on from where the first k - 1 parts end gives part k.
LEMMA PartInPlace ==
  ASSUME NEW seqs, AreSeqs(seqs), NEW k \in 1 .. Len(seqs)
  PROVE  /\ InPlace(FlattenSeq(seqs), Before(seqs, k - 1), Len(seqs[k]), seqs[k])
         /\ Before(seqs, k) = Before(seqs, k - 1) + Len(seqs[k])
  <1> DEFINE stream == FlattenSeq(seqs)
             read == Before(seqs, k - 1)
             words == seqs[k]
  <1>1. PICK T : seqs \in Seq(Seq(T))
    BY DEF AreSeqs
  <1>2. /\ stream \in Seq(T)
        /\ Before(seqs, k) \in 0 .. Len(stream)
        /\ read \in 0 .. Len(stream)
        /\ Before(seqs, k) = read + Len(words)
        /\ \A p \in 1 .. Len(words) : stream[read + p] = words[p]
    <2>1. k \in 0 .. Len(seqs) /\ k - 1 \in 0 .. Len(seqs)
      BY <1>1
    <2> QED
      BY <1>1, <2>1, FlattenFacts
  <1>3. words \in Seq(T)
    BY <1>1
  <1> HIDE DEF stream, read, words
  <1>4. read + Len(words) <= Len(stream)
    BY <1>2
  <1>5. SubSeq(stream, read + 1, read + Len(words)) = words
    <2> DEFINE sub == SubSeq(stream, read + 1, read + Len(words))
    <2>1. /\ sub \in Seq(T) /\ Len(sub) = Len(words)
          /\ \A p \in 1 .. Len(words) : sub[p] = stream[read + p]
      <3>1. Len(words) \in Nat /\ read \in Nat /\ Len(stream) \in Nat
        BY <1>2, <1>3
      <3> DEFINE m == read + 1
                 n == read + Len(words)
      <3>2. m \in 1 .. Len(stream) + 1 /\ n \in m - 1 .. Len(stream)
        BY <1>4, <3>1
      <3>3. n - m + 1 = Len(words) /\ \A p \in 1 .. Len(words) : m + p - 1 = read + p
        BY <3>1
      <3> HIDE DEF m, n
      <3>4. /\ SubSeq(stream, m, n) \in Seq(T)
            /\ Len(SubSeq(stream, m, n)) = n - m + 1
            /\ \A p \in 1 .. n - m + 1 : SubSeq(stream, m, n)[p] = stream[m + p - 1]
        BY <1>2, <3>2, SubSeqProperties
      <3> QED
        BY <3>3, <3>4 DEF m, n
    <2>2. \A p \in 1 .. Len(words) : sub[p] = words[p]
      BY <1>2, <2>1
    <2> HIDE DEF sub
    <2>3. sub = words
      BY <1>3, <2>1, <2>2
    <2> QED
      BY <2>3 DEF sub
  <1> QED
    BY <1>2, <1>4, <1>5 DEF InPlace, stream, read, words

\* The length of a stream of parts of one length.
LEMMA EqualParts ==
  ASSUME NEW seqs, AreSeqs(seqs), NEW w \in Nat,
         \A k \in 1 .. Len(seqs) : Len(seqs[k]) = w
  PROVE  Len(FlattenSeq(seqs)) = Len(seqs) * w
  <1>1. PICK T : seqs \in Seq(Seq(T))
    BY DEF AreSeqs
  <1>2. /\ Before(seqs, 0) = 0
        /\ Before(seqs, Len(seqs)) = Len(FlattenSeq(seqs))
        /\ \A k \in 1 .. Len(seqs) : Before(seqs, k) = Before(seqs, k - 1) + Len(seqs[k])
        /\ Len(seqs) \in Nat
    BY <1>1, FlattenFacts
  <1> DEFINE S == {n \in Nat : n <= Len(seqs) => Before(seqs, n) = n * w}
  <1>3. 0 \in S
    BY <1>2
  <1>4. ASSUME NEW n \in Nat, n \in S
        PROVE  n + 1 \in S
    <2> SUFFICES ASSUME n + 1 <= Len(seqs) PROVE Before(seqs, n + 1) = (n + 1) * w
      OBVIOUS
    <2>1. n + 1 \in 1 .. Len(seqs) /\ (n + 1) - 1 = n /\ n <= Len(seqs)
      BY <1>2
    <2>2. Before(seqs, n + 1) = Before(seqs, n) + w
      BY <1>2, <2>1
    <2>3. Before(seqs, n) = n * w
      BY <1>4, <2>1
    <2>4. n * w + w = (n + 1) * w
      OBVIOUS
    <2> QED
      BY <2>2, <2>3, <2>4
  <1>5. \A n \in Nat : n \in S
    <2> HIDE DEF S
    <2> QED
      BY <1>3, <1>4, SetInduction
  <1> QED
    BY <1>2, <1>5

\* The permutation of a block, four lanes to a word.
LEMMA PermSlotsFacts ==
  ASSUME NEW addr
  PROVE  IsSeq(PermSlots(addr)) /\ Len(PermSlots(addr)) = Vector \div 4
  <1>1. PermSlots(addr) = [w \in 1 .. Vector \div 4 |-> PermSlots(addr)[w]]
    BY DEF PermSlots
  <1>2. Vector \div 4 \in Nat
    BY VectorAssumption
  <1> QED
    BY <1>1, <1>2, FunctionIsSeq

\* As many indices and permutation words as the loop reads.
LEMMA GatherSlotsFacts ==
  ASSUME NEW info, NEW code, code.order = info.order, code.mask = info.mask,
         info.order = "DisOrder" /\ Vector # 4 => info.mask \in {1, Vector}
  PROVE  IsSeq(GatherSlots(info)) /\ Len(GatherSlots(info)) = GatherWidth(code)
  <1> DEFINE indices == IF info.order # "DisOrder" THEN 1
                        ELSE IF Vector > 4 THEN info.mask
                        ELSE IF info.mask = 4 THEN 4 ELSE 1
             permuted == info.order = "DisOrder" /\ Vector > 4 /\ info.mask # Vector
             front == [p \in 1 .. indices |-> IndexSlot(info.index[p])]
             rest == IF permuted THEN PermSlots(info.addr) ELSE <<>>
  <1>1. GatherSlots(info) = front \o rest
    BY DEF GatherSlots
  <1>2. indices \in Nat
    BY VectorAssumption
  <1>3. front = [p \in 1 .. indices |-> front[p]]
    OBVIOUS
  <1>4. Len(rest) = (IF permuted THEN Vector \div 4 ELSE 0) /\ IsSeq(rest)
    <2>1. Len(<<>>) = 0 /\ IsSeq(<<>>)
      BY DEF IsSeq
    <2> HIDE DEF permuted
    <2> QED
      BY <2>1, PermSlotsFacts
  <1>5. indices + (IF permuted THEN Vector \div 4 ELSE 0) = GatherWidth(code)
    BY VectorAssumption DEF GatherWidth, LoadsBlock
  <1> HIDE DEF indices, permuted, front, rest
  <1>6. IsSeq(front) /\ Len(front) = indices
    BY <1>2, <1>3, FunctionIsSeq
  <1> QED
    BY <1>1, <1>4, <1>5, <1>6, ConcatIsSeq

\* The column of a chunk.
LEMMA ColumnFits ==
  ASSUME NEW ix
  PROVE  /\ IsSeq(GatherSlots(GatherInfo(ix)))
         /\ Len(GatherSlots(GatherInfo(ix))) = GatherWidth(ColumnCode(GatherInfo(ix)))
  <1>1. GatherInfo(ix).order = "DisOrder" /\ Vector # 4 => GatherInfo(ix).mask \in {1, Vector}
    BY VectorAssumption DEF GatherInfo, OrderedInfo
  <1> QED
    BY <1>1, GatherSlotsFacts DEF ColumnCode

\* The row of a chunk.
LEMMA RowFits ==
  ASSUME NEW ix, NEW reduction
  PROVE  /\ IsSeq(GatherSlots(ScatterInfo(ix)))
         /\ Len(GatherSlots(ScatterInfo(ix))) = GatherWidth(RowCode(ScatterInfo(ix), reduction))
  <1>1. ScatterInfo(ix).order = "DisOrder" => ScatterInfo(ix).mask \in {1, Vector}
    BY DEF ScatterInfo, OrderedInfo
  <1> QED
    BY <1>1, GatherSlotsFacts DEF RowCode

\* No lane repeats more often than there are lanes.
LEMMA LongestRepeatRange ==
  ASSUME NEW ix
  PROVE  LongestRepeat(ix) \in 1 .. Vector
  <1> DEFINE Same(l) == {m \in Lane : ix[m] = ix[l]}
             S == {Cardinality(Same(l)) : l \in Lane}
  <1>1. IsFiniteSet(Lane) /\ Cardinality(Lane) = Vector /\ 0 \in Lane
    <2>1. 0 \in Int /\ Vector - 1 \in Int /\ 0 \in Lane
      BY VectorAssumption DEF Lane
    <2>2. IsFiniteSet(0 .. Vector - 1) /\ Cardinality(0 .. Vector - 1) = Vector
      <3>1. IF 0 > Vector - 1 THEN FALSE ELSE (Vector - 1) - 0 + 1 = Vector
        BY VectorAssumption
      <3> QED
        BY <2>1, <3>1, FS_Interval
    <2> QED
      BY <2>1, <2>2 DEF Lane
  <1>2. ASSUME NEW l \in Lane
        PROVE  Cardinality(Same(l)) \in 1 .. Vector
    <2>1. Same(l) \subseteq Lane /\ l \in Same(l)
      OBVIOUS
    <2> HIDE DEF Same
    <2>2. IsFiniteSet(Same(l)) /\ Cardinality(Same(l)) <= Vector
      BY <1>1, <2>1, FS_Subset
    <2>3. Cardinality(Same(l)) \in Nat /\ Cardinality(Same(l)) # 0
      BY <2>1, <2>2, FS_EmptySet, FS_CardinalityType
    <2> QED
      BY <2>2, <2>3, VectorAssumption
  <1>3. S \in SUBSET (1 .. Vector) /\ S # {}
    BY <1>1, <1>2
  <1>4. LongestRepeat(ix) = Max(S)
    BY DEF LongestRepeat
  <1> HIDE DEF S
  <1>5. S \in SUBSET Nat /\ Vector \in Nat /\ \A x \in S : x <= Vector
    BY <1>3, VectorAssumption
  <1>6. Max(S) \in S
    BY <1>3, <1>5, GreatestElement
  <1> QED
    BY <1>3, <1>4, <1>6

\* The rounds of an unordered output chunk, and none of an ordered one.
LEMMA RoundsFit ==
  ASSUME NEW ix
  PROVE  /\ IsSeq(ReductionSlots(ReductionInfo(ix)))
         /\ Len(ReductionSlots(ReductionInfo(ix)))
              = ReductionWidth(RowCode(ScatterInfo(ix), ReductionInfo(ix)))
         /\ OrderOf(ix) # "DisOrder" => Len(ReductionSlots(ReductionInfo(ix))) = 0
  <1> DEFINE rounds == ReductionInfo(ix).rounds
             parts == [r \in 1 .. Len(rounds) |-> PermSlots(rounds[r])]
  <1>1. ReductionSlots(ReductionInfo(ix)) = FlattenSeq(parts)
    BY DEF ReductionSlots
  <1>2. Len(rounds) \in Nat /\ (OrderOf(ix) # "DisOrder" => Len(rounds) = 0)
    <2>1. CASE OrderOf(ix) # "DisOrder"
      BY <2>1 DEF ReductionInfo
    <2>2. CASE OrderOf(ix) = "DisOrder"
      <3> DEFINE n == reduce_num[LongestRepeat(ix)]
      <3>1. n \in Nat
        BY LongestRepeatRange, VectorAssumption DEF reduce_num
      <3>2. Rounds(ix) = [r \in 1 .. n |-> Rounds(ix)[r]]
        BY DEF Rounds
      <3> HIDE DEF n
      <3>3. Len(Rounds(ix)) = n
        BY <3>1, <3>2, FunctionIsSeq
      <3> QED
        BY <2>2, <3>1, <3>3 DEF ReductionInfo
    <2> QED
      BY <2>1, <2>2
  <1>3. RowCode(ScatterInfo(ix), ReductionInfo(ix)).rounds = Len(rounds)
    BY DEF RowCode
  <1>4. RowCode(ScatterInfo(ix), ReductionInfo(ix)).order = OrderOf(ix)
    BY DEF RowCode, ScatterInfo, OrderedInfo
  <1>5. /\ parts = [r \in 1 .. Len(rounds) |-> parts[r]]
        /\ \A r \in 1 .. Len(rounds) : parts[r] = PermSlots(rounds[r])
    OBVIOUS
  <1> HIDE DEF rounds, parts
  <1>6. \A r \in 1 .. Len(rounds) : IsSeq(parts[r]) /\ Len(parts[r]) = Vector \div 4
    BY <1>5, PermSlotsFacts
  <1>7. AreSeqs(parts) /\ Len(parts) = Len(rounds)
    BY <1>2, <1>5, <1>6, PartsAreSeqs
  <1>8. Len(FlattenSeq(parts)) = Len(rounds) * (Vector \div 4)
    <2>1. Vector \div 4 \in Nat
      BY VectorAssumption
    <2> QED
      BY <1>6, <1>7, <2>1, EqualParts
  <1>9. IsSeq(FlattenSeq(parts))
    BY <1>7, FlattenFacts DEF AreSeqs, IsSeq
  <1>10. Len(FlattenSeq(parts)) = ReductionWidth(RowCode(ScatterInfo(ix), ReductionInfo(ix)))
    <2>1. CASE OrderOf(ix) = "DisOrder"
      BY <1>3, <1>4, <1>8, <2>1 DEF ReductionWidth
    <2>2. CASE OrderOf(ix) # "DisOrder"
      <3>1. Len(rounds) = 0 /\ 0 * (Vector \div 4) = 0
        BY <1>2, <2>2, VectorAssumption
      <3> QED
        BY <1>4, <1>8, <2>2, <3>1 DEF ReductionWidth
    <2> QED
      BY <2>1, <2>2
  <1>11. OrderOf(ix) # "DisOrder" => Len(FlattenSeq(parts)) = 0
    BY <1>4, <1>10 DEF ReductionWidth
  <1> QED
    BY <1>1, <1>9, <1>10, <1>11

-----------------------------------------------------------------------------
(***************************************************************************)
(* Sums                                                                    *)
(***************************************************************************)
\* The recursion of MapThenSumSet, for the values of a function.
Sums(g, f, S) ==
  g = [s \in SUBSET S |-> IF s = {} THEN 0
                          ELSE LET x == CHOOSE x \in s : TRUE IN f[x] + g[s \ {x}]]

\* There is such a function on the subsets of a finite set.
LEMMA SumsExists ==
  ASSUME NEW S, IsFiniteSet(S), NEW f
  PROVE  \E g : Sums(g, f, S)
  <1> DEFINE Body(g, s) == IF s = {} THEN 0
                           ELSE LET x == CHOOSE x \in s : TRUE IN f[x] + g[s \ {x}]
             N == {n \in Nat : \E g : \A s \in SUBSET S :
                                 Cardinality(s) <= n => g[s] = Body(g, s)}
  <1>1. \A s \in SUBSET S : IsFiniteSet(s) /\ Cardinality(s) \in Nat
                            /\ Cardinality(s) <= Cardinality(S)
    BY FS_Subset, FS_CardinalityType
  <1>2. \A s \in SUBSET S : Cardinality(s) = 0 => s = {}
    BY <1>1, FS_EmptySet
  <1>3. 0 \in N
    <2>1. \A s \in SUBSET S : Cardinality(s) <= 0 => [t \in SUBSET S |-> 0][s] = Body([t \in SUBSET S |-> 0], s)
      BY <1>1, <1>2
    <2> QED
      BY <2>1
  <1>4. ASSUME NEW n \in Nat, n \in N
        PROVE  n + 1 \in N
    <2>1. PICK g : \A s \in SUBSET S : Cardinality(s) <= n => g[s] = Body(g, s)
      BY <1>4
    <2> DEFINE h == [s \in SUBSET S |-> IF Cardinality(s) <= n THEN g[s] ELSE Body(g, s)]
    <2>2. ASSUME NEW s \in SUBSET S, Cardinality(s) <= n + 1
          PROVE  h[s] = Body(h, s)
      <3>1. CASE s = {}
        <4>1. Cardinality(s) = 0
          BY <3>1, FS_EmptySet
        <4> QED
          BY <2>1, <3>1, <4>1
      <3>2. CASE s # {}
        <4> DEFINE x == CHOOSE x \in s : TRUE
        <4>1. x \in s
          BY <3>2
        <4>2. s \ {x} \in SUBSET S /\ Cardinality(s \ {x}) = Cardinality(s) - 1
          BY <1>1, <4>1, FS_RemoveElement
        <4>3. Cardinality(s \ {x}) <= n
          BY <1>1, <2>2, <4>2
        <4>4. h[s \ {x}] = g[s \ {x}]
          BY <4>2, <4>3
        <4>5. h[s] = Body(g, s)
          BY <2>1
        <4> QED
          BY <3>2, <4>4, <4>5
      <3> QED
        BY <3>1, <3>2
    <2> HIDE DEF h
    <2>3. \E k : \A s \in SUBSET S : Cardinality(s) <= n + 1 => k[s] = Body(k, s)
      <3> WITNESS h
      <3> QED
        BY <2>2
    <2>4. n + 1 \in Nat
      OBVIOUS
    <2> QED
      BY <2>3, <2>4, Zenon
  <1>5. \A n \in Nat : n \in N
    <2> HIDE DEF N
    <2> QED
      BY <1>3, <1>4, SetInduction
  <1>6. Cardinality(S) \in Nat
    BY FS_CardinalityType
  <1>7. PICK g : \A s \in SUBSET S : Cardinality(s) <= Cardinality(S) => g[s] = Body(g, s)
    <2> HIDE DEF Body
    <2>1. Cardinality(S) \in N
      BY <1>5, <1>6, Zenon
    <2> QED
      BY <2>1, Zenon
  <1>8. \A s \in SUBSET S : g[s] = Body(g, s)
    <2> HIDE DEF Body
    <2> QED
      BY <1>1, <1>7, Zenon
  <1> DEFINE h == [s \in SUBSET S |-> g[s]]
  <1>9. \A s \in SUBSET S : h[s] = Body(h, s)
    <2> SUFFICES ASSUME NEW s \in SUBSET S PROVE h[s] = Body(h, s)
      OBVIOUS
    <2>1. \A x : s \ {x} \in SUBSET S
      OBVIOUS
    <2> QED
      BY <1>8, <2>1
  <1>10. h = [s \in SUBSET S |-> h[s]]
    OBVIOUS
  <1>11. Sums(h, f, S)
    <2> HIDE DEF h
    <2> QED
      BY <1>9, <1>10 DEF Sums
  <1> QED
    BY <1>11

\* g sums up f over the subsets of S, whichever element is taken last.
AnyOrder(g, f, S) ==
  /\ g[{}] = 0
  /\ \A s \in SUBSET S : g[s] \in Nat
  /\ \A s \in SUBSET S : \A x \in s : g[s] = f[x] + g[s \ {x}]

\* A sum does not depend on the order in which the elements are taken.
LEMMA SumsFacts ==
  ASSUME NEW S, IsFiniteSet(S), NEW f \in [S -> Nat], NEW g, Sums(g, f, S)
  PROVE  AnyOrder(g, f, S)
  <1>1. \A s \in SUBSET S : g[s] = IF s = {} THEN 0
                              ELSE f[CHOOSE x \in s : TRUE] + g[s \ {CHOOSE x \in s : TRUE}]
    BY DEF Sums
  <1>2. g[{}] = 0
    BY <1>1
  <1>3. \A s \in SUBSET S : IsFiniteSet(s) /\ Cardinality(s) \in Nat
    BY FS_Subset, FS_CardinalityType
  <1>4. \A s \in SUBSET S : \A x \in s :
          s \ {x} \in SUBSET S /\ Cardinality(s \ {x}) = Cardinality(s) - 1
    BY <1>3, FS_RemoveElement
  <1>5. \A s \in SUBSET S : s # {} => (CHOOSE x \in s : TRUE) \in s /\ Cardinality(s) # 0
    <2>1. \A s \in SUBSET S : Cardinality(s) = 0 => s = {}
      BY <1>3, FS_EmptySet
    <2> QED
      BY <2>1
  <1>6. \A s \in SUBSET S : g[s] \in Nat
    <2> DEFINE N == {n \in Nat : \A s \in SUBSET S : Cardinality(s) = n => g[s] \in Nat}
    <2>1. 0 \in N
      BY <1>2, <1>5
    <2>2. ASSUME NEW n \in Nat, n \in N
          PROVE  n + 1 \in N
      <3> SUFFICES ASSUME NEW s \in SUBSET S, Cardinality(s) = n + 1
                   PROVE  g[s] \in Nat
        OBVIOUS
      <3> DEFINE c == CHOOSE x \in s : TRUE
      <3>1. s # {}
        BY <1>3, FS_EmptySet
      <3>2. c \in s /\ c \in S /\ g[s] = f[c] + g[s \ {c}]
        BY <1>1, <1>5, <3>1
      <3> HIDE DEF c
      <3>3. s \ {c} \in SUBSET S /\ Cardinality(s \ {c}) = n
        BY <1>4, <3>2
      <3> QED
        BY <2>2, <3>2, <3>3
    <2>3. \A n \in Nat : n \in N
      <3> HIDE DEF N
      <3> QED
        BY <2>1, <2>2, SetInduction
    <2> QED
      BY <1>3, <2>3
  <1> DEFINE N == {n \in Nat : \A s \in SUBSET S : Cardinality(s) = n =>
                     \A x \in s : g[s] = f[x] + g[s \ {x}]}
  <1>7. 0 \in N
    BY <1>5
  <1>8. ASSUME NEW n \in Nat, n \in N
        PROVE  n + 1 \in N
    <2> SUFFICES ASSUME NEW s \in SUBSET S, Cardinality(s) = n + 1, NEW x \in s
                 PROVE  g[s] = f[x] + g[s \ {x}]
      OBVIOUS
    <2> DEFINE c == CHOOSE z \in s : TRUE
    <2>1. c \in s /\ c \in S /\ g[s] = f[c] + g[s \ {c}]
      BY <1>1, <1>5
    <2> HIDE DEF c
    <2>2. CASE x = c
      BY <2>1, <2>2
    <2>3. CASE x # c
      <3> DEFINE rest == (s \ {x}) \ {c}
      <3>1. /\ s \ {x} \in SUBSET S /\ Cardinality(s \ {x}) = n /\ c \in s \ {x}
            /\ s \ {c} \in SUBSET S /\ Cardinality(s \ {c}) = n /\ x \in s \ {c}
        BY <1>4, <2>1, <2>3
      <3>2. (s \ {c}) \ {x} = rest
        OBVIOUS
      <3>3. g[s \ {x}] = f[c] + g[rest] /\ g[s \ {c}] = f[x] + g[rest]
        BY <1>8, <3>1, <3>2
      <3>4. f[x] \in Nat /\ f[c] \in Nat /\ rest \in SUBSET S
        BY <2>1
      <3>5. g[rest] \in Nat
        BY <1>6, <3>4
      <3> HIDE DEF rest
      <3> QED
        BY <2>1, <3>3, <3>4, <3>5
    <2> QED
      BY <2>2, <2>3
  <1>9. \A n \in Nat : n \in N
    <2> HIDE DEF N
    <2> QED
      BY <1>7, <1>8, SetInduction
  <1>10. \A s \in SUBSET S : \A x \in s : g[s] = f[x] + g[s \ {x}]
    BY <1>3, <1>9
  <1> QED
    BY <1>2, <1>6, <1>10 DEF AnyOrder

-----------------------------------------------------------------------------
(***************************************************************************)
(* Masks are numbers of sixteen bits                                       *)
(***************************************************************************)
\* The powers of two up to sixteen bits.
Pow(n) == 2 ^ n

PowerKnown(n) ==
  \/ (n = 0 /\ Pow(n) = 1)  \/ (n = 1 /\ Pow(n) = 2)  \/ (n = 2 /\ Pow(n) = 4)
  \/ (n = 3 /\ Pow(n) = 8)  \/ (n = 4 /\ Pow(n) = 16)  \/ (n = 5 /\ Pow(n) = 32)
  \/ (n = 6 /\ Pow(n) = 64)  \/ (n = 7 /\ Pow(n) = 128)  \/ (n = 8 /\ Pow(n) = 256)
  \/ (n = 9 /\ Pow(n) = 512)  \/ (n = 10 /\ Pow(n) = 1024)  \/ (n = 11 /\ Pow(n) = 2048)
  \/ (n = 12 /\ Pow(n) = 4096)  \/ (n = 13 /\ Pow(n) = 8192)  \/ (n = 14 /\ Pow(n) = 16384)
  \/ (n = 15 /\ Pow(n) = 32768)  \/ (n = 16 /\ Pow(n) = 65536)

\* The table holds.
LEMMA PowerTable ==
  ASSUME NEW n \in 0 .. 16
  PROVE  PowerKnown(n)
  <1>1. CASE n = 0
    BY <1>1 DEF PowerKnown, Pow
  <1>2. CASE n = 1
    BY <1>2 DEF PowerKnown, Pow
  <1>3. CASE n = 2
    BY <1>3 DEF PowerKnown, Pow
  <1>4. CASE n = 3
    BY <1>4 DEF PowerKnown, Pow
  <1>5. CASE n = 4
    BY <1>5 DEF PowerKnown, Pow
  <1>6. CASE n = 5
    BY <1>6 DEF PowerKnown, Pow
  <1>7. CASE n = 6
    BY <1>7 DEF PowerKnown, Pow
  <1>8. CASE n = 7
    BY <1>8 DEF PowerKnown, Pow
  <1>9. CASE n = 8
    BY <1>9 DEF PowerKnown, Pow
  <1>10. CASE n = 9
    BY <1>10 DEF PowerKnown, Pow
  <1>11. CASE n = 10
    BY <1>11 DEF PowerKnown, Pow
  <1>12. CASE n = 11
    BY <1>12 DEF PowerKnown, Pow
  <1>13. CASE n = 12
    BY <1>13 DEF PowerKnown, Pow
  <1>14. CASE n = 13
    BY <1>14 DEF PowerKnown, Pow
  <1>15. CASE n = 14
    BY <1>15 DEF PowerKnown, Pow
  <1>16. CASE n = 15
    BY <1>16 DEF PowerKnown, Pow
  <1>17. CASE n = 16
    BY <1>17 DEF PowerKnown, Pow
  <1> QED
    BY <1>1, <1>2, <1>3, <1>4, <1>5, <1>6, <1>7, <1>8, <1>9, <1>10, <1>11, <1>12, <1>13,
       <1>14, <1>15, <1>16, <1>17

\* A power of two is a natural number.
LEMMA PowerIsNat == \A n \in 0 .. 16 : Pow(n) \in Nat
  <1>1. ASSUME NEW n \in 0 .. 16
        PROVE  Pow(n) \in Nat
    <2>1. PowerKnown(n)
      BY PowerTable
    <2> QED
      BY <2>1 DEF PowerKnown
  <1> QED
    BY <1>1, Zenon

\* The next power of two is twice as much.
LEMMA PowerDoubles == \A n, m \in 0 .. 16 : m = n + 1 => Pow(m) = Pow(n) + Pow(n)
  <1>1. ASSUME NEW n \in 0 .. 16, NEW m \in 0 .. 16, m = n + 1
        PROVE  Pow(m) = Pow(n) + Pow(n)
    <2>1. PowerKnown(n) /\ PowerKnown(m)
      BY PowerTable
    <2> QED
      BY <1>1, <2>1 DEF PowerKnown
  <1> QED
    BY <1>1, Zenon

\* A sum of different powers of two below 2^n is below 2^n.
LEMMA PowerSum ==
  ASSUME NEW lanes, IsFiniteSet(lanes), lanes \subseteq 0 .. 15,
         NEW f \in [lanes -> Nat], \A l \in lanes : f[l] = Pow(l),
         NEW g, AnyOrder(g, f, lanes)
  PROVE  g[lanes] \in Nat /\ g[lanes] < Pow(16)
  <1>0. g[{}] = 0 /\ \A s \in SUBSET lanes : g[s] \in Nat
    BY DEF AnyOrder
  <1>1. ASSUME NEW s \in SUBSET lanes, NEW x \in s
        PROVE  g[s] = f[x] + g[s \ {x}]
    BY DEF AnyOrder
  <1> DEFINE N == {m \in Nat : m <= 16 => \A s \in SUBSET lanes : s \subseteq 0 .. m - 1
                                                    => g[s] < Pow(m)}
  <1>2. 0 \in N
    <2> SUFFICES ASSUME NEW s \in SUBSET lanes, s \subseteq 0 .. 0 - 1
                 PROVE  g[s] < Pow(0)
      OBVIOUS
    <2>1. s = {}
      OBVIOUS
    <2>2. Pow(0) = 1
      BY DEF Pow
    <2> QED
      BY <1>0, <2>1, <2>2
  <1>3. ASSUME NEW m \in Nat, m \in N
        PROVE  m + 1 \in N
    <2> SUFFICES ASSUME m + 1 <= 16, NEW s \in SUBSET lanes, s \subseteq 0 .. m
                 PROVE  g[s] < Pow(m + 1)
      OBVIOUS
    <2> DEFINE n == m + 1
    <2>1. n \in 0 .. 16 /\ m \in 0 .. 16 /\ n = m + 1
      OBVIOUS
    <2> HIDE DEF n
    <2>2. Pow(n) = Pow(m) + Pow(m) /\ Pow(m) \in Nat
      BY <2>1, PowerIsNat, PowerDoubles, Zenon
    <2>3. CASE m \in s
      <3>1. s \ {m} \subseteq 0 .. m - 1 /\ s \ {m} \in SUBSET lanes
        OBVIOUS
      <3>2. g[s \ {m}] < Pow(m) /\ g[s \ {m}] \in Nat
        BY <1>0, <1>3, <3>1
      <3>3. g[s] = Pow(m) + g[s \ {m}]
        BY <1>1, <2>3
      <3>4. g[s] < Pow(n)
        BY <2>2, <3>2, <3>3
      <3> QED
        BY <2>1, <3>4
    <2>4. CASE m \notin s
      <3>1. s \subseteq 0 .. m - 1
        BY <2>4
      <3>2. g[s] < Pow(m) /\ g[s] \in Nat
        BY <1>0, <1>3, <3>1
      <3>3. g[s] < Pow(n)
        BY <2>2, <3>2
      <3> QED
        BY <2>1, <3>3
    <2> QED
      BY <2>3, <2>4
  <1>4. 16 \in N
    <2> HIDE DEF N
    <2>1. \A m \in Nat : m \in N
      BY <1>2, <1>3, SetInduction
    <2> QED
      BY <2>1
  <1>5. g[lanes] < Pow(16)
    <2>1. lanes \subseteq 0 .. 16 - 1 /\ lanes \in SUBSET lanes
      OBVIOUS
    <2> QED
      BY <1>4, <2>1
  <1>6. g[lanes] \in Nat
    <2>1. lanes \in SUBSET lanes
      OBVIOUS
    <2> QED
      BY <1>0, <2>1
  <1> QED
    BY <1>5, <1>6

\* A set of lanes is a number of sixteen bits.
LEMMA BitsRange ==
  ASSUME NEW lanes \in SUBSET Lane
  PROVE  Bits(lanes) \in Nat /\ Bits(lanes) < Pow(16)
  <1> DEFINE Is(g) == g = [s \in SUBSET lanes |-> IF s = {} THEN 0
                             ELSE LET x == CHOOSE x \in s : TRUE IN Pow(x) + g[s \ {x}]]
             f == [l \in lanes |-> Pow(l)]
             h == CHOOSE k : Is(k)
  <1>1. IsFiniteSet(lanes) /\ lanes \subseteq 0 .. 15
    <2>1. Lane \subseteq 0 .. 15 /\ 0 \in Int /\ 15 \in Int
      BY VectorAssumption DEF Lane
    <2> QED
      BY <2>1, FS_Interval, FS_Subset
  <1>2. \A s \in SUBSET lanes : s # {} => f[CHOOSE x \in s : TRUE] = Pow(CHOOSE x \in s : TRUE)
    OBVIOUS
  <1>3. \A g : Sums(g, f, lanes) <=> Is(g)
    BY <1>2 DEF Sums
  <1>4. \E g : Sums(g, f, lanes)
    BY <1>1, SumsExists
  <1>5. Is(h)
    <2> HIDE DEF Is, f
    <2>1. \E k : Is(k)
      BY <1>3, <1>4, Zenon
    <2> QED
      BY <2>1
  <1>6. Bits(lanes) = h[lanes]
    BY DEF Bits, MapThenSumSet, MapThenFoldSet, Pow
  <1>7. Sums(h, f, lanes)
    BY <1>3, <1>5
  <1>8. f \in [lanes -> Nat] /\ \A l \in lanes : f[l] = Pow(l)
    <2>1. \A l \in lanes : l \in 0 .. 16
      BY <1>1
    <2>2. \A l \in lanes : Pow(l) \in Nat
      BY <2>1, PowerIsNat, Zenon
    <2> QED
      BY <2>2, Zenon
  <1> HIDE DEF f, h, Is
  <1>9. h[lanes] \in Nat /\ h[lanes] < Pow(16)
    <2>1. f \in [lanes -> Nat]
      BY <1>8
    <2>2. \A l \in lanes : f[l] = Pow(l)
      BY <1>8
    <2>3. AnyOrder(h, f, lanes)
      BY <1>1, <1>7, <2>1, SumsFacts
    <2> QED
      BY <1>1, <2>1, <2>2, <2>3, PowerSum
  <1> QED
    BY <1>6, <1>9

-----------------------------------------------------------------------------
(***************************************************************************)
(* Features                                                                *)
(***************************************************************************)
\* The number of rounds of an unordered chunk is its mask.
LEMMA RoundCount ==
  ASSUME NEW ix, OrderOf(ix) = "DisOrder"
  PROVE  /\ ReductionInfo(ix).mask = Len(ReductionInfo(ix).rounds)
         /\ ReductionInfo(ix).mask \in 0 .. 4
  <1> DEFINE n == reduce_num[LongestRepeat(ix)]
  <1>1. n \in 0 .. 4
    BY LongestRepeatRange, VectorAssumption DEF reduce_num
  <1>2. Rounds(ix) = [r \in 1 .. n |-> Rounds(ix)[r]]
    BY DEF Rounds
  <1> HIDE DEF n
  <1>3. Len(Rounds(ix)) = n
    BY <1>1, <1>2, FunctionIsSeq
  <1> QED
    BY <1>1, <1>3 DEF ReductionInfo

\* A permutation of four lanes, four bits each, is a number of sixteen bits, and
\* not 0 unless all lanes are.
LEMMA PackedRange ==
  ASSUME NEW addr, \A l \in 0 .. 3 : addr[l] \in 0 .. 3
  PROVE  /\ Packed(addr) \in Nat /\ Packed(addr) < Pow(16)
         /\ \A l \in 0 .. 3 : Packed(addr) >= addr[l]
         /\ Packed(addr) = addr[0] + 16 * addr[1] + 256 * addr[2] + 4096 * addr[3]
  <1> DEFINE four == 0 .. 3
             Is(g) == g = [s \in SUBSET four |-> IF s = {} THEN 0
                             ELSE LET x == CHOOSE x \in s : TRUE
                                  IN addr[x] * 16 ^ x + g[s \ {x}]]
             f == [l \in four |-> addr[l] * 16 ^ l]
             h == CHOOSE k : Is(k)
  <1>1. IsFiniteSet(four)
    <2>1. 0 \in Int /\ 3 \in Int
      OBVIOUS
    <2> QED
      BY <2>1, FS_Interval
  <1>2. \A s \in SUBSET four : s # {} =>
          f[CHOOSE x \in s : TRUE] = addr[CHOOSE x \in s : TRUE] * 16 ^ (CHOOSE x \in s : TRUE)
    OBVIOUS
  <1>3. \A g : Sums(g, f, four) <=> Is(g)
    BY <1>2 DEF Sums
  <1>4. \E g : Sums(g, f, four)
    BY <1>1, SumsExists
  <1>5. Is(h)
    <2> HIDE DEF Is, f
    <2>1. \E k : Is(k)
      BY <1>3, <1>4, Zenon
    <2> QED
      BY <2>1
  <1>6. Packed(addr) = h[four]
    BY DEF Packed, MapThenSumSet, MapThenFoldSet
  <1>7. Sums(h, f, four)
    BY <1>3, <1>5
  <1>8. /\ f[0] \in Nat /\ f[1] \in Nat /\ f[2] \in Nat /\ f[3] \in Nat
        /\ f[0] <= 3 /\ f[1] <= 48 /\ f[2] <= 768 /\ f[3] <= 12288
        /\ addr[0] <= f[0] /\ addr[1] <= f[1] /\ addr[2] <= f[2] /\ addr[3] <= f[3]
    <2>1. addr[0] \in 0 .. 3 /\ addr[1] \in 0 .. 3 /\ addr[2] \in 0 .. 3 /\ addr[3] \in 0 .. 3
      OBVIOUS
    <2>2. f[0] = addr[0] * 1 /\ f[1] = addr[1] * 16 /\ f[2] = addr[2] * 256 /\ f[3] = addr[3] * 4096
      OBVIOUS
    <2> HIDE DEF f
    <2> QED
      BY <2>1, <2>2
  <1>9. f = [l \in four |-> f[l]]
    OBVIOUS
  <1>27. f[0] = addr[0] * 1 /\ f[1] = addr[1] * 16 /\ f[2] = addr[2] * 256 /\ f[3] = addr[3] * 4096
    OBVIOUS
  <1> HIDE DEF f, h, Is
  <1>10. f \in [four -> Nat]
    <2>1. \A l \in four : l = 0 \/ l = 1 \/ l = 2 \/ l = 3
      OBVIOUS
    <2>2. \A l \in four : f[l] \in Nat
      BY <1>8, <2>1
    <2> QED
      BY <1>9, <2>2
  <1>11. AnyOrder(h, f, four)
    BY <1>1, <1>7, <1>10, SumsFacts
  <1>12. h[{}] = 0
    BY <1>11 DEF AnyOrder
  <1>13. ASSUME NEW s \in SUBSET four, NEW x \in s
         PROVE  h[s] = f[x] + h[s \ {x}]
    BY <1>11 DEF AnyOrder
  <1>14. four \ {0} = 1 .. 3 /\ (1 .. 3) \ {1} = 2 .. 3 /\ (2 .. 3) \ {2} = {3} /\ {3} \ {3} = {}
    OBVIOUS
  <1>15. h[four] = f[0] + h[1 .. 3]
    BY <1>13, <1>14
  <1>16. h[1 .. 3] = f[1] + h[2 .. 3]
    BY <1>13, <1>14
  <1>17. h[2 .. 3] = f[2] + h[{3}]
    BY <1>13, <1>14
  <1>18. h[{3}] = f[3] + 0
    BY <1>12, <1>13, <1>14
  <1>19. h[four] = f[0] + (f[1] + (f[2] + (f[3] + 0)))
    BY <1>15, <1>16, <1>17, <1>18
  <1>20. h[four] \in Nat /\ h[four] <= 13107
    BY <1>8, <1>19
  <1>21. Pow(16) > 13107 /\ Pow(16) \in Nat
    BY DEF Pow
  <1>22. addr[0] \in Nat /\ addr[1] \in Nat /\ addr[2] \in Nat /\ addr[3] \in Nat
    OBVIOUS
  <1>23. /\ h[four] >= addr[0] /\ h[four] >= addr[1]
         /\ h[four] >= addr[2] /\ h[four] >= addr[3]
    BY <1>8, <1>19, <1>22
  <1>24. \A l \in 0 .. 3 : l = 0 \/ l = 1 \/ l = 2 \/ l = 3
    OBVIOUS
  <1>25. \A l \in 0 .. 3 : h[four] >= addr[l]
    BY <1>23, <1>24
  <1>26. h[four] = addr[0] + 16 * addr[1] + 256 * addr[2] + 4096 * addr[3]
    BY <1>19, <1>22, <1>27
  <1> QED
    BY <1>6, <1>20, <1>21, <1>25, <1>26

\* A feature: an order type and a mask of sixteen bits.
IsFeature(info) ==
  /\ info.order \in {"DisOrder", "IncContinue", "OrderEquel"}
  /\ info.mask \in Nat /\ info.mask < Pow(16)

\* The word of a feature holds both.
LEMMA WordIsFeature ==
  ASSUME NEW a, NEW b, IsFeature(a), IsFeature(b), FeatureWord(a) = FeatureWord(b)
  PROVE  a.order = b.order /\ a.mask = b.mask
  <1> DEFINE W == Pow(16)
             m == a.mask
             n == b.mask
             p == OrderNumber(a.order)
             q == OrderNumber(b.order)
  <1>1. W \in Nat /\ W > 0
    BY DEF Pow
  <1>2. FeatureWord(a) = m + p * W /\ FeatureWord(b) = n + q * W
    BY DEF FeatureWord, Pow
  <1>3. p \in {0, 3, 5} /\ q \in {0, 3, 5} /\ (p = q => a.order = b.order)
    BY DEF IsFeature, OrderNumber
  <1>4. m \in Nat /\ m < W /\ n \in Nat /\ n < W /\ m + p * W = n + q * W
    BY <1>2 DEF IsFeature
  <1> HIDE DEF W, m, n, p, q
  <1>5. /\ 0 * W = 0 /\ 3 * W = W + W + W /\ 5 * W = W + W + W + W + W
    BY <1>1
  <1>6. p = q
    <2>1. CASE p = 0
      BY <1>1, <1>3, <1>4, <1>5, <2>1
    <2>2. CASE p = 3
      BY <1>1, <1>3, <1>4, <1>5, <2>2
    <2>3. CASE p = 5
      BY <1>1, <1>3, <1>4, <1>5, <2>3
    <2> QED
      BY <1>3, <2>1, <2>2, <2>3
  <1>7. m = n
    <2>1. p * W \in Nat
      BY <1>1, <1>3
    <2> QED
      BY <1>4, <1>6, <2>1
  <1> QED
    BY <1>3, <1>6, <1>7 DEF m, n

\* The order type is one of three.
LEMMA OrderIsOne ==
  ASSUME NEW ix
  PROVE  OrderOf(ix) \in {"DisOrder", "IncContinue", "OrderEquel"}
  BY DEF OrderOf

\* The feature of an ordered chunk: its mask is a set of lanes.
LEMMA OrderedIsFeature ==
  ASSUME NEW ix
  PROVE  IsFeature(OrderedInfo(ix))
  <1>1. Heads(ix) \in SUBSET Lane
    BY VectorAssumption DEF Heads, Lane
  <1>2. Bits(Heads(ix)) \in Nat /\ Bits(Heads(ix)) < Pow(16)
    BY <1>1, BitsRange
  <1> QED
    BY <1>2, OrderIsOne DEF IsFeature, OrderedInfo

\* A count of lanes or rounds fits a mask.
LEMMA SmallMask == \A n \in 0 .. 16 : n \in Nat /\ n < Pow(16)
  <1>1. Pow(16) > 16 /\ Pow(16) \in Nat
    BY DEF Pow
  <1> QED
    BY <1>1

\* What generate_scatter_info_elem makes is a feature.
LEMMA RowIsFeature ==
  ASSUME NEW ix
  PROVE  IsFeature(ScatterInfo(ix))
  <1>1. CASE OrderOf(ix) # "DisOrder"
    BY <1>1, OrderedIsFeature DEF ScatterInfo
  <1>2. CASE OrderOf(ix) = "DisOrder"
    <2>1. ScatterInfo(ix).order = "DisOrder" /\ ScatterInfo(ix).mask = Vector
      BY <1>2 DEF ScatterInfo
    <2>2. Vector \in 0 .. 16
      BY VectorAssumption
    <2> QED
      BY <2>1, <2>2, SmallMask DEF IsFeature
  <1> QED
    BY <1>1, <1>2

\* What generate_reduction_info_elem makes is a feature.
LEMMA RoundsAreFeature ==
  ASSUME NEW ix
  PROVE  IsFeature(ReductionInfo(ix))
  <1>1. CASE OrderOf(ix) # "DisOrder"
    <2>1. ReductionInfo(ix).order = OrderOf(ix) /\ ReductionInfo(ix).mask = ScatterInfo(ix).mask
      BY <1>1 DEF ReductionInfo
    <2> QED
      BY <2>1, RowIsFeature, OrderIsOne DEF IsFeature
  <1>2. CASE OrderOf(ix) = "DisOrder"
    <2>1. ReductionInfo(ix).order = "DisOrder"
      BY <1>2 DEF ReductionInfo
    <2>2. ReductionInfo(ix).mask \in 0 .. 16
      BY <1>2, RoundCount
    <2> QED
      BY <2>1, <2>2, SmallMask DEF IsFeature
  <1> QED
    BY <1>1, <1>2

\* The lowest index of a chunk is one of its indices.
LEMMA LowestIsLeast ==
  ASSUME NEW ix \in [Lane -> Nat]
  PROVE  Lowest(ix) \in Nat /\ \A l \in Lane : Lowest(ix) <= ix[l]
  <1> DEFINE S == {ix[l] : l \in Lane}
  <1>1. S \in SUBSET Nat /\ S # {}
    BY VectorAssumption DEF Lane
  <1>2. \E d \in S : \A e \in S : d <= e
    <2> HIDE DEF S
    <2> QED
      BY <1>1, LeastElement
  <1>3. Min(S) \in S /\ \A e \in S : Min(S) <= e
    BY <1>2 DEF Min
  <1> QED
    BY <1>1, <1>3 DEF Lowest

\* What generate_gather_info_elem makes is a feature.
LEMMA ColumnIsFeature ==
  ASSUME NEW ix \in [Lane -> Nat]
  PROVE  IsFeature(GatherInfo(ix))
  <1>1. CASE OrderOf(ix) # "DisOrder"
    BY <1>1, OrderedIsFeature DEF GatherInfo
  <1>2. CASE OrderOf(ix) = "DisOrder" /\ InOneBlock(ix) /\ Vector = 4
    <2> DEFINE addr == [l \in Lane |-> ix[l] - Lowest(ix)]
    <2>1. GatherInfo(ix).order = "DisOrder" /\ GatherInfo(ix).mask = Packed(addr)
      BY <1>2 DEF GatherInfo
    <2>2. Lane = 0 .. 3
      BY <1>2 DEF Lane
    <2>3. \A l \in 0 .. 3 : addr[l] \in 0 .. 3
      <3> SUFFICES ASSUME NEW l \in 0 .. 3 PROVE ix[l] - Lowest(ix) \in 0 .. 3
        BY <2>2
      <3>1. ix[l] \in Nat /\ ix[l] < Lowest(ix) + 4
        BY <1>2, <2>2 DEF InOneBlock
      <3>2. Lowest(ix) \in Nat /\ Lowest(ix) <= ix[l]
        BY <2>2, LowestIsLeast
      <3> QED
        BY <3>1, <3>2
    <2> HIDE DEF addr
    <2>4. Packed(addr) \in Nat /\ Packed(addr) < Pow(16)
      BY <2>3, PackedRange
    <2> QED
      BY <2>1, <2>4 DEF IsFeature
  <1>3. CASE OrderOf(ix) = "DisOrder" /\ ~(InOneBlock(ix) /\ Vector = 4)
    <2>1. GatherInfo(ix).order = "DisOrder" /\ GatherInfo(ix).mask \in {1, Vector}
      BY <1>3, VectorAssumption DEF GatherInfo
    <2>2. GatherInfo(ix).mask \in 0 .. 16
      BY <2>1, VectorAssumption
    <2> QED
      BY <2>1, <2>2, SmallMask DEF IsFeature
  <1> QED
    BY <1>1, <1>2, <1>3

-----------------------------------------------------------------------------
(***************************************************************************)
(* What a chunk takes and what it is counted for                           *)
(***************************************************************************)
\* The mask of an unordered chunk of one block: with four lanes the permutation
\* itself, and then not 0, as the lanes differ.
LEMMA BlockMask ==
  ASSUME NEW ix \in [Lane -> Nat], OrderOf(ix) = "DisOrder"
  PROVE  /\ GatherInfo(ix).order = "DisOrder"
         /\ GatherInfo(ix).mask \in Nat /\ GatherInfo(ix).mask >= 1
         /\ Vector > 4 => GatherInfo(ix).mask \in {1, Vector}
  <1>1. CASE InOneBlock(ix) /\ Vector = 4
    <2> DEFINE addr == [l \in Lane |-> ix[l] - Lowest(ix)]
    <2>1. GatherInfo(ix).order = "DisOrder" /\ GatherInfo(ix).mask = Packed(addr)
      BY <1>1 DEF GatherInfo
    <2>2. Lane = 0 .. 3
      BY <1>1 DEF Lane
    <2>3. \A l \in 0 .. 3 : addr[l] \in 0 .. 3
      <3> SUFFICES ASSUME NEW l \in 0 .. 3 PROVE ix[l] - Lowest(ix) \in 0 .. 3
        BY <2>2
      <3>1. ix[l] \in Nat /\ ix[l] < Lowest(ix) + 4
        BY <1>1, <2>2 DEF InOneBlock
      <3>2. Lowest(ix) \in Nat /\ Lowest(ix) <= ix[l]
        BY <2>2, LowestIsLeast
      <3> QED
        BY <3>1, <3>2
    <2>4. \E l \in 0 .. 3 : addr[l] # 0
      <3>1. PICK l \in 1 .. 3 : ix[l] # ix[l - 1]
        BY <1>1 DEF OrderOf, AllEqual
      <3>2. l \in 0 .. 3 /\ l - 1 \in 0 .. 3 /\ ix[l] \in Nat /\ ix[l - 1] \in Nat
        BY <2>2, <3>1
      <3>3. Lowest(ix) \in Nat
        BY LowestIsLeast
      <3>4. ix[l] - Lowest(ix) # 0 \/ ix[l - 1] - Lowest(ix) # 0
        BY <3>1, <3>2, <3>3
      <3> QED
        BY <2>2, <3>2, <3>4
    <2> HIDE DEF addr
    <2>5. PICK l \in 0 .. 3 : addr[l] # 0
      BY <2>4
    <2>6. Packed(addr) \in Nat /\ Packed(addr) >= addr[l] /\ addr[l] \in 0 .. 3
      BY <2>3, PackedRange
    <2>7. Packed(addr) >= 1
      BY <2>5, <2>6
    <2> QED
      BY <1>1, <2>1, <2>6, <2>7
  <1>2. CASE ~(InOneBlock(ix) /\ Vector = 4)
    <2>1. GatherInfo(ix).order = "DisOrder" /\ GatherInfo(ix).mask \in {1, Vector}
      BY <1>2, VectorAssumption DEF GatherInfo
    <2> QED
      BY <2>1, VectorAssumption
  <1> QED
    BY <1>1, <1>2

\* The words of a column chunk: the indices and the permutation.
LEMMA ColumnNeed ==
  ASSUME NEW ix \in [Lane -> Nat]
  PROVE  /\ GatherNeed(GatherInfo(ix)) \in Nat
         /\ Len(GatherSlots(GatherInfo(ix))) <= GatherNeed(GatherInfo(ix))
  <1> DEFINE info == GatherInfo(ix)
             code == ColumnCode(info)
  <1>1. Len(GatherSlots(info)) = GatherWidth(code)
    BY ColumnFits
  <1>2. code.order = info.order /\ code.mask = info.mask
    BY DEF ColumnCode
  <1>3. CASE OrderOf(ix) # "DisOrder"
    <2>1. info.order # "DisOrder"
      BY <1>3 DEF GatherInfo, OrderedInfo
    <2> HIDE DEF info, code
    <2>2. GatherWidth(code) = 1 /\ GatherNeed(info) = 1
      BY <1>2, <2>1 DEF GatherWidth, GatherNeed
    <2> QED
      BY <1>1, <2>2 DEF info
  <1>4. CASE OrderOf(ix) = "DisOrder"
    <2>1. /\ info.order = "DisOrder" /\ info.mask \in Nat /\ info.mask >= 1
          /\ Vector > 4 => info.mask \in {1, Vector}
      BY <1>4, BlockMask
    <2> HIDE DEF info, code
    <2> DEFINE m == info.mask
    <2>2. GatherWidth(code) = IF m = 1 \/ (Vector = 4 /\ m # Vector)
                                THEN 1 + (IF Vector = 4 THEN 0 ELSE Vector \div 4) ELSE Vector
      BY <1>2, <2>1 DEF GatherWidth, LoadsBlock
    <2>3. GatherNeed(info) = m + (IF m # Vector /\ Vector > 4 THEN Vector \div 4 ELSE 0)
      BY <2>1 DEF GatherNeed
    <2>4. GatherNeed(info) \in Nat /\ GatherWidth(code) <= GatherNeed(info)
      <3> HIDE DEF m
      <3>1. m \in Nat /\ m >= 1 /\ (Vector > 4 => m \in {1, Vector})
        BY <2>1 DEF m
      <3>2. CASE Vector = 4
        BY <2>2, <2>3, <3>1, <3>2
      <3>3. CASE Vector = 8
        BY <2>2, <2>3, <3>1, <3>3
      <3>4. CASE Vector = 16
        BY <2>2, <2>3, <3>1, <3>4
      <3> QED
        BY <3>2, <3>3, <3>4, VectorAssumption
    <2> QED
      BY <1>1, <2>4 DEF info
  <1> QED
    BY <1>3, <1>4

\* The words of a row chunk: its indices.
LEMMA RowNeed ==
  ASSUME NEW ix
  PROVE  /\ ScatterNeed(ScatterInfo(ix)) \in Nat
         /\ Len(GatherSlots(ScatterInfo(ix))) <= ScatterNeed(ScatterInfo(ix))
  <1> DEFINE info == ScatterInfo(ix)
             code == RowCode(info, ReductionInfo(ix))
  <1>1. Len(GatherSlots(info)) = GatherWidth(code)
    BY RowFits
  <1>2. code.order = info.order /\ code.mask = info.mask
    BY DEF RowCode
  <1>3. CASE OrderOf(ix) # "DisOrder"
    <2>1. info.order # "DisOrder"
      BY <1>3 DEF ScatterInfo, OrderedInfo
    <2> HIDE DEF info, code
    <2>2. GatherWidth(code) = 1 /\ ScatterNeed(info) = 1
      BY <1>2, <2>1 DEF GatherWidth, ScatterNeed
    <2> QED
      BY <1>1, <2>2 DEF info
  <1>4. CASE OrderOf(ix) = "DisOrder"
    <2>1. info.order = "DisOrder" /\ info.mask = Vector
      BY <1>4 DEF ScatterInfo
    <2> HIDE DEF info, code
    <2>2. GatherWidth(code) = Vector
      BY <1>2, <2>1, VectorAssumption DEF GatherWidth, LoadsBlock
    <2>3. ScatterNeed(info) = Vector
      BY <2>1, VectorAssumption DEF ScatterNeed
    <2>4. Vector \in Nat
      BY VectorAssumption
    <2> QED
      BY <1>1, <2>2, <2>3, <2>4 DEF info
  <1> QED
    BY <1>3, <1>4

\* The words of the rounds of a reduction.  The count of rounds is taken for a
\* gather of all lanes if it is the number of lanes; only four lanes could have
\* that many, and then there is no plan.
LEMMA RoundsNeed ==
  ASSUME NEW ix, Vector > 4 \/ OrderOf(ix) # "DisOrder"
  PROVE  /\ ReductionNeed(ReductionInfo(ix)) \in Nat
         /\ Len(ReductionSlots(ReductionInfo(ix))) <= ReductionNeed(ReductionInfo(ix))
  <1> DEFINE info == ReductionInfo(ix)
  <1>1. info.order = OrderOf(ix)
    BY DEF ReductionInfo
  <1>2. CASE OrderOf(ix) # "DisOrder"
    <2>1. Len(ReductionSlots(info)) = 0
      BY <1>2, RoundsFit
    <2>2. ReductionNeed(info) = 0
      BY <1>1, <1>2 DEF ReductionNeed
    <2> QED
      BY <2>1, <2>2
  <1>3. CASE OrderOf(ix) = "DisOrder"
    <2> DEFINE m == info.mask
               code == RowCode(ScatterInfo(ix), info)
    <2>1. m = Len(info.rounds) /\ m \in 0 .. 4
      BY <1>3, RoundCount
    <2>2. Len(ReductionSlots(info)) = ReductionWidth(code)
      BY RoundsFit
    <2>3. code.order = "DisOrder" /\ code.rounds = m
      BY <1>3, <2>1 DEF RowCode, ScatterInfo
    <2> HIDE DEF code
    <2>4. ReductionWidth(code) = m * (Vector \div 4)
      BY <2>3 DEF ReductionWidth
    <2>5. Vector \in {8, 16}
      BY <1>3, VectorAssumption
    <2>6. ReductionNeed(info) = (Vector * m) \div 4
      <3>1. info.order = "DisOrder"
        BY <1>1, <1>3
      <3>2. m # Vector
        <4>1. \A n \in 0 .. 4 : n # 8 /\ n # 16
          OBVIOUS
        <4>2. m \in 0 .. 4 /\ (Vector = 8 \/ Vector = 16)
          BY <2>1, <2>5
        <4> HIDE DEF m
        <4> QED
          BY <4>1, <4>2
      <3>3. info.mask # Vector
        BY <3>2
      <3> HIDE DEF info
      <3> QED
        BY <3>1, <3>3 DEF ReductionNeed
    <2> HIDE DEF info, m
    <2>7. m * (Vector \div 4) = (Vector * m) \div 4 /\ (Vector * m) \div 4 \in Nat
      <3>1. m = 0 \/ m = 1 \/ m = 2 \/ m = 3 \/ m = 4
        BY <2>1
      <3>2. CASE Vector = 8
        BY <3>1, <3>2
      <3>3. CASE Vector = 16
        BY <3>1, <3>3
      <3> QED
        BY <2>5, <3>2, <3>3
    <2> QED
      BY <2>2, <2>4, <2>6, <2>7 DEF info
  <1> QED
    BY <1>2, <1>3

-----------------------------------------------------------------------------
(***************************************************************************)
(* Reading masks                                                           *)
(***************************************************************************)
\* A mask of lanes is the sum of their powers of two.
LEMMA BitsSum ==
  ASSUME NEW lanes \in SUBSET Lane
  PROVE  \E f \in [lanes -> Nat] : \E g :
           /\ \A l \in lanes : f[l] = Pow(l)
           /\ AnyOrder(g, f, lanes)
           /\ Bits(lanes) = g[lanes]
  <1> DEFINE Is(g) == g = [s \in SUBSET lanes |-> IF s = {} THEN 0
                             ELSE LET x == CHOOSE x \in s : TRUE IN Pow(x) + g[s \ {x}]]
             f == [l \in lanes |-> Pow(l)]
             h == CHOOSE k : Is(k)
  <1>1. IsFiniteSet(lanes) /\ lanes \subseteq 0 .. 15
    <2>1. Lane \subseteq 0 .. 15 /\ 0 \in Int /\ 15 \in Int
      BY VectorAssumption DEF Lane
    <2> QED
      BY <2>1, FS_Interval, FS_Subset
  <1>2. \A s \in SUBSET lanes : s # {} => f[CHOOSE x \in s : TRUE] = Pow(CHOOSE x \in s : TRUE)
    OBVIOUS
  <1>3. \A g : Sums(g, f, lanes) <=> Is(g)
    BY <1>2 DEF Sums
  <1>4. \E g : Sums(g, f, lanes)
    BY <1>1, SumsExists
  <1>5. Is(h)
    <2> HIDE DEF Is, f
    <2>1. \E k : Is(k)
      BY <1>3, <1>4, Zenon
    <2> QED
      BY <2>1
  <1>6. Bits(lanes) = h[lanes]
    BY DEF Bits, MapThenSumSet, MapThenFoldSet, Pow
  <1>7. Sums(h, f, lanes)
    BY <1>3, <1>5
  <1>8. f \in [lanes -> Nat] /\ \A l \in lanes : f[l] = Pow(l)
    <2>1. \A l \in lanes : l \in 0 .. 16
      BY <1>1
    <2>2. \A l \in lanes : Pow(l) \in Nat
      BY <2>1, PowerIsNat, Zenon
    <2> QED
      BY <2>2, Zenon
  <1> HIDE DEF f, h, Is
  <1>9. AnyOrder(h, f, lanes)
    BY <1>1, <1>7, <1>8, SumsFacts
  <1> QED
    BY <1>6, <1>8, <1>9

\* The bits of a number of eight bits.
EightBits(a, b, c, d, e, f, g, h) ==
  a + 2 * b + 4 * c + 8 * d + 16 * e + 32 * f + 64 * g + 128 * h

\* Shifting finds each of them.
LEMMA ShiftedBits ==
  ASSUME NEW a \in 0 .. 1, NEW b \in 0 .. 1, NEW c \in 0 .. 1, NEW d \in 0 .. 1,
         NEW e \in 0 .. 1, NEW f \in 0 .. 1, NEW g \in 0 .. 1, NEW h \in 0 .. 1
  PROVE  /\ (EightBits(a, b, c, d, e, f, g, h) \div 1) % 2 = a
         /\ (EightBits(a, b, c, d, e, f, g, h) \div 2) % 2 = b
         /\ (EightBits(a, b, c, d, e, f, g, h) \div 4) % 2 = c
         /\ (EightBits(a, b, c, d, e, f, g, h) \div 8) % 2 = d
         /\ (EightBits(a, b, c, d, e, f, g, h) \div 16) % 2 = e
         /\ (EightBits(a, b, c, d, e, f, g, h) \div 32) % 2 = f
         /\ (EightBits(a, b, c, d, e, f, g, h) \div 64) % 2 = g
         /\ (EightBits(a, b, c, d, e, f, g, h) \div 128) % 2 = h
  BY DEF EightBits

\* Whether lane k is one of the lanes, as a bit.
BitOf(lanes, k) == IF k \in lanes THEN 1 ELSE 0

\* The mask of eight lanes or less, bit by bit.
LEMMA EightLanes ==
  ASSUME Vector <= 8, NEW lanes \in SUBSET Lane
  PROVE  Bits(lanes) = EightBits(BitOf(lanes, 0), BitOf(lanes, 1), BitOf(lanes, 2), BitOf(lanes, 3),
                                 BitOf(lanes, 4), BitOf(lanes, 5), BitOf(lanes, 6), BitOf(lanes, 7))
  <1>0. PICK f \in [lanes -> Nat] : \E g : /\ \A l \in lanes : f[l] = Pow(l)
                                           /\ AnyOrder(g, f, lanes)
                                           /\ Bits(lanes) = g[lanes]
    BY BitsSum
  <1>1. PICK g : /\ \A l \in lanes : f[l] = Pow(l)
                 /\ AnyOrder(g, f, lanes)
                 /\ Bits(lanes) = g[lanes]
    BY <1>0
  <1>2. Lane \subseteq 0 .. 7 /\ lanes \subseteq 0 .. 7
    BY VectorAssumption DEF Lane
  <1> DEFINE part(k) == {l \in lanes : l >= k}
             bit(k) == BitOf(lanes, k)
  <1>3. \A k \in 0 .. 7 : g[part(k)] = bit(k) * Pow(k) + g[part(k + 1)]
    <2> SUFFICES ASSUME NEW k \in 0 .. 7
                 PROVE  g[part(k)] = bit(k) * Pow(k) + g[part(k + 1)]
      OBVIOUS
    <2>1. part(k + 1) \in SUBSET lanes /\ part(k) \in SUBSET lanes
      OBVIOUS
    <2>2. g[part(k + 1)] \in Nat
      BY <1>1, <2>1 DEF AnyOrder
    <2>3. k \in 0 .. 16 /\ \A l \in lanes : l \in Int
      BY <1>2
    <2>4. Pow(k) \in Nat
      BY <2>3, PowerIsNat, Zenon
    <2>5. CASE k \in lanes
      <3>1. k \in part(k) /\ part(k) \ {k} = part(k + 1)
        <4>1. \A l \in lanes : l \in Int /\ (l >= k /\ l # k <=> l >= k + 1)
          BY <2>3
        <4>2. \A l : l \in part(k) \ {k} <=> l \in lanes /\ l >= k /\ l # k
          OBVIOUS
        <4>3. \A l : l \in part(k + 1) <=> l \in lanes /\ l >= k + 1
          OBVIOUS
        <4>4. k \in part(k)
          BY <2>3, <2>5
        <4> HIDE DEF part
        <4>5. \A l : l \in part(k) \ {k} <=> l \in part(k + 1)
          BY <4>1, <4>2, <4>3
        <4> QED
          BY <4>4, <4>5
      <3>2. g[part(k)] = f[k] + g[part(k) \ {k}]
        BY <1>1, <2>1, <3>1 DEF AnyOrder
      <3>3. f[k] = Pow(k)
        BY <1>1, <2>5
      <3>4. bit(k) = 1
        BY <2>5 DEF BitOf
      <3> HIDE DEF part, bit
      <3>5. g[part(k)] = Pow(k) + g[part(k + 1)]
        BY <3>1, <3>2, <3>3
      <3>6. bit(k) * Pow(k) = Pow(k)
        BY <2>4, <3>4
      <3> QED
        BY <3>5, <3>6
    <2>6. CASE k \notin lanes
      <3>1. part(k) = part(k + 1)
        BY <2>3, <2>6
      <3>2. bit(k) = 0
        BY <2>6 DEF BitOf
      <3> HIDE DEF part, bit
      <3> QED
        BY <2>2, <2>4, <3>1, <3>2
    <2> QED
      BY <2>5, <2>6
  <1>4. part(0) = lanes /\ part(8) = {}
    <2>1. \A l \in lanes : l \in Int /\ l >= 0 /\ ~(l >= 8)
      BY <1>2
    <2> QED
      BY <2>1
  <1>5. g[part(8)] = 0
    BY <1>1, <1>4 DEF AnyOrder
  <1> DEFINE m == Bits(lanes)
  <1>6. /\ bit(0) \in 0 .. 1 /\ bit(1) \in 0 .. 1 /\ bit(2) \in 0 .. 1 /\ bit(3) \in 0 .. 1
        /\ bit(4) \in 0 .. 1 /\ bit(5) \in 0 .. 1 /\ bit(6) \in 0 .. 1 /\ bit(7) \in 0 .. 1
    BY DEF BitOf
  <1>8. /\ Pow(0) = 1 /\ Pow(1) = 2 /\ Pow(2) = 4 /\ Pow(3) = 8
        /\ Pow(4) = 16 /\ Pow(5) = 32 /\ Pow(6) = 64 /\ Pow(7) = 128
    BY DEF Pow
  <1>9. m = g[part(0)]
    BY <1>1, <1>4
  <1> HIDE DEF part, bit, m
  <1>10. m = EightBits(bit(0), bit(1), bit(2), bit(3), bit(4), bit(5), bit(6), bit(7))
    <2>1. /\ g[part(0)] = bit(0) * 1 + g[part(1)] /\ g[part(1)] = bit(1) * 2 + g[part(2)]
          /\ g[part(2)] = bit(2) * 4 + g[part(3)] /\ g[part(3)] = bit(3) * 8 + g[part(4)]
          /\ g[part(4)] = bit(4) * 16 + g[part(5)] /\ g[part(5)] = bit(5) * 32 + g[part(6)]
          /\ g[part(6)] = bit(6) * 64 + g[part(7)] /\ g[part(7)] = bit(7) * 128 + g[part(8)]
      BY <1>3, <1>8
    <2> QED
      BY <1>5, <1>6, <1>9, <2>1 DEF EightBits
  <1> QED
    BY <1>10 DEF m, bit

\* The mask of eight lanes or less holds the lanes.
LEMMA MaskLanes ==
  ASSUME Vector <= 8, NEW lanes \in SUBSET Lane
  PROVE  LanesIn(Bits(lanes)) = lanes
  <1> DEFINE m == Bits(lanes)
             bit(k) == BitOf(lanes, k)
  <1>2. Lane \subseteq 0 .. 7
    BY VectorAssumption DEF Lane
  <1>6. /\ bit(0) \in 0 .. 1 /\ bit(1) \in 0 .. 1 /\ bit(2) \in 0 .. 1 /\ bit(3) \in 0 .. 1
        /\ bit(4) \in 0 .. 1 /\ bit(5) \in 0 .. 1 /\ bit(6) \in 0 .. 1 /\ bit(7) \in 0 .. 1
    BY DEF BitOf
  <1>7. \A k \in 0 .. 7 : k \in lanes <=> bit(k) = 1
    BY DEF BitOf
  <1>8. /\ Pow(0) = 1 /\ Pow(1) = 2 /\ Pow(2) = 4 /\ Pow(3) = 8
        /\ Pow(4) = 16 /\ Pow(5) = 32 /\ Pow(6) = 64 /\ Pow(7) = 128
    BY DEF Pow
  <1>10. m = EightBits(bit(0), bit(1), bit(2), bit(3), bit(4), bit(5), bit(6), bit(7))
    BY EightLanes
  <1> HIDE DEF bit, m
  <1>11. \A k \in 0 .. 7 : (m \div Pow(k)) % 2 = bit(k)
    <2>2. /\ (m \div 1) % 2 = bit(0) /\ (m \div 2) % 2 = bit(1)
          /\ (m \div 4) % 2 = bit(2) /\ (m \div 8) % 2 = bit(3)
          /\ (m \div 16) % 2 = bit(4) /\ (m \div 32) % 2 = bit(5)
          /\ (m \div 64) % 2 = bit(6) /\ (m \div 128) % 2 = bit(7)
      BY <1>6, <1>10, ShiftedBits
    <2>3. \A k \in 0 .. 7 : \/ k = 0 \/ k = 1 \/ k = 2 \/ k = 3
                            \/ k = 4 \/ k = 5 \/ k = 6 \/ k = 7
      OBVIOUS
    <2> QED
      BY <1>8, <2>2, <2>3
  <1>12. \A k \in Lane : k \in LanesIn(m) <=> (m \div Pow(k)) % 2 = 1
    BY DEF LanesIn, Pow
  <1>13. LanesIn(m) \subseteq Lane
    BY DEF LanesIn
  <1>14. \A k \in Lane : k \in LanesIn(m) <=> k \in lanes
    BY <1>2, <1>7, <1>11, <1>12
  <1> QED
    BY <1>13, <1>14 DEF m

\* One lane more in a mask of eight lanes or less.
LEMMA OneLaneMore ==
  ASSUME Vector <= 8, NEW lanes \in SUBSET Lane, NEW k \in Lane, k \notin lanes
  PROVE  Bits(lanes \cup {k}) = Bits(lanes) + Pow(k)
  <1> DEFINE more == lanes \cup {k}
             bit(n) == BitOf(lanes, n)
             new(n) == BitOf(more, n)
  <1>1. k \in 0 .. 7
    BY VectorAssumption DEF Lane
  <1>2. /\ Bits(lanes) = EightBits(bit(0), bit(1), bit(2), bit(3), bit(4), bit(5), bit(6), bit(7))
        /\ Bits(more) = EightBits(new(0), new(1), new(2), new(3), new(4), new(5), new(6), new(7))
    BY EightLanes
  <1>3. /\ \A n \in 0 .. 7 : bit(n) \in 0 .. 1
        /\ \A n \in 0 .. 7 : new(n) = IF n = k THEN 1 ELSE bit(n)
        /\ bit(k) = 0
    BY DEF BitOf
  <1>4. /\ Pow(0) = 1 /\ Pow(1) = 2 /\ Pow(2) = 4 /\ Pow(3) = 8
        /\ Pow(4) = 16 /\ Pow(5) = 32 /\ Pow(6) = 64 /\ Pow(7) = 128
    BY DEF Pow
  <1> HIDE DEF bit, new
  <1>5. /\ bit(0) \in Int /\ bit(1) \in Int /\ bit(2) \in Int /\ bit(3) \in Int
        /\ bit(4) \in Int /\ bit(5) \in Int /\ bit(6) \in Int /\ bit(7) \in Int
    BY <1>3
  <1>6. \/ k = 0 \/ k = 1 \/ k = 2 \/ k = 3 \/ k = 4 \/ k = 5 \/ k = 6 \/ k = 7
    BY <1>1
  <1>7. /\ new(0) = (IF k = 0 THEN 1 ELSE bit(0)) /\ new(1) = (IF k = 1 THEN 1 ELSE bit(1))
        /\ new(2) = (IF k = 2 THEN 1 ELSE bit(2)) /\ new(3) = (IF k = 3 THEN 1 ELSE bit(3))
        /\ new(4) = (IF k = 4 THEN 1 ELSE bit(4)) /\ new(5) = (IF k = 5 THEN 1 ELSE bit(5))
        /\ new(6) = (IF k = 6 THEN 1 ELSE bit(6)) /\ new(7) = (IF k = 7 THEN 1 ELSE bit(7))
    BY <1>3
  <1> HIDE DEF more
  <1>8. Bits(more) = Bits(lanes) + Pow(k)
    <2> USE DEF EightBits
    <2>1. CASE k = 0
      BY <1>2, <1>3, <1>4, <1>5, <1>7, <2>1
    <2>2. CASE k = 1
      BY <1>2, <1>3, <1>4, <1>5, <1>7, <2>2
    <2>3. CASE k = 2
      BY <1>2, <1>3, <1>4, <1>5, <1>7, <2>3
    <2>4. CASE k = 3
      BY <1>2, <1>3, <1>4, <1>5, <1>7, <2>4
    <2>5. CASE k = 4
      BY <1>2, <1>3, <1>4, <1>5, <1>7, <2>5
    <2>6. CASE k = 5
      BY <1>2, <1>3, <1>4, <1>5, <1>7, <2>6
    <2>7. CASE k = 6
      BY <1>2, <1>3, <1>4, <1>5, <1>7, <2>7
    <2>8. CASE k = 7
      BY <1>2, <1>3, <1>4, <1>5, <1>7, <2>8
    <2> QED
      BY <1>6, <2>1, <2>2, <2>3, <2>4, <2>5, <2>6, <2>7, <2>8
  <1> QED
    BY <1>8 DEF more

\* The four lane numbers packed into a mask can be read again.
LEMMA PackedNibbles ==
  ASSUME NEW addr, \A l \in 0 .. 3 : addr[l] \in 0 .. 3
  PROVE  \A l \in 0 .. 3 : Nibble(Packed(addr), l) = addr[l]
  <1> DEFINE a == addr[0]
             b == addr[1]
             c == addr[2]
             d == addr[3]
             m == Packed(addr)
  <1>1. a \in 0 .. 3 /\ b \in 0 .. 3 /\ c \in 0 .. 3 /\ d \in 0 .. 3
    OBVIOUS
  <1>2. m = a + 16 * b + 256 * c + 4096 * d
    BY PackedRange
  <1>3. /\ Nibble(m, 0) = (m \div 1) % 16 /\ Nibble(m, 1) = (m \div 16) % 16
        /\ Nibble(m, 2) = (m \div 256) % 16 /\ Nibble(m, 3) = (m \div 4096) % 16
    BY DEF Nibble
  <1> HIDE DEF a, b, c, d, m
  <1>4. /\ (m \div 1) % 16 = a /\ (m \div 16) % 16 = b
        /\ (m \div 256) % 16 = c /\ (m \div 4096) % 16 = d
    BY <1>1, <1>2
  <1>5. \A l \in 0 .. 3 : l = 0 \/ l = 1 \/ l = 2 \/ l = 3
    OBVIOUS
  <1> QED
    BY <1>3, <1>4, <1>5 DEF a, b, c, d, m

-----------------------------------------------------------------------------
(***************************************************************************)
(* Gathering                                                               *)
(***************************************************************************)
\* Four lanes to a word.
LEMMA FourToAWord ==
  ASSUME NEW l \in Lane
  PROVE  /\ 1 + l \div 4 \in 1 .. Vector \div 4
         /\ l % 4 \in 0 .. 3
         /\ 4 * ((1 + l \div 4) - 1) + (l % 4) = l
  <1>1. l \in Nat /\ l < Vector /\ l \in 0 .. 15
    BY VectorAssumption DEF Lane
  <1> DEFINE q == l \div 4
             n == l % 4
             words == Vector \div 4
  <1>2. q \in Nat /\ n \in 0 .. 3 /\ l = 4 * q + n
    BY <1>1
  <1>3. (Vector = 4 /\ words = 1) \/ (Vector = 8 /\ words = 2) \/ (Vector = 16 /\ words = 4)
    BY VectorAssumption
  <1> HIDE DEF q, n, words
  <1>4. q < words
    BY <1>1, <1>2, <1>3
  <1>5. 1 + q \in 1 .. words /\ 4 * ((1 + q) - 1) + n = l
    BY <1>2, <1>3, <1>4
  <1> QED
    BY <1>2, <1>5 DEF q, n, words

\* A permutation is read from the stream as it was laid out.
LEMMA PermIsAddr ==
  ASSUME NEW addr, NEW l \in Lane
  PROVE  Perm(PermSlots(addr))[l] = addr[l]
  <1> DEFINE w == 1 + l \div 4
             n == l % 4
  <1>1. w \in 1 .. Vector \div 4 /\ n \in 0 .. 3 /\ 4 * (w - 1) + n = l
    BY FourToAWord
  <1>2. Perm(PermSlots(addr))[l]
          = IF PermSlots(addr)[w].kind = "perm" THEN PermSlots(addr)[w].word[n] ELSE 0
    BY DEF Perm
  <1> HIDE DEF w, n
  <1>3. PermSlots(addr)[w] = PermSlot([k \in 0 .. 3 |-> addr[4 * (w - 1) + k]])
    BY <1>1 DEF PermSlots
  <1>4. PermSlots(addr)[w].kind = "perm" /\ PermSlots(addr)[w].word[n] = addr[4 * (w - 1) + n]
    BY <1>1, <1>3 DEF PermSlot
  <1> QED
    BY <1>1, <1>2, <1>4

\* The lanes of a set up to lane l.
UpTo(S, l) == {h \in S : h <= l}

\* One lane further the set has one lane more, or the same lanes.
LEMMA UpToStep ==
  ASSUME NEW S \in SUBSET Lane
  PROVE  /\ IsFiniteSet(S) /\ Cardinality(S) \in Nat
         /\ \A l : IsFiniteSet(UpTo(S, l)) /\ Cardinality(UpTo(S, l)) \in Nat
         /\ \A l \in Nat : Cardinality(UpTo(S, l + 1))
                             = Cardinality(UpTo(S, l)) + (IF l + 1 \in S THEN 1 ELSE 0)
         /\ \A l \in Nat : UpTo(S, l + 1) = UpTo(S, l) \cup (IF l + 1 \in S THEN {l + 1} ELSE {})
         /\ Cardinality(UpTo(S, 0)) = (IF 0 \in S THEN 1 ELSE 0)
         /\ UpTo(S, Vector - 1) = S
  <1>1. Lane \subseteq Nat /\ IsFiniteSet(Lane) /\ \A l \in Lane : l <= Vector - 1
    <2>1. 0 \in Int /\ Vector - 1 \in Int
      BY VectorAssumption
    <2> QED
      BY <2>1, FS_Interval DEF Lane
  <1>2. IsFiniteSet(S) /\ Cardinality(S) \in Nat
    BY <1>1, FS_Subset, FS_CardinalityType
  <1>3. \A l : IsFiniteSet(UpTo(S, l)) /\ Cardinality(UpTo(S, l)) \in Nat
    <2> SUFFICES ASSUME NEW l PROVE IsFiniteSet(UpTo(S, l)) /\ Cardinality(UpTo(S, l)) \in Nat
      OBVIOUS
    <2>1. UpTo(S, l) \subseteq S
      BY DEF UpTo
    <2> QED
      BY <1>2, <2>1, FS_Subset, FS_CardinalityType
  <1>4. ASSUME NEW l \in Nat
        PROVE  /\ Cardinality(UpTo(S, l + 1))
                    = Cardinality(UpTo(S, l)) + (IF l + 1 \in S THEN 1 ELSE 0)
               /\ UpTo(S, l + 1) = UpTo(S, l) \cup (IF l + 1 \in S THEN {l + 1} ELSE {})
    <2>1. \A h \in S : h \in Int /\ (h <= l + 1 <=> h <= l \/ h = l + 1)
      BY <1>1
    <2>2. CASE l + 1 \in S
      <3>1. UpTo(S, l + 1) = UpTo(S, l) \cup {l + 1}
        BY <2>1, <2>2 DEF UpTo
      <3>2. l + 1 \notin UpTo(S, l)
        BY DEF UpTo
      <3>3. Cardinality(UpTo(S, l) \cup {l + 1}) = Cardinality(UpTo(S, l)) + 1
        BY <1>3, <3>2, FS_AddElement
      <3> QED
        BY <2>2, <3>1, <3>3
    <2>3. CASE l + 1 \notin S
      <3>1. UpTo(S, l + 1) = UpTo(S, l)
        BY <2>1, <2>3 DEF UpTo
      <3> QED
        BY <1>3, <2>3, <3>1
    <2> QED
      BY <2>2, <2>3
  <1>5. Cardinality(UpTo(S, 0)) = IF 0 \in S THEN 1 ELSE 0
    <2>1. \A h \in S : h \in Nat /\ (h <= 0 <=> h = 0)
      BY <1>1
    <2>2. CASE 0 \in S
      <3>1. UpTo(S, 0) = {0}
        BY <2>1, <2>2 DEF UpTo
      <3> QED
        BY <2>2, <3>1, FS_Singleton
    <2>3. CASE 0 \notin S
      <3>1. UpTo(S, 0) = {}
        BY <2>1, <2>3 DEF UpTo
      <3> QED
        BY <2>3, <3>1, FS_EmptySet
    <2> QED
      BY <2>2, <2>3
  <1>6. UpTo(S, Vector - 1) = S
    BY <1>1 DEF UpTo
  <1> QED
    BY <1>2, <1>3, <1>4, <1>5, <1>6

\* An increasing chunk: the index of a lane is told by the heads up to it.
LEMMA IndexOfLane ==
  ASSUME NEW ix \in [Lane -> Nat], OrderOf(ix) = "IncContinue", NEW k \in Lane
  PROVE  ix[k] = ix[0] + Cardinality(UpTo(Heads(ix), k)) - 1
  <1>1. StepsByOne(ix)
    BY DEF OrderOf
  <1>2. Heads(ix) \in SUBSET Lane /\ 0 \in Heads(ix)
    BY VectorAssumption DEF Heads, Lane
  <1>3. \A l \in Lane : ix[l] \in Nat /\ l \in Nat
    BY DEF Lane
  <1> DEFINE N == {n \in Nat : n \in Lane => ix[n] = ix[0] + Cardinality(UpTo(Heads(ix), n)) - 1}
  <1>4. 0 \in N
    <2>1. Cardinality(UpTo(Heads(ix), 0)) = 1
      BY <1>2, UpToStep
    <2> QED
      BY <1>3, <2>1
  <1>5. ASSUME NEW n \in Nat, n \in N
        PROVE  n + 1 \in N
    <2> SUFFICES ASSUME n + 1 \in Lane
                 PROVE  ix[n + 1] = ix[0] + Cardinality(UpTo(Heads(ix), n + 1)) - 1
      OBVIOUS
    <2>1. n \in Lane /\ 0 \in Lane /\ n + 1 \in 1 .. Vector - 1 /\ (n + 1) - 1 = n
      BY VectorAssumption DEF Lane
    <2>2. ix[n] = ix[0] + Cardinality(UpTo(Heads(ix), n)) - 1
      BY <1>5, <2>1
    <2>3. /\ Cardinality(UpTo(Heads(ix), n + 1))
               = Cardinality(UpTo(Heads(ix), n)) + (IF n + 1 \in Heads(ix) THEN 1 ELSE 0)
          /\ Cardinality(UpTo(Heads(ix), n)) \in Nat
      BY <1>2, UpToStep
    <2>4. ix[n + 1] - ix[n] \in {0, 1}
      BY <1>1, <2>1 DEF StepsByOne
    <2>5. n + 1 \in Heads(ix) <=> ix[n + 1] # ix[n]
      BY <2>1 DEF Heads
    <2>6. ix[n + 1] \in Nat /\ ix[n] \in Nat /\ ix[0] \in Nat
      BY <1>3, <2>1
    <2> QED
      BY <2>2, <2>3, <2>4, <2>5, <2>6
  <1> QED
    <2> HIDE DEF N
    <2>1. \A n \in Nat : n \in N
      BY <1>4, <1>5, SetInduction
    <2> QED
      BY <1>3, <2>1 DEF N

\* A chunk of one index has it in every lane.
LEMMA OneIndex ==
  ASSUME NEW ix \in [Lane -> Nat], OrderOf(ix) = "OrderEquel", NEW k \in Lane
  PROVE  ix[k] = ix[0]
  <1>1. AllEqual(ix)
    BY DEF OrderOf
  <1> DEFINE N == {n \in Nat : n \in Lane => ix[n] = ix[0]}
  <1>2. 0 \in N
    OBVIOUS
  <1>3. ASSUME NEW n \in Nat, n \in N
        PROVE  n + 1 \in N
    <2> SUFFICES ASSUME n + 1 \in Lane PROVE ix[n + 1] = ix[0]
      OBVIOUS
    <2>1. n \in Lane /\ n + 1 \in 1 .. Vector - 1 /\ (n + 1) - 1 = n
      BY VectorAssumption DEF Lane
    <2> QED
      BY <1>1, <1>3, <2>1 DEF AllEqual
  <1> QED
    <2>1. k \in Nat
      BY DEF Lane
    <2> HIDE DEF N
    <2>2. \A n \in Nat : n \in N
      BY <1>2, <1>3, SetInduction
    <2> QED
      BY <2>1, <2>2 DEF N

\* An increasing chunk fits eight lanes, and its mask holds its heads.
LEMMA MaskIsHeads ==
  ASSUME NEW ix \in [Lane -> Nat], OrderOf(ix) = "IncContinue"
  PROVE  /\ Vector <= 8
         /\ Heads(ix) \in SUBSET Lane /\ 0 \in Heads(ix)
         /\ LanesIn(OrderedInfo(ix).mask) = Heads(ix)
  <1>1. Vector <= 8
    BY DEF OrderOf
  <1>2. Heads(ix) \in SUBSET Lane /\ 0 \in Heads(ix)
    BY VectorAssumption DEF Heads, Lane
  <1>3. OrderedInfo(ix).mask = Bits(Heads(ix))
    BY DEF OrderedInfo
  <1> QED
    BY <1>1, <1>2, <1>3, MaskLanes

\* How many indices are laid out for a chunk.
IndexCount(info) ==
  IF info.order # "DisOrder" THEN 1
  ELSE IF Vector > 4 THEN info.mask
  ELSE IF info.mask = 4 THEN 4 ELSE 1

\* The indices come first, then the permutation.
LEMMA SlotsLaidOut ==
  ASSUME NEW info, IndexCount(info) \in Nat
  PROVE  /\ \A p \in 1 .. IndexCount(info) :
              GatherSlots(info)[p] = IndexSlot(info.index[p])
         /\ info.order = "DisOrder" /\ Vector > 4 /\ info.mask = 1 =>
              Tail(GatherSlots(info)) = PermSlots(info.addr)
  <1> DEFINE indices == IndexCount(info)
             permuted == info.order = "DisOrder" /\ Vector > 4 /\ info.mask # Vector
             front == [p \in 1 .. indices |-> IndexSlot(info.index[p])]
             rest == IF permuted THEN PermSlots(info.addr) ELSE <<>>
  <1>1. GatherSlots(info) = front \o rest
    BY DEF GatherSlots, IndexCount
  <1>2. front = [p \in 1 .. indices |-> front[p]]
    OBVIOUS
  <1>3. IsSeq(rest)
    <2>1. IsSeq(<<>>)
      BY DEF IsSeq
    <2> HIDE DEF permuted
    <2> QED
      BY <2>1, PermSlotsFacts
  <1>4. \A p \in 1 .. indices : front[p] = IndexSlot(info.index[p])
    OBVIOUS
  <1>5. info.order = "DisOrder" /\ Vector > 4 /\ info.mask = 1 =>
          indices = 1 /\ rest = PermSlots(info.addr)
    BY DEF IndexCount
  <1> HIDE DEF indices, permuted, front, rest
  <1>6. IsSeq(front) /\ Len(front) = indices
    BY <1>2, FunctionIsSeq DEF indices
  <1>7. PICK S : front \in Seq(S)
    BY <1>6 DEF IsSeq
  <1>8. PICK T : rest \in Seq(T)
    BY <1>3 DEF IsSeq
  <1>9. front \in Seq(S \cup T) /\ rest \in Seq(S \cup T)
    BY <1>7, <1>8
  <1>10. \A p \in 1 .. indices : (front \o rest)[p] = front[p]
    BY <1>6, <1>9
  <1>11. indices = 1 => Tail(front \o rest) = rest
    <2> SUFFICES ASSUME indices = 1 PROVE Tail(front \o rest) = rest
      OBVIOUS
    <2>1. Len(front) = 1
      BY <1>6
    <2> DEFINE s == front \o rest
    <2>2. s \in Seq(S \cup T) /\ Len(s) = Len(rest) + 1 /\ Len(rest) \in Nat
      <3>1. s \in Seq(S \cup T) /\ Len(s) = Len(front) + Len(rest)
        BY <1>9
      <3>2. Len(rest) \in Nat
        BY <1>9
      <3> HIDE DEF s
      <3> QED
        BY <2>1, <3>1, <3>2
    <2>6. ASSUME NEW p \in 1 .. Len(rest) PROVE s[p + 1] = rest[p]
      <3> HIDE DEF s
      <3>1. p + 1 \in 1 .. Len(front) + Len(rest) /\ p + 1 > Len(front) /\ p + 1 - Len(front) = p
        BY <2>1, <2>2
      <3>2. s[p + 1] = rest[p + 1 - Len(front)]
        BY <1>9, <3>1 DEF s
      <3> QED
        BY <3>1, <3>2
    <2> HIDE DEF s
    <2>3. Tail(s) \in Seq(S \cup T) /\ Len(Tail(s)) = Len(rest)
      BY <2>2
    <2>4. \A p \in 1 .. Len(rest) : Tail(s)[p] = rest[p]
      BY <2>2, <2>6
    <2>5. Tail(s) = rest
      BY <1>9, <2>3, <2>4
    <2> QED
      BY <2>5 DEF s
  <1> QED
    BY <1>1, <1>4, <1>5, <1>10, <1>11 DEF indices

\* The element a lane is filled with.
LEMMA GatheredLane ==
  ASSUME NEW code, NEW slots, NEW l \in Lane
  PROVE  /\ code.order = "OrderEquel" => GatheredFrom(code, slots)[l] = Index(slots[1])
         /\ code.order = "IncContinue" =>
              GatheredFrom(code, slots)[l] = Index(slots[1]) + LaneSource(code.mask, l)
         /\ LoadsBlock(code) =>
              GatheredFrom(code, slots)[l]
                = Index(slots[1]) + (IF Vector = 4 THEN Nibble(code.mask, l)
                                                   ELSE Perm(Tail(slots))[l])
         /\ code.order = "DisOrder" /\ ~LoadsBlock(code) =>
              GatheredFrom(code, slots)[l] = Index(slots[l + 1])
  <1> DEFINE base == Index(slots[1])
             perm == IF Vector = 4 THEN [k \in Lane |-> Nibble(code.mask, k)]
                                   ELSE Perm(Tail(slots))
  <1>1. GatheredFrom(code, slots)[l] =
        CASE code.order = "OrderEquel"  -> base
          [] code.order = "IncContinue" -> base + LaneSource(code.mask, l)
          [] LoadsBlock(code)           -> base + perm[l]
          [] OTHER                      -> Index(slots[l + 1])
    BY DEF GatheredFrom
  <1>2. LoadsBlock(code) => code.order = "DisOrder"
    BY DEF LoadsBlock
  <1>3. perm[l] = IF Vector = 4 THEN Nibble(code.mask, l) ELSE Perm(Tail(slots))[l]
    OBVIOUS
  <1> HIDE DEF base, perm
  <1>4. code.order = "OrderEquel" => GatheredFrom(code, slots)[l] = base
    BY <1>1, <1>2
  <1>5. code.order = "IncContinue" =>
          GatheredFrom(code, slots)[l] = base + LaneSource(code.mask, l)
    BY <1>1, <1>2
  <1>6. LoadsBlock(code) => GatheredFrom(code, slots)[l] = base + perm[l]
    BY <1>1, <1>2
  <1>7. code.order = "DisOrder" /\ ~LoadsBlock(code) =>
          GatheredFrom(code, slots)[l] = Index(slots[l + 1])
    BY <1>1, <1>2
  <1> QED
    BY <1>3, <1>4, <1>5, <1>6, <1>7 DEF base

\* Every lane is filled with the element that its index names, whatever the
\* order of the chunk (OptimizationPass::pass_(Gather)).
THEOREM GatheredIsIndex ==
  ASSUME NEW ix \in [Lane -> Nat]
  PROVE  GatheredFrom(ColumnCode(GatherInfo(ix)), GatherSlots(GatherInfo(ix))) = ix
  <1> DEFINE info == GatherInfo(ix)
             code == ColumnCode(info)
             slots == GatherSlots(info)
             from == GatheredFrom(code, slots)
  <1> SUFFICES ASSUME NEW l \in Lane PROVE from[l] = ix[l]
    <2>1. from = [l \in Lane |-> from[l]]
      BY DEF GatheredFrom
    <2> HIDE DEF from
    <2>2. (\A l \in Lane : from[l] = ix[l]) => from = ix
      BY <2>1
    <2> QED
      BY <2>2 DEF from, slots, code, info
  <1>1. code.order = info.order /\ code.mask = info.mask
    BY DEF ColumnCode
  <1>2. l \in 0 .. Vector - 1 /\ ix[l] \in Nat /\ ix[0] \in Nat
    BY VectorAssumption DEF Lane
  <1>3. CASE OrderOf(ix) # "DisOrder"
    <2>1. info = OrderedInfo(ix) /\ info.order = OrderOf(ix) /\ info.index = <<ix[0]>>
      BY <1>3 DEF GatherInfo, OrderedInfo
    <2>2. slots[1] = IndexSlot(ix[0])
      <3>1. IndexCount(info) = 1
        BY <1>3, <2>1 DEF IndexCount
      <3> HIDE DEF info
      <3> QED
        BY <2>1, <3>1, SlotsLaidOut
    <2>3. Index(slots[1]) = ix[0]
      BY <2>2 DEF Index, IndexSlot
    <2>4. CASE OrderOf(ix) = "OrderEquel"
      <3> HIDE DEF info, code, slots, from
      <3>1. from[l] = ix[0]
        BY <1>1, <2>1, <2>3, <2>4, GatheredLane DEF from
      <3> QED
        BY <2>4, <3>1, OneIndex
    <2>5. CASE OrderOf(ix) = "IncContinue"
      <3>1. LanesIn(info.mask) = Heads(ix) /\ Heads(ix) \in SUBSET Lane
        BY <2>1, <2>5, MaskIsHeads
      <3> HIDE DEF info, code, slots, from
      <3>2. from[l] = ix[0] + LaneSource(info.mask, l)
        BY <1>1, <2>1, <2>3, <2>5, GatheredLane DEF from
      <3>3. LaneSource(info.mask, l) = Cardinality(UpTo(Heads(ix), l)) - 1
        BY <3>1 DEF LaneSource, UpTo
      <3>4. ix[l] = ix[0] + Cardinality(UpTo(Heads(ix), l)) - 1
        BY <2>5, IndexOfLane
      <3>5. Cardinality(UpTo(Heads(ix), l)) \in Nat
        BY <3>1, UpToStep
      <3> QED
        BY <1>2, <3>2, <3>3, <3>4, <3>5
    <2> QED
      BY <1>3, <2>4, <2>5, OrderIsOne
  <1> DEFINE addr == [k \in Lane |-> ix[k] - Lowest(ix)]
  <1>4. CASE OrderOf(ix) = "DisOrder" /\ InOneBlock(ix)
    <2>1. info = [order |-> "DisOrder", mask |-> IF Vector > 4 THEN 1 ELSE Packed(addr),
                  index |-> <<Lowest(ix)>>, addr |-> addr]
      BY <1>4 DEF GatherInfo
    <2>2. Lowest(ix) \in Nat /\ addr[l] = ix[l] - Lowest(ix) /\ Lowest(ix) + addr[l] = ix[l]
      BY <1>2, LowestIsLeast
    <2>3. CASE Vector = 4
      <3>1. \A k \in 0 .. 3 : addr[k] \in 0 .. 3
        <4>1. \A k \in 0 .. 3 : k \in Lane
          BY <2>3 DEF Lane
        <4>2. \A k \in Lane : ix[k] \in Nat /\ Lowest(ix) <= ix[k] /\ ix[k] < Lowest(ix) + 4
          BY <1>4, <2>3, LowestIsLeast DEF InOneBlock
        <4>3. \A k \in 0 .. 3 : addr[k] = ix[k] - Lowest(ix)
          BY <4>1
        <4> HIDE DEF addr
        <4> QED
          BY <2>2, <4>1, <4>2, <4>3
      <3> HIDE DEF addr
      <3>2. Nibble(Packed(addr), l) = addr[l]
        BY <1>2, <2>3, <3>1, PackedNibbles
      <3>3. info.order = "DisOrder" /\ info.mask = Packed(addr) /\ info.index = <<Lowest(ix)>>
        BY <2>1, <2>3
      <3>8. info.mask # 4
        <4>1. addr[0] \in 0 .. 3 /\ addr[1] \in 0 .. 3 /\ addr[2] \in 0 .. 3 /\ addr[3] \in 0 .. 3
          BY <3>1
        <4>2. Packed(addr) = addr[0] + 16 * addr[1] + 256 * addr[2] + 4096 * addr[3]
          BY <3>1, PackedRange
        <4> QED
          BY <3>3, <4>1, <4>2
      <3>4. slots[1] = IndexSlot(Lowest(ix))
        <4>1. IndexCount(info) = 1
          BY <2>3, <3>3, <3>8 DEF IndexCount
        <4> HIDE DEF info
        <4> QED
          BY <3>3, <4>1, SlotsLaidOut
      <3>5. Index(slots[1]) = Lowest(ix)
        BY <3>4 DEF Index, IndexSlot
      <3>6. LoadsBlock(code)
        BY <1>1, <2>3, <3>3, <3>8 DEF LoadsBlock
      <3> HIDE DEF info, code, slots, from
      <3>7. from[l] = Lowest(ix) + Nibble(Packed(addr), l)
        BY <1>1, <2>3, <3>3, <3>5, <3>6, GatheredLane DEF from
      <3> QED
        BY <2>2, <3>2, <3>7
    <2>4. CASE Vector > 4
      <3> HIDE DEF addr
      <3>1. /\ info.order = "DisOrder" /\ info.mask = 1 /\ info.index = <<Lowest(ix)>>
            /\ info.addr = addr
        BY <2>1, <2>4
      <3>2. IndexCount(info) = 1
        BY <2>4, <3>1 DEF IndexCount
      <3>3. slots[1] = IndexSlot(Lowest(ix)) /\ Tail(slots) = PermSlots(addr)
        <4> HIDE DEF info
        <4> QED
          BY <2>4, <3>1, <3>2, SlotsLaidOut
      <3>4. Index(slots[1]) = Lowest(ix)
        BY <3>3 DEF Index, IndexSlot
      <3>5. LoadsBlock(code)
        BY <1>1, <3>1 DEF LoadsBlock
      <3> HIDE DEF info, code, slots, from
      <3>7. Vector # 4
        BY <2>4
      <3>8. GatheredFrom(code, slots)[l]
              = Index(slots[1]) + (IF Vector = 4 THEN Nibble(code.mask, l)
                                                 ELSE Perm(Tail(slots))[l])
        BY <3>5, GatheredLane, Zenon
      <3>6. from[l] = Lowest(ix) + Perm(PermSlots(addr))[l]
        BY <3>3, <3>4, <3>7, <3>8 DEF from
      <3> QED
        BY <2>2, <3>6, PermIsAddr
    <2> QED
      BY <2>3, <2>4, VectorAssumption
  <1>5. CASE OrderOf(ix) = "DisOrder" /\ ~InOneBlock(ix)
    <2>1. /\ info.order = "DisOrder" /\ info.mask = Vector
          /\ info.index = [p \in 1 .. Vector |-> ix[p - 1]]
      BY <1>5 DEF GatherInfo, AllIndices
    <2>2. slots[l + 1] = IndexSlot(ix[l])
      <3>1. IndexCount(info) = Vector
        BY <2>1, VectorAssumption DEF IndexCount
      <3>2. l + 1 \in 1 .. Vector /\ info.index[l + 1] = ix[l]
        BY <1>2, <2>1, VectorAssumption
      <3> HIDE DEF info
      <3> QED
        BY <3>1, <3>2, SlotsLaidOut, VectorAssumption
    <2>3. Index(slots[l + 1]) = ix[l]
      BY <2>2 DEF Index, IndexSlot
    <2>4. code.order = "DisOrder" /\ ~LoadsBlock(code)
      BY <1>1, <2>1, VectorAssumption DEF LoadsBlock
    <2> HIDE DEF info, code, slots, from
    <2>5. from[l] = Index(slots[l + 1])
      BY <2>4, GatheredLane DEF from
    <2> QED
      BY <2>3, <2>5
  <1> QED
    BY <1>3, <1>4, <1>5, OrderIsOne

-----------------------------------------------------------------------------
(***************************************************************************)
(* Bags of different terms                                                 *)
(***************************************************************************)
\* Adding bags of different terms is the union of the terms.
LEMMA BagsApart ==
  ASSUME NEW S, NEW T, S \cap T = {}
  PROVE  SetToBag(S) (+) SetToBag(T) = SetToBag(S \cup T)
  BY DEF SetToBag, (+)

\* Adding no terms changes nothing.
LEMMA AddNothing ==
  ASSUME NEW S
  PROVE  EmptyBag (+) SetToBag(S) = SetToBag(S)
  <1>1. SetToBag({}) (+) SetToBag(S) = SetToBag({} \cup S)
    BY BagsApart
  <1>2. {} \cup S = S
    OBVIOUS
  <1> QED
    BY <1>1, <1>2 DEF EmptyBag

\* The terms T[m] of the lanes m of D.
TermsOf(T, D) == UNION {T[m] : m \in D}

\* No two lanes hold one term.
Apart(T) == \A l, m \in Lane : l # m => T[l] \cap T[m] = {}

\* The terms of two sets of lanes.
LEMMA TermsApart ==
  ASSUME NEW T, Apart(T), NEW D \in SUBSET Lane, NEW E \in SUBSET Lane, D \cap E = {}
  PROVE  SetToBag(TermsOf(T, D)) (+) SetToBag(TermsOf(T, E)) = SetToBag(TermsOf(T, D \cup E))
  <1>1. TermsOf(T, D) \cap TermsOf(T, E) = {}
    BY DEF TermsOf, Apart
  <1>2. TermsOf(T, D) \cup TermsOf(T, E) = TermsOf(T, D \cup E)
    BY DEF TermsOf
  <1> QED
    BY <1>1, <1>2, BagsApart

-----------------------------------------------------------------------------
(***************************************************************************)
(* Adding up by pairs.  The tree of Bit2Addr and the rounds of an          *)
(* unordered chunk both rank the lanes of a row: at level w a lane whose   *)
(* rank is a multiple of 2 * w takes in the lane w ranks further.          *)
(***************************************************************************)
\* rank numbers the lanes of one row from 0, without a gap.
Ranked(row, rank) ==
  /\ rank \in [Lane -> 0 .. 15]
  /\ \A l, m \in Lane : row[l] = row[m] /\ rank[l] = rank[m] => l = m
  /\ \A l \in Lane : \A q \in 0 .. rank[l] : \E m \in Lane : row[m] = row[l] /\ rank[m] = q

\* The lanes of a row whose rank is that of l or up to w - 1 higher.
Span(row, rank, l, w) ==
  {m \in Lane : row[m] = row[l] /\ rank[l] <= rank[m] /\ rank[m] < rank[l] + w}

\* What the lanes hold when w ranks have been added up.
Holds(row, rank, T, w, lanes) ==
  \A l \in Lane : rank[l] % w = 0 => lanes[l] = SetToBag(TermsOf(T, Span(row, rank, l, w)))

\* addr tells every lane of the next level its partner.
PairsUp(row, rank, w, addr) ==
  \A l \in Lane : rank[l] % (2 * w) = 0 =>
    \/ /\ addr[l] \in Lane
       /\ row[addr[l]] = row[l]
       /\ rank[addr[l]] = rank[l] + w
    \/ /\ addr[l] = Vector
       /\ \A m \in Lane : row[m] = row[l] => rank[m] # rank[l] + w

\* Multiples of the width of the next level.
LEMMA Multiples ==
  ASSUME NEW w \in {1, 2, 4, 8}, NEW p \in 0 .. 15, p % (2 * w) = 0
  PROVE  p % w = 0 /\ (p + w) % w = 0
  <1>1. CASE w = 1
    BY <1>1
  <1>2. CASE w = 2
    BY <1>2
  <1>3. CASE w = 4
    BY <1>3
  <1>4. CASE w = 8
    BY <1>4
  <1> QED
    BY <1>1, <1>2, <1>3, <1>4

\* One shuffle and one addition bring the lanes to the next level.
LEMMA NextLevel ==
  ASSUME NEW row, NEW rank, Ranked(row, rank), NEW T, Apart(T), NEW w \in {1, 2, 4, 8},
         NEW lanes, Holds(row, rank, T, w, lanes), NEW addr, PairsUp(row, rank, w, addr)
  PROVE  Holds(row, rank, T, 2 * w, AddLanes(Shuffle(lanes, addr), lanes))
  <1> SUFFICES ASSUME NEW l \in Lane, rank[l] % (2 * w) = 0
               PROVE  AddLanes(Shuffle(lanes, addr), lanes)[l]
                        = SetToBag(TermsOf(T, Span(row, rank, l, 2 * w)))
    BY DEF Holds
  <1>1. /\ AddLanes(Shuffle(lanes, addr), lanes)[l]
             = (IF addr[l] = Vector THEN EmptyBag ELSE lanes[addr[l]]) (+) lanes[l]
        /\ Vector \notin Lane
    BY VectorAssumption DEF AddLanes, Shuffle, Lane
  <1>2. \A m \in Lane : rank[m] \in 0 .. 15
    BY DEF Ranked
  <1>3. rank[l] % w = 0 /\ (rank[l] + w) % w = 0 /\ w \in Nat
    <2>1. rank[l] \in 0 .. 15
      BY <1>2
    <2>2. rank[l] % w = 0 /\ (rank[l] + w) % w = 0
      BY <2>1, Multiples, Zenon
    <2> QED
      BY <2>2
  <1> DEFINE near == Span(row, rank, l, w)
             both == Span(row, rank, l, 2 * w)
  <1>4. lanes[l] = SetToBag(TermsOf(T, near))
    BY <1>3 DEF Holds
  <1>5. CASE addr[l] # Vector
    <2> DEFINE m == addr[l]
               far == Span(row, rank, m, w)
    <2>1. m \in Lane /\ row[m] = row[l] /\ rank[m] = rank[l] + w
      BY <1>5 DEF PairsUp
    <2>2. lanes[m] = SetToBag(TermsOf(T, far))
      <3> HIDE DEF m
      <3> QED
        BY <1>3, <2>1 DEF Holds
    <2> HIDE DEF m
    <2>3. far \cap near = {} /\ far \cup near = both
      <3>1. ASSUME NEW k \in Lane
            PROVE  /\ ~(rank[m] <= rank[k] /\ rank[k] < rank[l] + w)
                   /\ (\/ rank[m] <= rank[k] /\ rank[k] < rank[m] + w
                       \/ rank[l] <= rank[k] /\ rank[k] < rank[l] + w)
                      <=> (rank[l] <= rank[k] /\ rank[k] < rank[l] + 2 * w)
        <4>1. rank[k] \in Int /\ rank[l] \in Int /\ rank[m] \in Int
          BY <1>2, <2>1
        <4> QED
          BY <1>3, <2>1, <4>1
      <3> QED
        BY <2>1, <3>1 DEF Span
    <2>4. far \in SUBSET Lane /\ near \in SUBSET Lane
      BY DEF Span
    <2> HIDE DEF far, near, both
    <2>5. SetToBag(TermsOf(T, far)) (+) SetToBag(TermsOf(T, near)) = SetToBag(TermsOf(T, both))
      BY <2>3, <2>4, TermsApart
    <2>6. AddLanes(Shuffle(lanes, addr), lanes)[l] = lanes[m] (+) lanes[l]
      BY <1>1, <1>5 DEF m
    <2> QED
      BY <1>4, <2>2, <2>5, <2>6 DEF both
  <1>6. CASE addr[l] = Vector
    <2>1. \A m \in Lane : row[m] = row[l] => rank[m] # rank[l] + w
      BY <1>1, <1>6 DEF PairsUp
    <2>2. ASSUME NEW m \in Lane, row[m] = row[l] PROVE rank[m] < rank[l] + w
      <3>0. rank[m] \in Nat /\ rank[l] \in Nat
        BY <1>2
      <3> SUFFICES ASSUME rank[m] >= rank[l] + w PROVE FALSE
        BY <1>3, <3>0
      <3>1. rank[l] + w \in 0 .. rank[m]
        BY <1>3, <3>0
      <3>2. PICK k \in Lane : row[k] = row[m] /\ rank[k] = rank[l] + w
        BY <3>1 DEF Ranked
      <3> QED
        BY <2>1, <2>2, <3>2
    <2>3. both = near
      <3>1. ASSUME NEW m \in Lane, row[m] = row[l]
            PROVE  rank[m] < rank[l] + w /\ rank[m] < rank[l] + 2 * w
        <4>1. rank[m] \in Nat /\ rank[l] \in Nat /\ rank[m] < rank[l] + w
          BY <1>2, <2>2, <3>1
        <4> QED
          BY <1>3, <4>1
      <3> QED
        BY <3>1 DEF Span
    <2> HIDE DEF near, both
    <2>4. EmptyBag (+) lanes[l] = lanes[l]
      BY <1>4, AddNothing
    <2> QED
      BY <1>1, <1>4, <1>6, <2>3, <2>4 DEF both
  <1> QED
    BY <1>5, <1>6


\* n levels: addrs[d] holds the partners at level d.
Shuffled(f, n, addrs, lanes) ==
  f = [d \in 0 .. n |-> IF d = 0 THEN lanes
                        ELSE AddLanes(Shuffle(f[d - 1], addrs[d - 1]), f[d - 1])]

\* The recursion has a solution.
LEMMA ShuffledExists ==
  ASSUME NEW n \in Nat, NEW addrs, NEW lanes
  PROVE  \E f : Shuffled(f, n, addrs, lanes)
  <1> DEFINE N == {k \in Nat : \E f : Shuffled(f, k, addrs, lanes)}
  <1>1. 0 \in N
    <2>1. Shuffled([d \in 0 .. 0 |-> lanes], 0, addrs, lanes)
      <3>1. \A d \in 0 .. 0 : d = 0
        OBVIOUS
      <3> QED
        BY <3>1 DEF Shuffled
    <2> QED
      BY <2>1
  <1>2. ASSUME NEW k \in Nat, k \in N
        PROVE  k + 1 \in N
    <2>1. PICK f : Shuffled(f, k, addrs, lanes)
      BY <1>2
    <2> DEFINE Next1(h, d) == AddLanes(Shuffle(h[d - 1], addrs[d - 1]), h[d - 1])
               g == [d \in 0 .. k + 1 |-> IF d = k + 1 THEN Next1(f, k + 1) ELSE f[d]]
    <2>2. f = [d \in 0 .. k |-> IF d = 0 THEN lanes ELSE Next1(f, d)]
      BY <2>1 DEF Shuffled
    <2>3. ASSUME NEW d \in 0 .. k + 1
          PROVE  g[d] = IF d = 0 THEN lanes ELSE Next1(g, d)
      <3>1. CASE d = k + 1
        <4>1. d # 0 /\ d - 1 = k /\ k \in 0 .. k + 1 /\ k # k + 1
          BY <3>1
        <4>2. g[d] = Next1(f, k + 1) /\ g[k] = f[k]
          BY <3>1, <4>1
        <4> HIDE DEF g
        <4>3. Next1(g, d) = Next1(f, k + 1)
          BY <3>1, <4>1, <4>2
        <4> QED
          BY <4>1, <4>2, <4>3
      <3>2. CASE d # k + 1
        <4>1. d \in 0 .. k /\ (d # 0 => d - 1 \in 0 .. k + 1 /\ d - 1 # k + 1)
          BY <3>2
        <4>2. g[d] = f[d] /\ (d # 0 => g[d - 1] = f[d - 1])
          BY <3>2, <4>1
        <4>3. f[d] = IF d = 0 THEN lanes ELSE Next1(f, d)
          BY <2>2, <4>1
        <4> HIDE DEF g
        <4> QED
          BY <4>2, <4>3
      <3> QED
        BY <3>1, <3>2
    <2>4. g = [d \in 0 .. k + 1 |-> g[d]]
      OBVIOUS
    <2> HIDE DEF g
    <2>5. g = [d \in 0 .. k + 1 |-> IF d = 0 THEN lanes ELSE Next1(g, d)]
      BY <2>3, <2>4
    <2>6. Shuffled(g, k + 1, addrs, lanes)
      BY <2>5 DEF Shuffled
    <2> QED
      BY <2>6
  <1> HIDE DEF N
  <1>3. n \in N
    BY <1>1, <1>2, SetInduction
  <1> QED
    BY <1>3 DEF N

\* The widths of the levels.
LEMMA LevelWidth ==
  ASSUME NEW d \in 0 .. 3
  PROVE  Pow(d) \in {1, 2, 4, 8} /\ Pow(d + 1) = 2 * Pow(d) /\ Pow(0) = 1
  <1>1. d \in 0 .. 16 /\ d + 1 \in 0 .. 16 /\ 0 \in 0 .. 16
    OBVIOUS
  <1>2. PowerKnown(d) /\ PowerKnown(d + 1) /\ PowerKnown(0)
    BY <1>1, PowerTable
  <1> QED
    BY <1>2 DEF PowerKnown

\* If the partners are right at every level, so is what the lanes hold.
LEMMA EveryLevel ==
  ASSUME NEW row, NEW rank, Ranked(row, rank), NEW T, Apart(T),
         NEW lanes, \A l \in Lane : lanes[l] = SetToBag(T[l]),
         NEW n \in 0 .. 4, NEW addrs, \A d \in 0 .. n - 1 : PairsUp(row, rank, Pow(d), addrs[d]),
         NEW f, Shuffled(f, n, addrs, lanes)
  PROVE  Holds(row, rank, T, Pow(n), f[n])
  <1> DEFINE N == {d \in Nat : d <= n => Holds(row, rank, T, Pow(d), f[d])}
  <1>1. 0 \in N
    <2>1. f[0] = lanes
      BY DEF Shuffled
    <2>2. Pow(0) = 1
      BY LevelWidth
    <2>3. ASSUME NEW l \in Lane
          PROVE  lanes[l] = SetToBag(TermsOf(T, Span(row, rank, l, 1)))
      <3>1. Span(row, rank, l, 1) = {l}
        <4>1. \A m \in Lane : rank[m] \in 0 .. 15
          BY DEF Ranked
        <4>2. \A m \in Lane : rank[l] <= rank[m] /\ rank[m] < rank[l] + 1 <=> rank[l] = rank[m]
          BY <4>1
        <4> QED
          BY <4>2 DEF Span, Ranked
      <3>2. TermsOf(T, {l}) = T[l]
        BY DEF TermsOf
      <3> QED
        BY <3>1, <3>2
    <2> QED
      BY <2>1, <2>2, <2>3 DEF Holds
  <1>2. ASSUME NEW d \in Nat, d \in N
        PROVE  d + 1 \in N
    <2> SUFFICES ASSUME d + 1 <= n PROVE Holds(row, rank, T, Pow(d + 1), f[d + 1])
      OBVIOUS
    <2>1. d \in 0 .. 3 /\ d \in 0 .. n - 1 /\ d + 1 \in 0 .. n /\ d + 1 # 0 /\ (d + 1) - 1 = d
      OBVIOUS
    <2>2. f[d + 1] = AddLanes(Shuffle(f[d], addrs[d]), f[d])
      BY <2>1 DEF Shuffled
    <2>3. Holds(row, rank, T, Pow(d), f[d])
      BY <1>2, <2>1
    <2>4. Pow(d) \in {1, 2, 4, 8} /\ Pow(d + 1) = 2 * Pow(d)
      BY <2>1, LevelWidth
    <2>5. PairsUp(row, rank, Pow(d), addrs[d])
      BY <2>1
    <2> QED
      BY <2>2, <2>3, <2>4, <2>5, NextLevel
  <1> HIDE DEF N
  <1>3. n \in N /\ n <= n
    BY <1>1, <1>2, SetInduction
  <1> QED
    BY <1>3 DEF N

\* n levels reach every rank.
Reaches(rank, n) == \A m \in Lane : rank[m] < Pow(n)

\* The lanes of the row of l.
RowMates(row, l) == {m \in Lane : row[m] = row[l]}

\* When the levels span the rows, the first lane of a row holds all its terms.
LEMMA RowHeld ==
  ASSUME NEW row, NEW rank, Ranked(row, rank), NEW T, NEW n \in 0 .. 4, NEW lanes,
         Holds(row, rank, T, Pow(n), lanes), Reaches(rank, n),
         NEW l \in Lane, rank[l] = 0
  PROVE  lanes[l] = SetToBag(TermsOf(T, RowMates(row, l)))
  <1>1. Pow(n) \in {1, 2, 4, 8, 16}
    <2>1. n \in 0 .. 16
      OBVIOUS
    <2>2. PowerKnown(n)
      BY <2>1, PowerTable
    <2> QED
      BY <2>2 DEF PowerKnown
  <1>2. 0 % Pow(n) = 0
    BY <1>1
  <1>3. \A m \in Lane : rank[m] \in Nat
    BY DEF Ranked
  <1>4. Span(row, rank, l, Pow(n)) = RowMates(row, l)
    BY <1>1, <1>3 DEF Span, Reaches, RowMates
  <1>5. lanes[l] = SetToBag(TermsOf(T, Span(row, rank, l, Pow(n))))
    BY <1>2, Zenon DEF Holds
  <1> QED
    BY <1>4, <1>5

-----------------------------------------------------------------------------
(***************************************************************************)
(* The tree of Bit2Addr                                                    *)
(***************************************************************************)
\* The run of a lane starts at the last head up to it.
LEMMA HeadFacts ==
  ASSUME NEW mask, 0 \in LanesIn(mask), NEW l \in Lane
  PROVE  /\ HeadOf(mask, l) \in LanesIn(mask) /\ HeadOf(mask, l) \in Lane
         /\ HeadOf(mask, l) <= l
         /\ \A h \in LanesIn(mask) : h <= l => h <= HeadOf(mask, l)
  <1> DEFINE S == {h \in LanesIn(mask) : h <= l}
  <1>1. Lane \subseteq Nat /\ LanesIn(mask) \subseteq Lane
    BY DEF Lane, LanesIn
  <1>2. S \in SUBSET Nat /\ 0 \in S /\ l \in Nat /\ \A x \in S : x <= l
    <2>1. l \in Nat /\ 0 <= l
      BY DEF Lane
    <2> QED
      BY <1>1, <2>1
  <1>3. HeadOf(mask, l) = Max(S)
    BY DEF HeadOf
  <1>4. Max(S) \in S /\ \A x \in S : x <= Max(S)
    <2> HIDE DEF S
    <2> QED
      BY <1>2, GreatestElement
  <1> HIDE DEF S
  <1>5. HeadOf(mask, l) \in S /\ \A x \in S : x <= HeadOf(mask, l)
    BY <1>3, <1>4
  <1> QED
    BY <1>1, <1>5 DEF S

\* All lanes from the head on are in the run of the head.
LEMMA HeadBetween ==
  ASSUME NEW mask, 0 \in LanesIn(mask), NEW l \in Lane, NEW m \in Lane,
         HeadOf(mask, l) <= m, m <= l
  PROVE  HeadOf(mask, m) = HeadOf(mask, l)
  <1>1. /\ HeadOf(mask, l) \in LanesIn(mask) /\ HeadOf(mask, l) \in Lane
        /\ \A h \in LanesIn(mask) : h <= l => h <= HeadOf(mask, l)
    BY HeadFacts
  <1>2. /\ HeadOf(mask, m) \in LanesIn(mask) /\ HeadOf(mask, m) \in Lane
        /\ HeadOf(mask, m) <= m
        /\ \A h \in LanesIn(mask) : h <= m => h <= HeadOf(mask, m)
    BY HeadFacts
  <1>3. HeadOf(mask, l) \in Int /\ HeadOf(mask, m) \in Int /\ m \in Int /\ l \in Int
    BY <1>1, <1>2 DEF Lane
  <1>4. HeadOf(mask, l) <= HeadOf(mask, m)
    BY <1>1, <1>2
  <1>5. HeadOf(mask, m) <= l
    BY <1>2, <1>3
  <1>6. HeadOf(mask, m) <= HeadOf(mask, l)
    BY <1>1, <1>2, <1>5
  <1> QED
    BY <1>3, <1>4, <1>6

\* A head is the head of its own run.
LEMMA HeadOfHead ==
  ASSUME NEW mask, 0 \in LanesIn(mask), NEW h \in LanesIn(mask)
  PROVE  h \in Lane /\ HeadOf(mask, h) = h
  <1>1. h \in Lane /\ Lane \subseteq Int
    BY DEF Lane, LanesIn
  <1>2. /\ HeadOf(mask, h) \in Lane /\ HeadOf(mask, h) <= h
        /\ \A g \in LanesIn(mask) : g <= h => g <= HeadOf(mask, h)
    BY <1>1, HeadFacts
  <1>3. h \in Int /\ HeadOf(mask, h) \in Int /\ h <= h
    <2>1. h \in Int /\ HeadOf(mask, h) \in Int
      BY <1>1, <1>2
    <2> QED
      BY <2>1
  <1>4. h <= HeadOf(mask, h)
    BY <1>2, <1>3
  <1> QED
    BY <1>1, <1>2, <1>3, <1>4

\* The runs as rows, and the places in them as ranks.
RunOf(mask) == [l \in Lane |-> HeadOf(mask, l)]
PlaceOf(mask) == [l \in Lane |-> l - HeadOf(mask, l)]

\* The places in a run have no gap.
LEMMA RunsRanked ==
  ASSUME NEW mask, 0 \in LanesIn(mask)
  PROVE  Ranked(RunOf(mask), PlaceOf(mask))
  <1>1. Lane \subseteq 0 .. 15
    BY VectorAssumption DEF Lane
  <1>2. \A l \in Lane : HeadOf(mask, l) \in Lane /\ HeadOf(mask, l) <= l
    BY HeadFacts
  <1>3. PlaceOf(mask) \in [Lane -> 0 .. 15]
    <2>1. ASSUME NEW l \in Lane PROVE l - HeadOf(mask, l) \in 0 .. 15
      <3>1. l \in 0 .. 15 /\ HeadOf(mask, l) \in 0 .. 15 /\ HeadOf(mask, l) <= l
        BY <1>1, <1>2
      <3> QED
        BY <3>1
    <2> QED
      BY <2>1 DEF PlaceOf
  <1>4. ASSUME NEW l \in Lane, NEW m \in Lane,
               RunOf(mask)[l] = RunOf(mask)[m], PlaceOf(mask)[l] = PlaceOf(mask)[m]
        PROVE  l = m
    <2>1. HeadOf(mask, l) = HeadOf(mask, m) /\ l - HeadOf(mask, l) = m - HeadOf(mask, m)
      BY <1>4 DEF RunOf, PlaceOf
    <2>2. l \in Int /\ m \in Int /\ HeadOf(mask, l) \in Int
      <3>1. HeadOf(mask, l) \in Lane
        BY <1>2
      <3> QED
        BY <3>1 DEF Lane
    <2> QED
      BY <2>1, <2>2
  <1>5. ASSUME NEW l \in Lane, NEW q \in 0 .. PlaceOf(mask)[l]
        PROVE  \E m \in Lane : RunOf(mask)[m] = RunOf(mask)[l] /\ PlaceOf(mask)[m] = q
    <2> DEFINE h == HeadOf(mask, l)
    <2>1. h \in Int /\ l \in Int /\ 0 <= h /\ h <= l /\ PlaceOf(mask)[l] = l - h /\ l <= Vector - 1
      BY <1>1, <1>2 DEF PlaceOf, Lane
    <2>2. h + q \in Lane /\ h <= h + q /\ h + q <= l /\ (h + q) - h = q
      <3> HIDE DEF h
      <3> QED
        BY <2>1, VectorAssumption DEF Lane
    <2>3. HeadOf(mask, h + q) = h
      BY <2>2, HeadBetween
    <2> HIDE DEF h
    <2>4. RunOf(mask)[h + q] = h /\ PlaceOf(mask)[h + q] = q
      BY <2>2, <2>3 DEF RunOf, PlaceOf
    <2> QED
      BY <2>2, <2>4 DEF h, RunOf
  <1> QED
    BY <1>3, <1>4, <1>5 DEF Ranked

\* The followers of a head are the lanes up to the end of its run.
LEMMA FollowersFacts ==
  ASSUME NEW mask, 0 \in LanesIn(mask), NEW h \in LanesIn(mask)
  PROVE  \E top \in Lane : /\ h <= top
                           /\ \A m \in Lane : HeadOf(mask, m) = h <=> h <= m /\ m <= top
                           /\ Cardinality(Followers(mask, h)) = top - h
  <1> DEFINE S == {m \in Lane : HeadOf(mask, m) = h}
             top == Max(S)
  <1>1. h \in S /\ h \in Lane
    BY HeadOfHead
  <1>2. Lane \subseteq Nat /\ Vector - 1 \in Nat /\ \A m \in Lane : m <= Vector - 1
    BY VectorAssumption DEF Lane
  <1>3. top \in S /\ \A x \in S : x <= top
    <2>1. S \in SUBSET Nat /\ S # {} /\ \A x \in S : x <= Vector - 1
      BY <1>1, <1>2
    <2> HIDE DEF S
    <2> QED
      BY <1>2, <2>1, GreatestElement
  <1> HIDE DEF top
  <1>4. top \in Lane /\ HeadOf(mask, top) = h /\ h <= top
    BY <1>1, <1>3
  <1>5. ASSUME NEW m \in Lane
        PROVE  HeadOf(mask, m) = h <=> h <= m /\ m <= top
    <2>1. ASSUME HeadOf(mask, m) = h PROVE h <= m /\ m <= top
      BY <1>3, <2>1, HeadFacts
    <2>2. ASSUME h <= m, m <= top PROVE HeadOf(mask, m) = h
      BY <1>4, <2>2, HeadBetween
    <2> QED
      BY <2>1, <2>2
  <1>6. Followers(mask, h) = h + 1 .. top
    <2>1. top <= Vector - 1 /\ top \in Nat /\ h \in Nat /\ Vector \in Nat
      BY <1>1, <1>2, <1>4, VectorAssumption
    <2>2. \A m \in h + 1 .. top : m \in Lane /\ m > h /\ h <= m /\ m <= top
      BY <2>1 DEF Lane
    <2>3. \A m \in Lane : m > h /\ m <= top => m \in h + 1 .. top
      BY <1>2, <2>1
    <2>4. \A m \in Lane : m > h => h <= m
      BY <1>2, <2>1
    <2> QED
      BY <1>5, <2>2, <2>3, <2>4 DEF Followers
  <1>7. Cardinality(h + 1 .. top) = top - h
    <2>1. h + 1 \in Int /\ top \in Int /\ h <= top /\ h \in Int
      BY <1>1, <1>2, <1>4
    <2>2. Cardinality(h + 1 .. top) = IF h + 1 > top THEN 0 ELSE top - (h + 1) + 1
      BY <2>1, FS_Interval
    <2> QED
      BY <2>1, <2>2
  <1> QED
    BY <1>4, <1>5, <1>6, <1>7

\* A level of the tree pairs the lanes up.
LEMMA TreePairs ==
  ASSUME NEW mask, 0 \in LanesIn(mask), NEW d \in 0 .. 3
  PROVE  PairsUp(RunOf(mask), PlaceOf(mask), Pow(d), TreeLevel(mask, d))
  <1>1. Pow(d) \in {1, 2, 4, 8} /\ 2 ^ d = Pow(d) /\ 2 ^ (d + 1) = 2 * Pow(d)
    BY LevelWidth DEF Pow
  <1> DEFINE w == Pow(d)
             row == RunOf(mask)
             rank == PlaceOf(mask)
             addr == TreeLevel(mask, d)
  <1> SUFFICES ASSUME NEW l \in Lane, rank[l] % (2 * w) = 0
               PROVE  \/ /\ addr[l] \in Lane /\ row[addr[l]] = row[l] /\ rank[addr[l]] = rank[l] + w
                      \/ /\ addr[l] = Vector
                         /\ \A m \in Lane : row[m] = row[l] => rank[m] # rank[l] + w
    BY DEF PairsUp
  <1> DEFINE h == HeadOf(mask, l)
             extra == Cardinality(Followers(mask, h))
  <1>2. row[l] = h /\ rank[l] = l - h /\ h \in LanesIn(mask) /\ h \in Lane /\ h <= l
    BY HeadFacts DEF RunOf, PlaceOf
  <1>3. addr[l] = IF (l - h) % 2 ^ (d + 1) = 0 /\ (l - h) + 2 ^ d <= extra THEN l + 2 ^ d ELSE Vector
    BY DEF TreeLevel
  <1>4. PICK top \in Lane : /\ h <= top
                            /\ \A m \in Lane : HeadOf(mask, m) = h <=> h <= m /\ m <= top
                            /\ extra = top - h
    BY <1>2, FollowersFacts
  <1>5. \A m \in Lane : row[m] = HeadOf(mask, m) /\ rank[m] = m - HeadOf(mask, m)
    BY DEF RunOf, PlaceOf
  <1> HIDE DEF row, rank, addr, extra, h, w
  <1>6. l \in Nat /\ h \in Nat /\ top \in Nat /\ w \in Nat /\ top <= Vector - 1 /\ Vector \in Nat
    BY <1>1, <1>2, <1>4, VectorAssumption DEF Lane, w
  <1>7. addr[l] = IF (l - h) + w <= top - h THEN l + w ELSE Vector
    BY <1>1, <1>2, <1>3, <1>4 DEF w
  <1>8. CASE l + w <= top
    <2>1. addr[l] = l + w
      BY <1>6, <1>7, <1>8
    <2>2. l + w \in Lane /\ h <= l + w
      BY <1>2, <1>6, <1>8 DEF Lane
    <2>3. HeadOf(mask, l + w) = h
      BY <1>4, <1>8, <2>2
    <2>4. row[l + w] = h /\ rank[l + w] = (l + w) - h
      BY <1>5, <2>2, <2>3
    <2> QED
      BY <1>2, <1>6, <2>1, <2>2, <2>4
  <1>9. CASE ~(l + w <= top)
    <2>1. addr[l] = Vector
      BY <1>6, <1>7, <1>9
    <2>2. ASSUME NEW m \in Lane, row[m] = row[l]
          PROVE  rank[m] # rank[l] + w
      <3>1. HeadOf(mask, m) = h
        BY <1>2, <1>5, <2>2
      <3>2. m <= top /\ rank[m] = m - h /\ m \in Nat
        BY <1>4, <1>5, <3>1 DEF Lane
      <3> QED
        BY <1>2, <1>6, <1>9, <3>2
    <2> QED
      BY <2>1, <2>2
  <1> QED
    BY <1>8, <1>9

\* The tree is deep enough for every run.
LEMMA TreeIsDeep ==
  ASSUME NEW mask, 0 \in LanesIn(mask)
  PROVE  TreeDepth(mask) \in 0 .. 4 /\ Reaches(PlaceOf(mask), TreeDepth(mask))
  <1> DEFINE Counts == {Cardinality(Followers(mask, h)) : h \in LanesIn(mask)}
             longest == Max(Counts)
             Deep == {d \in 0 .. 4 : longest < 2 ^ d}
  <1>1. Lane \subseteq 0 .. 15
    BY VectorAssumption DEF Lane
  <1>2. ASSUME NEW h \in LanesIn(mask)
        PROVE  /\ Cardinality(Followers(mask, h)) \in 0 .. 15
               /\ \A m \in Lane : HeadOf(mask, m) = h => m - h <= Cardinality(Followers(mask, h))
    <2>1. PICK top \in Lane : /\ h <= top
                              /\ \A m \in Lane : HeadOf(mask, m) = h <=> h <= m /\ m <= top
                              /\ Cardinality(Followers(mask, h)) = top - h
      BY FollowersFacts
    <2>2. h \in 0 .. 15 /\ top \in 0 .. 15 /\ \A m \in Lane : m \in Int
      BY <1>1, <2>1 DEF LanesIn
    <2> QED
      BY <2>1, <2>2
  <1>3. Counts \in SUBSET Nat /\ Counts # {} /\ 15 \in Nat /\ \A x \in Counts : x <= 15
    BY <1>2
  <1>4. longest \in Counts /\ \A x \in Counts : x <= longest
    <2> HIDE DEF Counts
    <2> QED
      BY <1>3, GreatestElement
  <1>5. longest \in 0 .. 15
    BY <1>2, <1>4
  <1>6. 2 ^ 4 = 16
    OBVIOUS
  <1>7. TreeDepth(mask) = Min(Deep)
    BY DEF TreeDepth
  <1>8. Deep \in SUBSET Nat /\ 4 \in Deep
    BY <1>5, <1>6
  <1>9. Min(Deep) \in Deep
    <2> HIDE DEF Deep
    <2>1. PICK d \in Deep : \A e \in Deep : d <= e
      BY <1>8, LeastElement
    <2> QED
      BY <2>1 DEF Min
  <1>10. TreeDepth(mask) \in 0 .. 4 /\ longest < Pow(TreeDepth(mask))
    BY <1>7, <1>9 DEF Pow
  <1>11. ASSUME NEW m \in Lane
         PROVE  PlaceOf(mask)[m] < Pow(TreeDepth(mask))
    <2> DEFINE h == HeadOf(mask, m)
    <2>1. h \in LanesIn(mask) /\ h \in Lane /\ PlaceOf(mask)[m] = m - h
      BY HeadFacts DEF PlaceOf
    <2>2. m - h <= Cardinality(Followers(mask, h)) /\ Cardinality(Followers(mask, h)) <= longest
      BY <1>2, <1>4, <2>1
    <2>3. Cardinality(Followers(mask, h)) \in Int /\ m \in Int /\ h \in Int
      <3>1. Cardinality(Followers(mask, h)) \in 0 .. 15
        BY <1>2, <2>1
      <3> QED
        BY <2>1, <3>1 DEF Lane
    <2>4. Pow(TreeDepth(mask)) \in Nat
      <3>1. TreeDepth(mask) \in 0 .. 16
        BY <1>10
      <3> QED
        BY <3>1, PowerIsNat
    <2> HIDE DEF h, longest
    <2> QED
      BY <1>5, <1>10, <2>1, <2>2, <2>3, <2>4
  <1> QED
    BY <1>10, <1>11 DEF Reaches

\* After the tree the head of a run holds the terms of all its lanes.
LEMMA TreeHolds ==
  ASSUME NEW mask, 0 \in LanesIn(mask), NEW T, Apart(T),
         NEW lanes, \A l \in Lane : lanes[l] = SetToBag(T[l]), NEW h \in LanesIn(mask)
  PROVE  TreeSum(mask, lanes)[h] = SetToBag(TermsOf(T, {m \in Lane : HeadOf(mask, m) = h}))
  <1> DEFINE row == RunOf(mask)
             rank == PlaceOf(mask)
             addrs == [d \in 0 .. 3 |-> TreeLevel(mask, d)]
             n == TreeDepth(mask)
             Is(f) == f = [d \in 0 .. 4 |->
                             IF d = 0 THEN lanes
                             ELSE AddLanes(Shuffle(f[d - 1], TreeLevel(mask, d - 1)), f[d - 1])]
             level == CHOOSE f : Is(f)
  <1>1. TreeSum(mask, lanes) = level[n]
    BY DEF TreeSum
  <1>2. ASSUME NEW f, NEW k \in 0 .. 4, NEW d \in 0 .. k
        PROVE  (IF d = 0 THEN lanes ELSE AddLanes(Shuffle(f[d - 1], TreeLevel(mask, d - 1)), f[d - 1]))
                 = (IF d = 0 THEN lanes ELSE AddLanes(Shuffle(f[d - 1], addrs[d - 1]), f[d - 1]))
    <2>1. d # 0 => d - 1 \in 0 .. 3
      OBVIOUS
    <2>2. d # 0 => addrs[d - 1] = TreeLevel(mask, d - 1)
      BY <2>1
    <2> HIDE DEF addrs
    <2> QED
      BY <2>2
  <1>3. \A f : Is(f) <=> Shuffled(f, 4, addrs, lanes)
    <2> HIDE DEF addrs
    <2> QED
      BY <1>2 DEF Shuffled
  <1> HIDE DEF Is, addrs
  <1>4. \E f : Is(f)
    <2>1. 4 \in Nat
      OBVIOUS
    <2> QED
      BY <1>3, <2>1, ShuffledExists
  <1>5. Is(level)
    BY <1>4
  <1> HIDE DEF level
  <1>6. n \in 0 .. 4 /\ Reaches(rank, n)
    BY TreeIsDeep
  <1> HIDE DEF n
  <1>7. Shuffled([d \in 0 .. n |-> level[d]], n, addrs, lanes)
    <2>1. level = [d \in 0 .. 4 |-> IF d = 0 THEN lanes
                                    ELSE AddLanes(Shuffle(level[d - 1], addrs[d - 1]), level[d - 1])]
      BY <1>3, <1>5 DEF Shuffled
    <2> DEFINE g == [d \in 0 .. n |-> level[d]]
    <2>2. ASSUME NEW d \in 0 .. n
          PROVE  g[d] = IF d = 0 THEN lanes ELSE AddLanes(Shuffle(g[d - 1], addrs[d - 1]), g[d - 1])
      <3>1. d \in 0 .. 4 /\ (d # 0 => d - 1 \in 0 .. n)
        BY <1>6
      <3>2. g[d] = level[d] /\ (d # 0 => g[d - 1] = level[d - 1])
        BY <3>1
      <3>3. level[d] = IF d = 0 THEN lanes
                       ELSE AddLanes(Shuffle(level[d - 1], addrs[d - 1]), level[d - 1])
        BY <2>1, <3>1
      <3> HIDE DEF g
      <3> QED
        BY <3>2, <3>3
    <2>3. g = [d \in 0 .. n |-> g[d]]
      OBVIOUS
    <2> HIDE DEF g
    <2>4. Shuffled(g, n, addrs, lanes)
      BY <2>2, <2>3 DEF Shuffled
    <2> QED
      BY <2>4 DEF g
  <1>8. \A d \in 0 .. n - 1 : PairsUp(row, rank, Pow(d), addrs[d])
    <2>1. \A d \in 0 .. n - 1 : d \in 0 .. 3
      BY <1>6
    <2> QED
      BY <2>1, TreePairs DEF addrs
  <1>9. Ranked(row, rank)
    BY RunsRanked
  <1> HIDE DEF row, rank
  <1>10. Holds(row, rank, T, Pow(n), [d \in 0 .. n |-> level[d]][n])
    BY <1>6, <1>7, <1>8, <1>9, EveryLevel
  <1>11. [d \in 0 .. n |-> level[d]][n] = level[n]
    BY <1>6
  <1>12. h \in Lane /\ rank[h] = 0
    <2>1. h \in Lane /\ HeadOf(mask, h) = h /\ h \in Int
      BY HeadOfHead DEF Lane
    <2> QED
      BY <2>1 DEF rank, PlaceOf
  <1>13. level[n][h] = SetToBag(TermsOf(T, RowMates(row, h)))
    <2> DEFINE top == level[n]
    <2>1. Holds(row, rank, T, Pow(n), top)
      BY <1>10, <1>11
    <2> HIDE DEF top
    <2>2. top[h] = SetToBag(TermsOf(T, RowMates(row, h)))
      BY <1>6, <1>9, <1>12, <2>1, RowHeld
    <2> QED
      BY <2>2 DEF top
  <1>14. RowMates(row, h) = {m \in Lane : HeadOf(mask, m) = h}
    <2>1. row[h] = h
      BY <1>12, HeadOfHead DEF row, RunOf
    <2>2. \A m \in Lane : row[m] = HeadOf(mask, m)
      BY DEF row, RunOf
    <2> QED
      BY <2>1, <2>2 DEF RowMates
  <1>15. TreeSum(mask, lanes)[h] = level[n][h]
    BY <1>1
  <1> QED
    BY <1>13, <1>14, <1>15

-----------------------------------------------------------------------------
(***************************************************************************)
(* The rounds of an unordered chunk                                        *)
(***************************************************************************)
\* Of two lanes of a row the higher one has the lower rank.
LEMMA HigherIsLower ==
  ASSUME NEW ix, NEW l \in Lane, NEW m \in Lane, ix[l] = ix[m], l < m
  PROVE  RankOf(ix)[m] \in Nat /\ RankOf(ix)[l] \in Nat /\ RankOf(ix)[m] < RankOf(ix)[l]
  <1>1. Above(ix, l) \in SUBSET Lane /\ Above(ix, m) \in SUBSET Lane
    BY DEF Above
  <1>2. Lane \subseteq Int
    BY DEF Lane
  <1>3. Above(ix, m) \in SUBSET Above(ix, l)
    <2>1. \A k \in Lane : k > m => k > l
      <3>1. l \in Int /\ m \in Int
        BY <1>2
      <3> QED
        BY <1>2, <3>1
    <2> QED
      BY <2>1 DEF Above
  <1>4. m \in Above(ix, l) /\ m \notin Above(ix, m)
    BY <1>2 DEF Above
  <1>5. IsFiniteSet(Above(ix, l)) /\ Cardinality(Above(ix, l)) \in Nat
        /\ Cardinality(Above(ix, m)) \in Nat
    BY <1>1, UpToStep
  <1>6. /\ Cardinality(Above(ix, m)) <= Cardinality(Above(ix, l))
        /\ Cardinality(Above(ix, l)) = Cardinality(Above(ix, m)) => Above(ix, l) = Above(ix, m)
    BY <1>3, <1>5, FS_Subset
  <1> QED
    BY <1>4, <1>5, <1>6 DEF RankOf

\* Below a lane whose rank is not 0 the next rank is taken.
LEMMA NextRank ==
  ASSUME NEW ix, NEW l \in Lane, RankOf(ix)[l] # 0
  PROVE  \E m \in Lane : ix[m] = ix[l] /\ RankOf(ix)[m] = RankOf(ix)[l] - 1
  <1>1. Above(ix, l) \in SUBSET Lane /\ Lane \subseteq Nat
    BY DEF Above, Lane
  <1>2. IsFiniteSet(Above(ix, l)) /\ Cardinality(Above(ix, l)) \in Nat
    BY <1>1, UpToStep
  <1>3. Above(ix, l) # {}
    BY FS_EmptySet DEF RankOf
  <1>4. PICK m \in Above(ix, l) : \A e \in Above(ix, l) : m <= e
    <2>1. Above(ix, l) \in SUBSET Nat
      BY <1>1
    <2> QED
      BY <1>3, <2>1, LeastElement
  <1>5. m \in Lane /\ ix[m] = ix[l] /\ m > l /\ l \in Nat /\ m \in Nat
    BY <1>1, <1>4 DEF Above
  <1>6. Above(ix, m) = Above(ix, l) \ {m}
    <2>1. ASSUME NEW k \in Lane, ix[k] = ix[l]
          PROVE  k > m <=> k > l /\ k # m
      <3>1. k \in Nat
        BY <1>1
      <3>2. k > l => m <= k
        BY <1>4, <2>1 DEF Above
      <3> QED
        BY <1>5, <3>1, <3>2
    <2> QED
      BY <1>5, <2>1 DEF Above
  <1>7. Cardinality(Above(ix, m)) = Cardinality(Above(ix, l)) - 1
    BY <1>2, <1>4, <1>6, FS_RemoveElement
  <1> QED
    BY <1>5, <1>7 DEF RankOf

\* The ranks of a row have no gap.
LEMMA RowsRanked ==
  ASSUME NEW ix
  PROVE  Ranked(ix, RankOf(ix))
  <1> DEFINE rank == RankOf(ix)
  <1>1. rank \in [Lane -> 0 .. 15]
    <2>1. ASSUME NEW l \in Lane PROVE Cardinality(Above(ix, l)) \in 0 .. 15
      <3>1. 1 \in Int /\ Vector - 1 \in Int /\ Vector - 1 \in 0 .. 15 /\ Vector - 1 >= 1
        BY VectorAssumption
      <3>2. Above(ix, l) \in SUBSET (1 .. Vector - 1)
        <4>1. l >= 0 /\ l \in Int
          BY DEF Lane
        <4>2. \A m \in Lane : m > l => m \in 1 .. Vector - 1
          BY <3>1, <4>1 DEF Lane
        <4> QED
          BY <4>2 DEF Above
      <3>3. IsFiniteSet(1 .. Vector - 1) /\ Cardinality(1 .. Vector - 1) = Vector - 1
        <4>1. Cardinality(1 .. Vector - 1) = IF 1 > Vector - 1 THEN 0 ELSE Vector - 1 - 1 + 1
          BY <3>1, FS_Interval
        <4> QED
          BY <3>1, <4>1, FS_Interval
      <3>4. IsFiniteSet(Above(ix, l)) /\ Cardinality(Above(ix, l)) <= Vector - 1
        BY <3>2, <3>3, FS_Subset
      <3> QED
        BY <3>1, <3>4, FS_CardinalityType
    <2> QED
      BY <2>1 DEF RankOf
  <1>2. ASSUME NEW l \in Lane, NEW m \in Lane, ix[l] = ix[m], rank[l] = rank[m]
        PROVE  l = m
    <2>1. l \in Int /\ m \in Int
      BY DEF Lane
    <2>2. ~(l < m)
      BY <1>2, HigherIsLower
    <2>3. ~(m < l)
      BY <1>2, HigherIsLower
    <2> QED
      BY <2>1, <2>2, <2>3
  <1>3. ASSUME NEW l \in Lane, NEW q \in 0 .. rank[l]
        PROVE  \E m \in Lane : ix[m] = ix[l] /\ rank[m] = q
    <2> DEFINE N == {n \in Nat : n <= rank[l] =>
                       \E m \in Lane : ix[m] = ix[l] /\ rank[m] = rank[l] - n}
    <2>1. rank[l] \in Nat
      BY <1>1
    <2> HIDE DEF rank
    <2>2. 0 \in N
      BY <2>1
    <2>3. ASSUME NEW n \in Nat, n \in N
          PROVE  n + 1 \in N
      <3> SUFFICES ASSUME n + 1 <= rank[l]
                   PROVE  \E m \in Lane : ix[m] = ix[l] /\ rank[m] = rank[l] - (n + 1)
        OBVIOUS
      <3>1. PICK m \in Lane : ix[m] = ix[l] /\ rank[m] = rank[l] - n
        BY <2>1, <2>3
      <3>2. rank[m] # 0
        BY <2>1, <3>1
      <3>3. PICK k \in Lane : ix[k] = ix[m] /\ rank[k] = rank[m] - 1
        BY <3>2, NextRank DEF rank
      <3>4. rank[k] = rank[l] - (n + 1)
        BY <2>1, <3>1, <3>3
      <3> QED
        BY <3>1, <3>3, <3>4
    <2> HIDE DEF N
    <2>4. rank[l] - q \in Nat /\ rank[l] - q <= rank[l] /\ rank[l] - (rank[l] - q) = q
      BY <2>1
    <2>5. rank[l] - q \in N
      BY <2>2, <2>3, <2>4, SetInduction
    <2> QED
      BY <2>4, <2>5 DEF N
  <1> QED
    BY <1>1, <1>2, <1>3 DEF Ranked

\* Of two lanes of a row the one with the lower rank is higher.
LEMMA RankTells ==
  ASSUME NEW ix, NEW l \in Lane, NEW m \in Lane, ix[l] = ix[m]
  PROVE  (m > l <=> RankOf(ix)[m] < RankOf(ix)[l]) /\ (m < l <=> RankOf(ix)[m] > RankOf(ix)[l])
  <1>1. l \in Int /\ m \in Int
    BY DEF Lane
  <1>2. CASE l < m
    BY <1>1, <1>2, HigherIsLower
  <1>3. CASE m < l
    BY <1>1, <1>3, HigherIsLower
  <1>4. CASE l = m
    <2>1. RankOf(ix)[l] \in Int
      BY RowsRanked DEF Ranked
    <2> QED
      BY <1>1, <1>4, <2>1
  <1> QED
    BY <1>1, <1>2, <1>3, <1>4

\* Below p there are n multiples of w.
CountsTo(w, p, n) ==
  /\ n % 2 = 0 <=> p % (2 * w) = 0
  /\ \A k \in 1 .. n : w * (k - 1) \in 0 .. p - 1 /\ (w * (k - 1)) % w = 0
  /\ \A q \in 0 .. p - 1 : q % w = 0 => \E k \in 1 .. n : q = w * (k - 1)

\* An even number of them, if p is a multiple of twice the width.
LEMMA CountMultiples ==
  ASSUME NEW w \in {1, 2, 4, 8}, NEW p \in 0 .. 15, p % w = 0
  PROVE  \E n \in Nat : CountsTo(w, p, n)
  <1>1. CASE w = 1
    <2>1. /\ p % 2 = 0 <=> p % (2 * w) = 0
          /\ \A k \in 1 .. p : w * (k - 1) \in 0 .. p - 1 /\ (w * (k - 1)) % w = 0
      BY <1>1
    <2>2. ASSUME NEW q \in 0 .. p - 1
          PROVE  \E k \in 1 .. p : q = w * (k - 1)
      <3>1. q + 1 \in 1 .. p /\ q = w * ((q + 1) - 1)
        BY <1>1
      <3> QED
        BY <3>1
    <2>3. CountsTo(w, p, p)
      BY <2>1, <2>2 DEF CountsTo
    <2> QED
      BY <2>3
  <1>2. CASE w = 2
    <2>1. PICK n \in 0 .. 7 : p = 2 * n
      BY <1>2
    <2>2. /\ n % 2 = 0 <=> p % (2 * w) = 0
          /\ \A k \in 1 .. n : w * (k - 1) \in 0 .. p - 1 /\ (w * (k - 1)) % w = 0
      BY <1>2, <2>1
    <2>3. ASSUME NEW q \in 0 .. p - 1, q % w = 0
          PROVE  \E k \in 1 .. n : q = w * (k - 1)
      <3>1. q \div 2 + 1 \in 1 .. n /\ q = w * ((q \div 2 + 1) - 1)
        BY <1>2, <2>1, <2>3
      <3> QED
        BY <3>1
    <2>4. CountsTo(w, p, n) /\ n \in Nat
      BY <2>2, <2>3 DEF CountsTo
    <2> QED
      BY <2>4
  <1>3. CASE w = 4
    <2>1. PICK n \in 0 .. 3 : p = 4 * n
      BY <1>3
    <2>2. /\ n % 2 = 0 <=> p % (2 * w) = 0
          /\ \A k \in 1 .. n : w * (k - 1) \in 0 .. p - 1 /\ (w * (k - 1)) % w = 0
      BY <1>3, <2>1
    <2>3. ASSUME NEW q \in 0 .. p - 1, q % w = 0
          PROVE  \E k \in 1 .. n : q = w * (k - 1)
      <3>1. q \div 4 + 1 \in 1 .. n /\ q = w * ((q \div 4 + 1) - 1)
        BY <1>3, <2>1, <2>3
      <3> QED
        BY <3>1
    <2>4. CountsTo(w, p, n) /\ n \in Nat
      BY <2>2, <2>3 DEF CountsTo
    <2> QED
      BY <2>4
  <1>4. CASE w = 8
    <2>1. PICK n \in 0 .. 1 : p = 8 * n
      BY <1>4
    <2>2. /\ n % 2 = 0 <=> p % (2 * w) = 0
          /\ \A k \in 1 .. n : w * (k - 1) \in 0 .. p - 1 /\ (w * (k - 1)) % w = 0
      BY <1>4, <2>1
    <2>3. ASSUME NEW q \in 0 .. p - 1, q % w = 0
          PROVE  \E k \in 1 .. n : q = w * (k - 1)
      <3>1. q \div 8 + 1 \in 1 .. n /\ q = w * ((q \div 8 + 1) - 1)
        BY <1>4, <2>1, <2>3
      <3> QED
        BY <3>1
    <2>4. CountsTo(w, p, n) /\ n \in Nat
      BY <2>2, <2>3 DEF CountsTo
    <2> QED
      BY <2>4
  <1> QED
    BY <1>1, <1>2, <1>3, <1>4

\* The lanes left in the row of l, and those of them above l.
Left(ix, w, l) == {m \in Lane \ Taken(ix, w) : ix[m] = ix[l]}
LeftAbove(ix, w, l) == {m \in Left(ix, w, l) : m > l}

\* A lane that is left is paired at the next level if it has an even number of
\* lanes above it.
LEMMA EvenAbove ==
  ASSUME NEW ix, NEW w \in {1, 2, 4, 8}, NEW l \in Lane, RankOf(ix)[l] % w = 0
  PROVE  Cardinality(LeftAbove(ix, w, l)) % 2 = 0 <=> RankOf(ix)[l] % (2 * w) = 0
  <1> DEFINE rank == RankOf(ix)
             S == LeftAbove(ix, w, l)
             p == rank[l]
  <1>1. Ranked(ix, rank)
    BY RowsRanked
  <1>2. p \in 0 .. 15
    BY <1>1 DEF Ranked
  <1>3. PICK n \in Nat : CountsTo(w, p, n)
    BY <1>2, CountMultiples
  <1>4. \A m \in Lane : m \in S <=> ix[m] = ix[l] /\ rank[m] % w = 0 /\ rank[m] < p
    BY RankTells DEF LeftAbove, Left, Taken
  <1>5. S \in SUBSET Lane
    BY DEF LeftAbove, Left
  <1>6. \A m \in Lane : rank[m] \in Nat
    BY <1>1 DEF Ranked
  <1> DEFINE f == [k \in 1 .. n |-> CHOOSE m \in Lane : ix[m] = ix[l] /\ rank[m] = w * (k - 1)]
  <1> HIDE DEF S, rank, p
  <1>7. ASSUME NEW k \in 1 .. n
        PROVE  f[k] \in S /\ rank[f[k]] = w * (k - 1)
    <2>1. w * (k - 1) \in 0 .. p - 1 /\ (w * (k - 1)) % w = 0
      BY <1>3 DEF CountsTo
    <2> DEFINE q == w * (k - 1)
    <2> HIDE DEF q
    <2>2. q \in 0 .. p /\ q < p /\ q % w = 0
      BY <1>2, <2>1 DEF q
    <2>3. \E m \in Lane : ix[m] = ix[l] /\ rank[m] = q
      BY <1>1, <2>2 DEF Ranked, p
    <2>4. f[k] = CHOOSE m \in Lane : ix[m] = ix[l] /\ rank[m] = q
      BY DEF q
    <2> HIDE DEF f
    <2>5. f[k] \in Lane /\ ix[f[k]] = ix[l] /\ rank[f[k]] = q
      BY <2>3, <2>4
    <2> QED
      BY <1>4, <2>2, <2>5 DEF q
  <1>8. \A k, m \in 1 .. n : f[k] = f[m] => k = m
    <2> SUFFICES ASSUME NEW k \in 1 .. n, NEW m \in 1 .. n, f[k] = f[m] PROVE k = m
      OBVIOUS
    <2>1. w * (k - 1) = w * (m - 1)
      BY <1>7
    <2> HIDE DEF f
    <2> QED
      BY <2>1
  <1>9. ASSUME NEW m \in S
        PROVE  \E k \in 1 .. n : f[k] = m
    <2>1. m \in Lane /\ ix[m] = ix[l] /\ rank[m] \in 0 .. p - 1 /\ rank[m] % w = 0
      BY <1>2, <1>4, <1>5, <1>6
    <2>2. PICK k \in 1 .. n : rank[m] = w * (k - 1)
      BY <1>3, <2>1 DEF CountsTo
    <2>3. f[k] \in S /\ rank[f[k]] = rank[m]
      BY <1>7, <2>2
    <2> HIDE DEF f
    <2>4. f[k] \in Lane /\ ix[f[k]] = ix[m]
      BY <1>4, <1>5, <2>1, <2>3
    <2>5. f[k] = m
      BY <1>1, <2>1, <2>3, <2>4 DEF Ranked
    <2> QED
      BY <2>5
  <1>10. f \in [1 .. n -> S]
    BY <1>7
  <1> HIDE DEF f
  <1>11. f \in Bijection(1 .. n, S)
    BY <1>8, <1>9, <1>10 DEF Bijection, Injection, Surjection, IsInjective
  <1>12. Cardinality(S) = n
    <2>1. ExistsBijection(1 .. n, S)
      BY <1>11 DEF ExistsBijection
    <2> QED
      BY <2>1, FS_CountingElements
  <1> QED
    BY <1>3, <1>12 DEF CountsTo, S, p, rank

\* The partner that a round finds for a lane.
LEMMA PartnerFacts ==
  ASSUME NEW ix, NEW w \in {1, 2, 4, 8}, NEW l \in Lane
  PROVE  LET partner == Partner(ix, l, Taken(ix, w)) IN
         IF RankOf(ix)[l] % (2 * w) = 0
           THEN \/ /\ partner \in Lane
                   /\ ix[partner] = ix[l]
                   /\ RankOf(ix)[partner] = RankOf(ix)[l] + w
                \/ /\ partner = Vector
                   /\ \A m \in Lane : ix[m] = ix[l] => RankOf(ix)[m] # RankOf(ix)[l] + w
           ELSE partner = Vector
  <1> DEFINE rank == RankOf(ix)
             left == Left(ix, w, l)
             below == {m \in left : m < l}
             partner == Partner(ix, l, Taken(ix, w))
  <1>1. Ranked(ix, rank)
    BY RowsRanked
  <1>2. \A m \in Lane : rank[m] \in 0 .. 15
    BY <1>1 DEF Ranked
  <1>3. partner = IF l \in left /\ below # {} /\ Cardinality(LeftAbove(ix, w, l)) % 2 = 0
                    THEN Max(below) ELSE Vector
    BY DEF Partner, Left, LeftAbove
  <1>4. l \in left <=> rank[l] % w = 0
    BY DEF Left, Taken
  <1>5. \A m \in Lane : m \in below <=> ix[m] = ix[l] /\ rank[m] % w = 0 /\ rank[m] > rank[l]
    BY RankTells DEF Left, Taken
  <1>6. below \in SUBSET Lane /\ \A m \in below : m < l
    BY DEF Left
  <1>7. rank[l] % w = 0 =>
          (Cardinality(LeftAbove(ix, w, l)) % 2 = 0 <=> rank[l] % (2 * w) = 0)
    BY EvenAbove
  <1> HIDE DEF rank, left, below, partner
  <1>8. rank[l] % (2 * w) = 0 => rank[l] % w = 0 /\ (rank[l] + w) % w = 0
    <2>1. rank[l] \in 0 .. 15
      BY <1>2
    <2> QED
      BY <2>1, Multiples, Zenon
  <1>9. CASE rank[l] % (2 * w) # 0
    BY <1>3, <1>4, <1>7, <1>9 DEF partner, rank
  <1>10. CASE rank[l] % (2 * w) = 0
    <2>1. partner = IF below # {} THEN Max(below) ELSE Vector
      BY <1>3, <1>4, <1>7, <1>8, <1>10
    <2>2. ASSUME NEW m \in below
          PROVE  m \in Lane /\ ix[m] = ix[l] /\ rank[m] >= rank[l] + w /\ rank[l] + w \in 0 .. rank[m]
      <3>1. m \in Lane /\ ix[m] = ix[l] /\ rank[m] % w = 0 /\ rank[m] > rank[l]
        BY <1>5, <1>6
      <3>2. rank[m] \in 0 .. 15 /\ rank[l] \in 0 .. 15
        BY <1>2, <3>1
      <3>3. rank[m] >= rank[l] + w
        <4> DEFINE a == rank[m]
                   b == rank[l]
        <4>1. a \in 0 .. 15 /\ b \in 0 .. 15 /\ a % w = 0 /\ b % w = 0 /\ a > b
          BY <1>8, <1>10, <3>1, <3>2
        <4> HIDE DEF a, b
        <4>2. a >= b + w
          <5>1. CASE w = 1
            BY <4>1, <5>1
          <5>2. CASE w = 2
            BY <4>1, <5>2
          <5>3. CASE w = 4
            BY <4>1, <5>3
          <5>4. CASE w = 8
            BY <4>1, <5>4
          <5> QED
            BY <5>1, <5>2, <5>3, <5>4
        <4> QED
          BY <4>2 DEF a, b
      <3> QED
        BY <3>1, <3>2, <3>3
    <2>3. CASE below # {}
      <3>1. PICK m \in below : TRUE
        BY <2>3
      <3>2. PICK k \in Lane : ix[k] = ix[m] /\ rank[k] = rank[l] + w
        BY <1>1, <2>2, <3>1 DEF Ranked
      <3>3. k \in below
        <4>1. rank[l] \in 0 .. 15 /\ rank[k] > rank[l]
          BY <1>2, <3>2
        <4> QED
          BY <1>5, <1>8, <1>10, <2>2, <3>1, <3>2, <4>1
      <3>4. Max(below) \in below /\ \A x \in below : x <= Max(below)
        <4>1. below \in SUBSET Nat /\ Vector \in Nat /\ \A x \in below : x <= Vector
          BY <1>6, VectorAssumption DEF Lane
        <4> QED
          BY <2>3, <4>1, GreatestElement
      <3>5. Max(below) = k
        <4> DEFINE top == Max(below)
        <4> HIDE DEF top
        <4>1. top \in Lane /\ ix[top] = ix[k] /\ rank[top] >= rank[k] /\ k <= top
          BY <2>2, <3>1, <3>2, <3>3, <3>4 DEF top
        <4>2. ~(top > k)
          <5>1. top > k <=> rank[top] < rank[k]
            BY <4>1, RankTells DEF rank
          <5>2. rank[top] \in Int /\ rank[k] \in Int
            BY <1>2, <4>1
          <5> QED
            BY <4>1, <5>1, <5>2
        <4>3. top \in Int /\ k \in Int
          BY <4>1 DEF Lane
        <4> QED
          BY <4>1, <4>2, <4>3 DEF top
      <3>6. partner = k
        BY <2>1, <2>3, <3>5
      <3> QED
        BY <1>10, <2>2, <3>1, <3>2, <3>6 DEF partner, rank
    <2>4. CASE below = {}
      <3>1. ASSUME NEW m \in Lane, ix[m] = ix[l] PROVE rank[m] # rank[l] + w
        <4> SUFFICES ASSUME rank[m] = rank[l] + w PROVE FALSE
          OBVIOUS
        <4>1. rank[l] \in 0 .. 15 /\ rank[m] > rank[l]
          BY <1>2
        <4> QED
          BY <1>5, <1>8, <1>10, <2>4, <3>1, <4>1
      <3> QED
        BY <1>10, <2>1, <2>4, <3>1 DEF partner, rank
    <2> QED
      BY <2>3, <2>4
  <1> QED
    BY <1>9, <1>10 DEF rank

\* A remainder of w is what makes a multiple of w none of 2 * w.
LEMMA OddMultiples ==
  ASSUME NEW w \in {1, 2, 4, 8}, NEW p \in 0 .. 15
  PROVE  /\ p % w # 0 => p % (2 * w) # 0
         /\ p % (2 * w) = 0 => (p + w) % (2 * w) # 0
         /\ p % w = 0 /\ p % (2 * w) # 0 => p - w \in 0 .. p /\ (p - w) % (2 * w) = 0
  <1>1. CASE w = 1
    BY <1>1
  <1>2. CASE w = 2
    BY <1>2
  <1>3. CASE w = 4
    BY <1>3
  <1>4. CASE w = 8
    BY <1>4
  <1> QED
    BY <1>1, <1>2, <1>3, <1>4

\* One round pairs the lanes up and takes in every second of those left.
LEMMA RoundPairs ==
  ASSUME NEW ix, NEW w \in {1, 2, 4, 8}
  PROVE  /\ PairsUp(ix, RankOf(ix), w, Pair(ix, Taken(ix, w)).addr)
         /\ Pair(ix, Taken(ix, w)).reduced = Taken(ix, 2 * w)
  <1> DEFINE rank == RankOf(ix)
             addr == Pair(ix, Taken(ix, w)).addr
  <1>1. addr = [l \in Lane |-> Partner(ix, l, Taken(ix, w))]
    BY DEF Pair
  <1>2. ASSUME NEW l \in Lane
        PROVE  IF rank[l] % (2 * w) = 0
                 THEN \/ addr[l] \in Lane /\ ix[addr[l]] = ix[l] /\ rank[addr[l]] = rank[l] + w
                      \/ /\ addr[l] = Vector
                         /\ \A m \in Lane : ix[m] = ix[l] => rank[m] # rank[l] + w
                 ELSE addr[l] = Vector
    <2>1. addr[l] = Partner(ix, l, Taken(ix, w))
      BY <1>1
    <2> HIDE DEF addr
    <2> QED
      BY <2>1, PartnerFacts
  <1>3. Pair(ix, Taken(ix, w)).reduced = Taken(ix, w) \cup ({addr[l] : l \in Lane} \ {Vector})
    BY DEF Pair
  <1>4. Ranked(ix, rank)
    BY RowsRanked
  <1>5. \A m \in Lane : rank[m] \in 0 .. 15
    BY <1>4 DEF Ranked
  <1> HIDE DEF addr
  <1>6. PairsUp(ix, rank, w, addr)
    <2> HIDE DEF rank
    <2> QED
      BY <1>2 DEF PairsUp
  <1>7. ASSUME NEW m \in Taken(ix, w)
        PROVE  m \in Taken(ix, 2 * w)
    <2>1. m \in Lane /\ rank[m] \in 0 .. 15 /\ rank[m] % w # 0
      BY <1>5 DEF Taken
    <2>2. rank[m] % (2 * w) # 0
      BY <2>1, OddMultiples, Zenon
    <2> QED
      BY <2>1, <2>2 DEF Taken
  <1>8. ASSUME NEW l \in Lane, addr[l] # Vector
        PROVE  addr[l] \in Taken(ix, 2 * w)
    <2>1. rank[l] % (2 * w) = 0 /\ addr[l] \in Lane /\ rank[addr[l]] = rank[l] + w
      <3> HIDE DEF rank
      <3> QED
        BY <1>2, <1>8
    <2>2. rank[l] \in 0 .. 15
      BY <1>5
    <2>3. (rank[l] + w) % (2 * w) # 0
      BY <2>1, <2>2, OddMultiples, Zenon
    <2> QED
      BY <2>1, <2>3 DEF Taken
  <1>9. ASSUME NEW m \in Taken(ix, 2 * w), m \notin Taken(ix, w)
        PROVE  \E l \in Lane : addr[l] = m /\ m # Vector
    <2>1. m \in Lane /\ rank[m] \in 0 .. 15 /\ rank[m] % w = 0 /\ rank[m] % (2 * w) # 0
      BY <1>5, <1>9 DEF Taken
    <2> DEFINE q == rank[m] - w
    <2>2. q \in 0 .. rank[m] /\ q % (2 * w) = 0
      BY <2>1, OddMultiples, Zenon
    <2>3. q + w = rank[m]
      BY <2>1
    <2> HIDE DEF q, rank
    <2>4. PICK l \in Lane : ix[l] = ix[m] /\ rank[l] = q
      BY <1>4, <2>1, <2>2 DEF Ranked
    <2>5. addr[l] \in Lane /\ ix[addr[l]] = ix[m] /\ rank[addr[l]] = rank[m]
      BY <1>2, <2>1, <2>2, <2>3, <2>4
    <2>6. addr[l] = m
      BY <1>4, <2>1, <2>5 DEF Ranked
    <2>7. m # Vector
      BY <2>1, VectorAssumption DEF Lane
    <2> QED
      BY <2>6, <2>7
  <1>10. Pair(ix, Taken(ix, w)).reduced = Taken(ix, 2 * w)
    BY <1>3, <1>7, <1>8, <1>9
  <1> QED
    BY <1>6, <1>10 DEF addr, rank

\* The recursion of generate_reduction_info_elem.
RoundsOf(f, ix) ==
  f = [r \in 0 .. 4 |-> IF r = 0 THEN [addr |-> NoAddr, reduced |-> {}]
                        ELSE Pair(ix, f[r - 1].reduced)]

\* It has a solution.
LEMMA RoundsExist ==
  ASSUME NEW ix
  PROVE  \E f : RoundsOf(f, ix)
  <1> DEFINE r0 == [addr |-> NoAddr, reduced |-> {}]
             r1 == Pair(ix, r0.reduced)
             r2 == Pair(ix, r1.reduced)
             r3 == Pair(ix, r2.reduced)
             r4 == Pair(ix, r3.reduced)
             f == [r \in 0 .. 4 |-> IF r = 0 THEN r0 ELSE IF r = 1 THEN r1
                                    ELSE IF r = 2 THEN r2 ELSE IF r = 3 THEN r3 ELSE r4]
  <1> HIDE DEF r0, r1, r2, r3, r4
  <1>1. f[0] = r0 /\ f[1] = r1 /\ f[2] = r2 /\ f[3] = r3 /\ f[4] = r4
    OBVIOUS
  <1>2. f = [r \in 0 .. 4 |-> f[r]]
    OBVIOUS
  <1> HIDE DEF f
  <1>3. ASSUME NEW r \in 0 .. 4
        PROVE  f[r] = IF r = 0 THEN r0 ELSE Pair(ix, f[r - 1].reduced)
    <2>1. CASE r = 0
      BY <1>1, <2>1
    <2>2. CASE r = 1
      <3>1. r - 1 = 0 /\ r # 0
        BY <2>2
      <3> QED
        BY <1>1, <2>2, <3>1 DEF r1
    <2>3. CASE r = 2
      <3>1. r - 1 = 1 /\ r # 0
        BY <2>3
      <3> QED
        BY <1>1, <2>3, <3>1 DEF r2
    <2>4. CASE r = 3
      <3>1. r - 1 = 2 /\ r # 0
        BY <2>4
      <3> QED
        BY <1>1, <2>4, <3>1 DEF r3
    <2>5. CASE r = 4
      <3>1. r - 1 = 3 /\ r # 0
        BY <2>5
      <3> QED
        BY <1>1, <2>5, <3>1 DEF r4
    <2> QED
      BY <2>1, <2>2, <2>3, <2>4, <2>5
  <1>4. f = [r \in 0 .. 4 |-> IF r = 0 THEN r0 ELSE Pair(ix, f[r - 1].reduced)]
    BY <1>2, <1>3
  <1>5. RoundsOf(f, ix)
    BY <1>4 DEF RoundsOf, r0
  <1> QED
    BY <1>5

\* Every round of the plan pairs the lanes up.
LEMMA RoundsPair ==
  ASSUME NEW ix, NEW d \in 0 .. Len(Rounds(ix)) - 1
  PROVE  /\ Rounds(ix)[d + 1] = Pair(ix, Taken(ix, Pow(d))).addr
         /\ PairsUp(ix, RankOf(ix), Pow(d), Rounds(ix)[d + 1])
         /\ Len(Rounds(ix)) = reduce_num[LongestRepeat(ix)] /\ Len(Rounds(ix)) \in 0 .. 4
  <1> DEFINE n == reduce_num[LongestRepeat(ix)]
             f == CHOOSE f : RoundsOf(f, ix)
  <1>1. n \in 0 .. 4
    BY LongestRepeatRange, VectorAssumption DEF reduce_num
  <1>2. Rounds(ix) = [r \in 1 .. n |-> f[r].addr]
    BY DEF Rounds, RoundsOf
  <1>3. RoundsOf(f, ix)
    BY RoundsExist
  <1> HIDE DEF n, f
  <1>4. Len(Rounds(ix)) = n /\ \A r \in 1 .. n : Rounds(ix)[r] = f[r].addr
    <2>1. Rounds(ix) = [r \in 1 .. n |-> Rounds(ix)[r]]
      BY <1>2
    <2>2. n \in Nat
      BY <1>1
    <2> QED
      BY <1>2, <2>1, <2>2, FunctionIsSeq
  <1> DEFINE N == {k \in Nat : k <= 4 => f[k].reduced = Taken(ix, Pow(k))}
  <1>5. 0 \in N
    <2>1. f[0].reduced = {}
      BY <1>3 DEF RoundsOf
    <2>2. Pow(0) = 1
      BY LevelWidth
    <2>3. Taken(ix, 1) = {}
      <3>1. \A l \in Lane : RankOf(ix)[l] \in 0 .. 15
        BY RowsRanked DEF Ranked
      <3>2. \A l \in Lane : RankOf(ix)[l] % 1 = 0
        BY <3>1
      <3> QED
        BY <3>2 DEF Taken
    <2> QED
      BY <2>1, <2>2, <2>3
  <1>6. ASSUME NEW k \in Nat, k \in N
        PROVE  k + 1 \in N
    <2> SUFFICES ASSUME k + 1 <= 4 PROVE f[k + 1].reduced = Taken(ix, Pow(k + 1))
      OBVIOUS
    <2>1. k \in 0 .. 3 /\ k + 1 \in 0 .. 4 /\ k + 1 # 0 /\ (k + 1) - 1 = k
      OBVIOUS
    <2>2. f[k + 1] = Pair(ix, f[k].reduced)
      BY <1>3, <2>1 DEF RoundsOf
    <2>3. f[k].reduced = Taken(ix, Pow(k))
      BY <1>6, <2>1
    <2>4. Pow(k) \in {1, 2, 4, 8} /\ Pow(k + 1) = 2 * Pow(k)
      BY <2>1, LevelWidth
    <2> QED
      BY <2>2, <2>3, <2>4, RoundPairs
  <1>7. f[d].reduced = Taken(ix, Pow(d))
    <2> HIDE DEF N
    <2>1. d \in Nat /\ d <= 4
      BY <1>1, <1>4
    <2>2. d \in N
      BY <1>5, <1>6, <2>1, SetInduction
    <2> QED
      BY <2>1, <2>2 DEF N
  <1>8. d \in 0 .. 3 /\ d + 1 \in 1 .. n /\ d + 1 \in 0 .. 4 /\ d + 1 # 0 /\ (d + 1) - 1 = d
    BY <1>1, <1>4
  <1>9. Rounds(ix)[d + 1] = Pair(ix, Taken(ix, Pow(d))).addr
    <2>1. f[d + 1] = Pair(ix, f[d].reduced)
      BY <1>3, <1>8 DEF RoundsOf
    <2> QED
      BY <1>4, <1>7, <1>8, <2>1
  <1>10. Pow(d) \in {1, 2, 4, 8}
    BY <1>8, LevelWidth
  <1>11. PairsUp(ix, RankOf(ix), Pow(d), Rounds(ix)[d + 1])
    BY <1>9, <1>10, RoundPairs
  <1> QED
    BY <1>1, <1>4, <1>9, <1>11 DEF n

\* There are rounds enough for the index that repeats most often.
LEMMA RoundsReach ==
  ASSUME NEW ix
  PROVE  /\ reduce_num[LongestRepeat(ix)] \in 0 .. 4
         /\ Reaches(RankOf(ix), reduce_num[LongestRepeat(ix)])
  <1> DEFINE Same(l) == {m \in Lane : ix[m] = ix[l]}
             S == {Cardinality(Same(l)) : l \in Lane}
             longest == LongestRepeat(ix)
             n == reduce_num[longest]
  <1>1. longest \in 1 .. 16
    BY LongestRepeatRange, VectorAssumption
  <1> HIDE DEF longest
  <1>2. n \in 0 .. 4 /\ longest <= Pow(n)
    <2>1. Pow(0) = 1 /\ Pow(1) = 2 /\ Pow(2) = 4 /\ Pow(3) = 8 /\ Pow(4) = 16
      BY DEF Pow
    <2>2. n \in 0 .. 4
      BY <1>1 DEF reduce_num
    <2>3. /\ n = 0 => longest <= 1
          /\ n = 1 => longest <= 2
          /\ n = 2 => longest <= 4
          /\ n = 3 => longest <= 8
      BY <1>1 DEF reduce_num
    <2> HIDE DEF n
    <2> QED
      BY <1>1, <2>1, <2>2, <2>3
  <1>3. ASSUME NEW l \in Lane
        PROVE  RankOf(ix)[l] \in Nat /\ RankOf(ix)[l] < Cardinality(Same(l)) /\ Cardinality(Same(l)) \in Nat
    <2>1. Same(l) \in SUBSET Lane /\ Above(ix, l) \in SUBSET Lane
      BY DEF Above
    <2>2. Above(ix, l) \in SUBSET Same(l)
      BY DEF Above
    <2>3. l \in Same(l) /\ l \notin Above(ix, l)
      BY DEF Above, Lane
    <2> HIDE DEF Same
    <2>4. /\ IsFiniteSet(Same(l)) /\ Cardinality(Same(l)) \in Nat
          /\ Cardinality(Above(ix, l)) \in Nat
      BY <2>1, UpToStep
    <2>5. /\ Cardinality(Above(ix, l)) <= Cardinality(Same(l))
          /\ Cardinality(Same(l)) = Cardinality(Above(ix, l)) => Same(l) = Above(ix, l)
      BY <2>2, <2>4, FS_Subset
    <2> QED
      BY <2>3, <2>4, <2>5 DEF RankOf
  <1>4. ASSUME NEW l \in Lane
        PROVE  Cardinality(Same(l)) <= longest
    <2>1. longest = Max(S)
      BY DEF LongestRepeat, longest
    <2>2. ASSUME NEW m \in Lane PROVE Cardinality(Same(m)) <= Vector
      <3>1. Same(m) \in SUBSET Lane
        OBVIOUS
      <3>2. IsFiniteSet(Lane) /\ Cardinality(Lane) = Vector
        <4>1. 0 \in Int /\ Vector - 1 \in Int /\ Vector \in Int /\ ~(0 > Vector - 1)
          BY VectorAssumption
        <4>2. IsFiniteSet(Lane) /\ Cardinality(Lane) = IF 0 > Vector - 1 THEN 0 ELSE (Vector - 1) - 0 + 1
          BY <4>1, FS_Interval DEF Lane
        <4> QED
          BY <4>1, <4>2
      <3> HIDE DEF Same
      <3> QED
        BY <3>1, <3>2, FS_Subset
    <2>3. S \in SUBSET Nat /\ S # {} /\ Vector \in Nat /\ \A x \in S : x <= Vector
      <3>1. 0 \in Lane /\ Vector \in Nat
        BY VectorAssumption DEF Lane
      <3>2. \A m \in Lane : Cardinality(Same(m)) \in Nat /\ Cardinality(Same(m)) <= Vector
        BY <1>3, <2>2
      <3> HIDE DEF Same
      <3> QED
        BY <3>1, <3>2
    <2>4. Cardinality(Same(l)) \in S
      OBVIOUS
    <2> HIDE DEF S
    <2>5. \A x \in S : x <= Max(S)
      BY <2>3, GreatestElement
    <2> QED
      BY <2>1, <2>4, <2>5
  <1>5. Pow(n) \in Nat
    <2>1. n \in 0 .. 16
      BY <1>2
    <2> QED
      BY <2>1, PowerIsNat
  <1>6. ASSUME NEW l \in Lane
        PROVE  RankOf(ix)[l] < Pow(n)
    <2>1. /\ RankOf(ix)[l] \in Nat /\ Cardinality(Same(l)) \in Nat
          /\ RankOf(ix)[l] < Cardinality(Same(l))
      BY <1>3
    <2>2. Cardinality(Same(l)) <= longest
      BY <1>4
    <2> HIDE DEF Same, n
    <2> QED
      BY <1>1, <1>2, <1>5, <2>1, <2>2
  <1> QED
    BY <1>2, <1>6 DEF Reaches, longest

-----------------------------------------------------------------------------
(***************************************************************************)
(* What an iteration stores                                                *)
(***************************************************************************)
\* A round reads the permutation that was laid out for it.
LEMMA RoundWordsAt ==
  ASSUME NEW ix, OrderOf(ix) = "DisOrder",
         NEW d \in 0 .. Len(Rounds(ix)) - 1, Len(Rounds(ix)) \in 0 .. 4
  PROVE  SubSeq(ReductionSlots(ReductionInfo(ix)), d * (Vector \div 4) + 1,
                (d + 1) * (Vector \div 4)) = PermSlots(Rounds(ix)[d + 1])
  <1> DEFINE rounds == Rounds(ix)
             words == Vector \div 4
             parts == [r \in 1 .. Len(rounds) |-> PermSlots(rounds[r])]
  <1>1. ReductionSlots(ReductionInfo(ix)) = FlattenSeq(parts)
    BY DEF ReductionSlots, ReductionInfo
  <1>2. /\ parts = [r \in 1 .. Len(rounds) |-> parts[r]]
        /\ \A r \in 1 .. Len(rounds) : parts[r] = PermSlots(rounds[r])
    OBVIOUS
  <1>3. words \in {1, 2, 4}
    BY VectorAssumption
  <1>0. d \in {0, 1, 2, 3} /\ d + 1 \in 1 .. Len(rounds) /\ (d > 0 => d \in 1 .. Len(rounds))
    <2> DEFINE n == Len(rounds)
    <2>1. n \in 0 .. 4 /\ d \in 0 .. n - 1
      OBVIOUS
    <2> HIDE DEF n
    <2>2. d \in {0, 1, 2, 3} /\ d + 1 \in 1 .. n /\ (d > 0 => d \in 1 .. n)
      BY <2>1
    <2> QED
      BY <2>2 DEF n
  <1> HIDE DEF rounds, parts, words
  <1>4. \A r \in 1 .. Len(rounds) : IsSeq(parts[r]) /\ Len(parts[r]) = words
    BY <1>2, PermSlotsFacts DEF words
  <1>5. Len(rounds) \in 0 .. 4
    BY DEF rounds
  <1>6. AreSeqs(parts) /\ Len(parts) = Len(rounds)
    <2>1. Len(rounds) \in Nat
      BY <1>5
    <2> QED
      BY <1>2, <1>4, <2>1, PartsAreSeqs
  <1>7. Before(parts, 0) = 0
    <2>1. PICK X : parts \in Seq(Seq(X))
      BY <1>6 DEF AreSeqs
    <2> QED
      BY <2>1, FlattenFacts
  <1>8. ASSUME NEW k \in 1 .. Len(rounds)
        PROVE  /\ Before(parts, k) = Before(parts, k - 1) + words
               /\ InPlace(FlattenSeq(parts), Before(parts, k - 1), words, parts[k])
    BY <1>4, <1>6, PartInPlace
  <1>9. Before(parts, d) = d * words
    <2>1. 1 \in 1 .. Len(rounds) => Before(parts, 1) = words
      <3>1. 1 - 1 = 0
        OBVIOUS
      <3> QED
        BY <1>3, <1>7, <1>8, <3>1
    <2>2. 2 \in 1 .. Len(rounds) => Before(parts, 2) = 2 * words
      <3>1. 2 - 1 = 1 /\ (2 \in 1 .. Len(rounds) => 1 \in 1 .. Len(rounds))
        BY <1>5
      <3> QED
        BY <1>3, <1>8, <2>1, <3>1
    <2>3. 3 \in 1 .. Len(rounds) => Before(parts, 3) = 3 * words
      <3>1. 3 - 1 = 2 /\ (3 \in 1 .. Len(rounds) => 2 \in 1 .. Len(rounds))
        BY <1>5
      <3> QED
        BY <1>3, <1>8, <2>2, <3>1
    <2>4. d \in {0, 1, 2, 3} /\ (d > 0 => d \in 1 .. Len(rounds))
      BY <1>0
    <2>5. 0 * words = 0 /\ 1 * words = words
      BY <1>3
    <2> QED
      BY <1>7, <2>1, <2>2, <2>3, <2>4, <2>5
  <1>10. d + 1 \in 1 .. Len(rounds) /\ (d + 1) - 1 = d /\ d \in {0, 1, 2, 3}
    BY <1>0
  <1>11. InPlace(FlattenSeq(parts), d * words, words, parts[d + 1])
    BY <1>8, <1>9, <1>10
  <1>12. d * words + words = (d + 1) * words
    BY <1>3, <1>10
  <1>13. SubSeq(FlattenSeq(parts), d * words + 1, d * words + words) = parts[d + 1]
    BY <1>11 DEF InPlace
  <1> QED
    BY <1>1, <1>2, <1>10, <1>12, <1>13 DEF words, rounds

\* After the rounds the highest lane of a row holds the terms of all its lanes.
LEMMA RoundsHold ==
  ASSUME NEW ix, OrderOf(ix) = "DisOrder", NEW T, Apart(T),
         NEW lanes, \A l \in Lane : lanes[l] = SetToBag(T[l]),
         NEW h \in Lane, RankOf(ix)[h] = 0
  PROVE  RoundSum(Len(ReductionInfo(ix).rounds), ReductionSlots(ReductionInfo(ix)), lanes)[h]
           = SetToBag(TermsOf(T, RowMates(ix, h)))
  <1> DEFINE n == Len(Rounds(ix))
             slots == ReductionSlots(ReductionInfo(ix))
             words == Vector \div 4
             addrs == [d \in 0 .. n - 1 |-> Perm(SubSeq(slots, d * words + 1, (d + 1) * words))]
             Is(f) == f = [r \in 0 .. n |->
                IF r = 0 THEN lanes
                ELSE AddLanes(Shuffle(f[r - 1], Perm(SubSeq(slots, (r - 1) * words + 1, r * words))),
                              f[r - 1])]
             sum == CHOOSE f : Is(f)
  <1>1. ReductionInfo(ix).rounds = Rounds(ix)
    BY DEF ReductionInfo
  <1>2. RoundSum(n, slots, lanes) = sum[n]
    BY DEF RoundSum
  <1>3. n = reduce_num[LongestRepeat(ix)] /\ n \in 0 .. 4 /\ Reaches(RankOf(ix), n)
    <2>1. n = reduce_num[LongestRepeat(ix)]
      <3> DEFINE m == reduce_num[LongestRepeat(ix)]
      <3>1. m \in Nat
        BY RoundsReach
      <3>2. Rounds(ix) = [r \in 1 .. m |-> Rounds(ix)[r]]
        BY DEF Rounds
      <3> HIDE DEF m
      <3>3. Len(Rounds(ix)) = m
        BY <3>1, <3>2, FunctionIsSeq
      <3> QED
        BY <3>3 DEF m
    <2> HIDE DEF n
    <2> QED
      BY <2>1, RoundsReach
  <1>4. ASSUME NEW d \in 0 .. n - 1
        PROVE  PairsUp(ix, RankOf(ix), Pow(d), addrs[d])
    <2>1. PairsUp(ix, RankOf(ix), Pow(d), Rounds(ix)[d + 1])
      BY RoundsPair
    <2>2. SubSeq(slots, d * words + 1, (d + 1) * words) = PermSlots(Rounds(ix)[d + 1])
      BY <1>3, RoundWordsAt
    <2>3. addrs[d] = Perm(PermSlots(Rounds(ix)[d + 1]))
      BY <2>2
    <2>4. \A l \in Lane : addrs[d][l] = Rounds(ix)[d + 1][l]
      <3> HIDE DEF addrs
      <3> QED
        BY <2>3, PermIsAddr
    <2> HIDE DEF addrs
    <2> QED
      BY <2>1, <2>4 DEF PairsUp
  <1> HIDE DEF n, slots, words
  <1>5. ASSUME NEW r \in 0 .. n, r # 0
        PROVE  addrs[r - 1] = Perm(SubSeq(slots, (r - 1) * words + 1, r * words))
    <2>1. r - 1 \in 0 .. n - 1 /\ (r - 1) + 1 = r
      BY <1>3, <1>5
    <2> QED
      BY <2>1
  <1> HIDE DEF addrs
  <1>6. \A f : Is(f) <=> Shuffled(f, n, addrs, lanes)
    BY <1>5 DEF Shuffled
  <1> HIDE DEF Is
  <1>7. \E f : Is(f)
    <2>1. n \in Nat
      BY <1>3
    <2> QED
      BY <1>6, <2>1, ShuffledExists
  <1>8. Is(sum)
    BY <1>7
  <1> HIDE DEF sum
  <1>9. Ranked(ix, RankOf(ix))
    BY RowsRanked
  <1>10. Shuffled(sum, n, addrs, lanes)
    BY <1>6, <1>8
  <1>11. Holds(ix, RankOf(ix), T, Pow(n), sum[n])
    BY <1>3, <1>4, <1>9, <1>10, EveryLevel
  <1> DEFINE last == sum[n]
  <1>12. Holds(ix, RankOf(ix), T, Pow(n), last)
    BY <1>11
  <1>13. RoundSum(n, slots, lanes)[h] = last[h]
    BY <1>2
  <1> HIDE DEF last
  <1>14. last[h] = SetToBag(TermsOf(T, RowMates(ix, h)))
    <2> DEFINE rank == RankOf(ix)
    <2>1. Ranked(ix, rank) /\ Reaches(rank, n) /\ Holds(ix, rank, T, Pow(n), last)
      BY <1>3, <1>9, <1>12
    <2>2. n \in 0 .. 4 /\ rank[h] = 0
      BY <1>3
    <2> HIDE DEF rank
    <2>3. ASSUME NEW R, NEW L, Ranked(ix, R), Reaches(R, n), Holds(ix, R, T, Pow(n), L), R[h] = 0
          PROVE  L[h] = SetToBag(TermsOf(T, RowMates(ix, h)))
      BY <2>2, <2>3, RowHeld
    <2>4. last[h] = SetToBag(TermsOf(T, RowMates(ix, h)))
      BY <2>1, <2>2, <2>3
    <2> QED
      BY <2>4
  <1> QED
    BY <1>1, <1>13, <1>14 DEF n, slots

\* The sum over the lanes of one row holds all terms.
LEMMA ReduceHolds ==
  ASSUME NEW T, Apart(T), NEW lanes, \A l \in Lane : lanes[l] = SetToBag(T[l])
  PROVE  Reduce(lanes) = SetToBag(TermsOf(T, Lane))
  <1> DEFINE Is(f, n) == f = [l \in 0 .. n |-> IF l = 0 THEN lanes[0] ELSE f[l - 1] (+) lanes[l]]
             V == Vector - 1
             upTo == CHOOSE f : Is(f, V)
             N == {n \in Nat : \E f : Is(f, n)}
  <1>1. Reduce(lanes) = upTo[V]
    BY DEF Reduce, Lane
  <1>2. V \in Nat /\ Lane = 0 .. V
    BY VectorAssumption DEF Lane
  <1> HIDE DEF V
  <1>3. 0 \in N
    <2>1. Is([l \in 0 .. 0 |-> lanes[0]], 0)
      <3>1. \A l \in 0 .. 0 : l = 0
        OBVIOUS
      <3> QED
        BY <3>1
    <2> QED
      BY <2>1
  <1>4. ASSUME NEW n \in Nat, n \in N
        PROVE  n + 1 \in N
    <2>1. PICK f : Is(f, n)
      BY <1>4
    <2> DEFINE g == [l \in 0 .. n + 1 |-> IF l = n + 1 THEN f[n] (+) lanes[n + 1] ELSE f[l]]
    <2>2. ASSUME NEW l \in 0 .. n + 1
          PROVE  g[l] = IF l = 0 THEN lanes[0] ELSE g[l - 1] (+) lanes[l]
      <3>1. CASE l = n + 1
        <4>1. l # 0 /\ l - 1 = n /\ n \in 0 .. n + 1 /\ n # n + 1
          BY <3>1
        <4>2. g[l] = f[n] (+) lanes[n + 1] /\ g[n] = f[n]
          BY <3>1, <4>1
        <4> HIDE DEF g
        <4> QED
          BY <3>1, <4>1, <4>2
      <3>2. CASE l # n + 1
        <4>1. l \in 0 .. n /\ (l # 0 => l - 1 \in 0 .. n + 1 /\ l - 1 # n + 1)
          BY <3>2
        <4>2. g[l] = f[l] /\ (l # 0 => g[l - 1] = f[l - 1])
          BY <3>2, <4>1
        <4>3. f[l] = IF l = 0 THEN lanes[0] ELSE f[l - 1] (+) lanes[l]
          BY <2>1, <4>1
        <4> HIDE DEF g
        <4> QED
          BY <4>2, <4>3
      <3> QED
        BY <3>1, <3>2
    <2>3. g = [l \in 0 .. n + 1 |-> g[l]]
      OBVIOUS
    <2> HIDE DEF g
    <2>4. Is(g, n + 1)
      BY <2>2, <2>3
    <2> QED
      BY <2>4
  <1>5. V \in N
    <2> HIDE DEF N
    <2> QED
      BY <1>2, <1>3, <1>4, SetInduction
  <1>6. Is(upTo, V)
    <2>1. \E f : Is(f, V)
      BY <1>5
    <2> HIDE DEF Is
    <2> QED
      BY <2>1
  <1> HIDE DEF upTo
  <1> DEFINE M == {l \in Nat : l <= V => upTo[l] = SetToBag(TermsOf(T, 0 .. l))}
  <1>7. 0 \in M
    <2>1. upTo[0] = lanes[0] /\ 0 \in Lane
      BY <1>2, <1>6
    <2>2. TermsOf(T, 0 .. 0) = T[0]
      <3>1. 0 .. 0 = {0}
        OBVIOUS
      <3> QED
        BY <3>1 DEF TermsOf
    <2> QED
      BY <2>1, <2>2
  <1>8. ASSUME NEW l \in Nat, l \in M
        PROVE  l + 1 \in M
    <2> SUFFICES ASSUME l + 1 <= V PROVE upTo[l + 1] = SetToBag(TermsOf(T, 0 .. l + 1))
      OBVIOUS
    <2>1. l + 1 \in 0 .. V /\ l + 1 # 0 /\ (l + 1) - 1 = l /\ l <= V
      BY <1>2
    <2>2. upTo[l + 1] = upTo[l] (+) lanes[l + 1]
      BY <1>6, <2>1
    <2>3. upTo[l] = SetToBag(TermsOf(T, 0 .. l))
      BY <1>8, <2>1
    <2>4. lanes[l + 1] = SetToBag(TermsOf(T, {l + 1}))
      <3>1. TermsOf(T, {l + 1}) = T[l + 1]
        BY DEF TermsOf
      <3> QED
        BY <1>2, <2>1, <3>1
    <2>5. 0 .. l \in SUBSET Lane /\ {l + 1} \in SUBSET Lane
      BY <1>2, <2>1
    <2>6. (0 .. l) \cap {l + 1} = {} /\ (0 .. l) \cup {l + 1} = 0 .. l + 1
      OBVIOUS
    <2> QED
      BY <2>2, <2>3, <2>4, <2>5, <2>6, TermsApart
  <1> QED
    <2> HIDE DEF M
    <2>1. V \in M /\ V <= V
      BY <1>2, <1>7, <1>8, SetInduction
    <2> QED
      BY <1>1, <1>2, <2>1 DEF M

-----------------------------------------------------------------------------
(***************************************************************************)
(* Increasing chunks                                                       *)
(***************************************************************************)
\* Every count up to that of all heads is the count up to some head.
LEMMA EveryCount ==
  ASSUME NEW S \in SUBSET Lane, 0 \in S, NEW c \in 1 .. Cardinality(S)
  PROVE  \E h \in S : Cardinality(UpTo(S, h)) = c
  <1> DEFINE Reached(n) == \A b \in 1 .. Cardinality(UpTo(S, n)) :
                             \E h \in S : Cardinality(UpTo(S, h)) = b
             N == {n \in Nat : Reached(n)}
  <1>1. /\ \A l : Cardinality(UpTo(S, l)) \in Nat
        /\ \A l \in Nat : Cardinality(UpTo(S, l + 1))
                            = Cardinality(UpTo(S, l)) + (IF l + 1 \in S THEN 1 ELSE 0)
        /\ Cardinality(UpTo(S, 0)) = 1
        /\ UpTo(S, Vector - 1) = S
    BY UpToStep
  <1>2. 0 \in N
    <2>1. \A b \in 1 .. 1 : b = 1
      OBVIOUS
    <2> QED
      BY <1>1, <2>1
  <1>3. ASSUME NEW n \in Nat, n \in N
        PROVE  n + 1 \in N
    <2> SUFFICES ASSUME NEW b \in 1 .. Cardinality(UpTo(S, n + 1))
                 PROVE  \E h \in S : Cardinality(UpTo(S, h)) = b
      OBVIOUS
    <2> DEFINE before == Cardinality(UpTo(S, n))
    <2>1. /\ before \in Nat
          /\ Cardinality(UpTo(S, n + 1)) = before + (IF n + 1 \in S THEN 1 ELSE 0)
      BY <1>1
    <2>2. CASE b \in 1 .. before
      BY <1>3, <2>2
    <2>3. CASE b \notin 1 .. before
      <3> HIDE DEF before
      <3>1. n + 1 \in S /\ b = before + 1
        BY <2>1, <2>3
      <3>2. Cardinality(UpTo(S, n + 1)) = b
        BY <2>1, <3>1
      <3> QED
        BY <3>1, <3>2
    <2> QED
      BY <2>2, <2>3
  <1>4. Vector - 1 \in N
    <2>1. Vector - 1 \in Nat
      BY VectorAssumption
    <2> HIDE DEF N
    <2> QED
      BY <1>2, <1>3, <2>1, SetInduction
  <1> QED
    BY <1>1, <1>4

\* The number of heads before a head.
LEMMA HeadsBefore ==
  ASSUME NEW S \in SUBSET Lane, NEW h \in S
  PROVE  Cardinality({g \in S : g < h}) = Cardinality(UpTo(S, h)) - 1
  <1>1. h \in Int /\ \A g \in S : g \in Int
    BY DEF Lane
  <1>2. {g \in S : g < h} = UpTo(S, h) \ {h} /\ h \in UpTo(S, h)
    <2>1. \A g \in S : g < h <=> g <= h /\ g # h
      BY <1>1
    <2>2. h <= h
      BY <1>1
    <2> QED
      BY <2>1, <2>2 DEF UpTo
  <1>3. IsFiniteSet(UpTo(S, h))
    BY UpToStep
  <1> QED
    BY <1>2, <1>3, FS_RemoveElement

\* Two heads up to which there are equally many are one.
LEMMA HeadsDiffer ==
  ASSUME NEW S \in SUBSET Lane, NEW g \in S, NEW h \in S,
         Cardinality(UpTo(S, g)) = Cardinality(UpTo(S, h))
  PROVE  g = h
  <1>1. ASSUME NEW a \in S, NEW b \in S, a < b, Cardinality(UpTo(S, a)) = Cardinality(UpTo(S, b))
        PROVE  FALSE
    <2>1. a \in Int /\ b \in Int /\ \A k \in S : k \in Int
      BY DEF Lane
    <2>2. UpTo(S, a) \in SUBSET UpTo(S, b) /\ b \in UpTo(S, b) /\ b \notin UpTo(S, a)
      <3>1. \A k \in S : k <= a => k <= b
        BY <1>1, <2>1
      <3>2. b <= b /\ ~(b <= a)
        BY <1>1, <2>1
      <3> QED
        BY <3>1, <3>2 DEF UpTo
    <2>3. IsFiniteSet(UpTo(S, b))
      BY UpToStep
    <2>4. Cardinality(UpTo(S, b)) = Cardinality(UpTo(S, a)) => UpTo(S, b) = UpTo(S, a)
      BY <2>2, <2>3, FS_Subset
    <2> QED
      BY <1>1, <2>2, <2>4
  <1>2. g \in Int /\ h \in Int
    BY DEF Lane
  <1>3. ~(g < h) /\ ~(h < g)
    BY <1>1
  <1> QED
    BY <1>2, <1>3

\* The lanes that write location r.
RowLanes(ix, r) == {l \in Lane : ix[l] = r}

\* Of an increasing chunk: the lanes of a location are a run, the runs write
\* consecutive locations, and the compress plan moves them to the front.
LEMMA RunsAreRows ==
  ASSUME NEW ix \in [Lane -> Nat], OrderOf(ix) = "IncContinue", NEW r
  PROVE  LET mask == OrderedInfo(ix).mask
             runs == Cardinality(LanesIn(mask))
         IN /\ r \in ix[0] .. ix[0] + runs - 1 =>
                 /\ r - ix[0] \in Lane
                 /\ CompressAddr(mask)[r - ix[0]] \in LanesIn(mask)
                 /\ CompressAddr(mask)[r - ix[0]] # Vector
                 /\ {m \in Lane : HeadOf(mask, m) = CompressAddr(mask)[r - ix[0]]}
                      = RowLanes(ix, r)
            /\ r \notin ix[0] .. ix[0] + runs - 1 => RowLanes(ix, r) = {}
  <1> DEFINE mask == OrderedInfo(ix).mask
             S == Heads(ix)
             runs == Cardinality(S)
             base == ix[0]
  <1>1. LanesIn(mask) = S /\ S \in SUBSET Lane /\ 0 \in S
    BY MaskIsHeads
  <1>2. base \in Nat /\ \A l \in Lane : l \in Nat /\ ix[l] \in Nat
    BY VectorAssumption DEF Lane
  <1> HIDE DEF mask, S, base
  <1>3. ASSUME NEW m \in Lane
        PROVE  /\ ix[m] = base + Cardinality(UpTo(S, m)) - 1
               /\ Cardinality(UpTo(S, m)) \in 1 .. runs
    <2>1. ix[m] = base + Cardinality(UpTo(S, m)) - 1
      BY IndexOfLane DEF S, base
    <2>2. UpTo(S, m) \in SUBSET S /\ 0 \in UpTo(S, m)
      <3>1. 0 <= m
        BY <1>2
      <3> QED
        BY <1>1, <3>1 DEF UpTo
    <2>3. /\ IsFiniteSet(S) /\ runs \in Nat
          /\ IsFiniteSet(UpTo(S, m)) /\ Cardinality(UpTo(S, m)) \in Nat
      BY <1>1, UpToStep
    <2>4. Cardinality(UpTo(S, m)) <= runs
      BY <2>2, <2>3, FS_Subset
    <2>5. Cardinality(UpTo(S, m)) # 0
      BY <2>2, <2>3, FS_EmptySet
    <2> HIDE DEF runs
    <2> QED
      BY <2>1, <2>3, <2>4, <2>5
  <1>4. ASSUME NEW h \in S, NEW m \in Lane
        PROVE  HeadOf(mask, m) = h <=> ix[m] = ix[h]
    <2> DEFINE g == HeadOf(mask, m)
    <2>1. /\ g \in S /\ g \in Lane /\ g <= m
          /\ \A k \in S : k <= m => k <= g
      BY <1>1, HeadFacts
    <2> HIDE DEF g
    <2>2. UpTo(S, m) = UpTo(S, g)
      <3>1. \A k \in S : k \in Nat /\ m \in Nat /\ g \in Nat
        BY <1>1, <1>2, <2>1
      <3>2. \A k \in S : k <= g => k <= m
        BY <2>1, <3>1
      <3> QED
        BY <2>1, <3>2 DEF UpTo
    <2>3. h \in Lane
      BY <1>1
    <2>4. ix[m] = ix[h] <=> Cardinality(UpTo(S, g)) = Cardinality(UpTo(S, h))
      <3> DEFINE a == Cardinality(UpTo(S, g))
                 b == Cardinality(UpTo(S, h))
      <3>1. ix[m] = base + a - 1 /\ ix[h] = base + b - 1 /\ a \in Nat /\ b \in Nat
        <4>1. Cardinality(UpTo(S, g)) \in 1 .. runs /\ Cardinality(UpTo(S, h)) \in 1 .. runs
          BY <1>3, <2>1, <2>3
        <4>2. ix[m] = base + Cardinality(UpTo(S, m)) - 1 /\ ix[h] = base + Cardinality(UpTo(S, h)) - 1
          BY <1>3, <2>3
        <4> QED
          BY <2>2, <4>1, <4>2
      <3> HIDE DEF a, b
      <3>2. ix[m] = ix[h] <=> a = b
        BY <1>2, <3>1
      <3> QED
        BY <3>2 DEF a, b
    <2>5. Cardinality(UpTo(S, g)) = Cardinality(UpTo(S, h)) => g = h
      BY <1>1, <2>1, HeadsDiffer
    <2> QED
      BY <2>4, <2>5 DEF g
  <1>5. ASSUME r \in base .. base + runs - 1
        PROVE  LET h == CompressAddr(mask)[r - base] IN
               /\ r - base \in Lane /\ h \in S /\ h # Vector
               /\ {m \in Lane : HeadOf(mask, m) = h} = RowLanes(ix, r)
    <2> DEFINE k == r - base
               h == CompressAddr(mask)[k]
    <2>1. IsFiniteSet(Lane) /\ Cardinality(Lane) = Vector /\ Vector \in Nat
      <3>1. 0 \in Int /\ Vector - 1 \in Int /\ Vector \in Nat /\ ~(0 > Vector - 1)
        BY VectorAssumption
      <3>2. /\ IsFiniteSet(Lane)
            /\ Cardinality(Lane) = IF 0 > Vector - 1 THEN 0 ELSE (Vector - 1) - 0 + 1
        BY <3>1, FS_Interval DEF Lane
      <3> QED
        BY <3>1, <3>2
    <2>2. runs \in Nat /\ runs <= Vector
      BY <1>1, <2>1, FS_Subset, FS_CardinalityType
    <2>3. k \in Nat /\ k < runs /\ k \in Lane /\ k + 1 \in 1 .. runs /\ r = base + k
      <3> HIDE DEF runs
      <3> QED
        BY <1>2, <1>5, <2>1, <2>2 DEF Lane
    <2>4. h = CHOOSE c \in S : Cardinality({g \in S : g < c}) = k
      BY <1>1, <2>3 DEF CompressAddr
    <2>5. \E c \in S : Cardinality({g \in S : g < c}) = k
      <3>1. PICK c \in S : Cardinality(UpTo(S, c)) = k + 1
        BY <1>1, <2>3, EveryCount
      <3>2. Cardinality({g \in S : g < c}) = Cardinality(UpTo(S, c)) - 1
        BY <1>1, HeadsBefore
      <3>3. k \in Nat
        BY <2>3
      <3> HIDE DEF k
      <3>4. Cardinality({g \in S : g < c}) = k
        BY <3>1, <3>2, <3>3
      <3> QED
        BY <3>4
    <2> HIDE DEF h, k
    <2>6. h \in S /\ Cardinality({g \in S : g < h}) = k
      BY <2>4, <2>5
    <2>7. h \in Lane /\ h # Vector
      BY <1>1, <2>6, VectorAssumption DEF Lane
    <2>8. ix[h] = r
      <3>1. Cardinality({g \in S : g < h}) = Cardinality(UpTo(S, h)) - 1
        BY <1>1, <2>6, HeadsBefore
      <3>2. ix[h] = base + Cardinality(UpTo(S, h)) - 1 /\ Cardinality(UpTo(S, h)) \in 1 .. runs
        BY <1>3, <2>7
      <3> DEFINE c == Cardinality(UpTo(S, h))
      <3>3. ix[h] = base + c - 1 /\ c \in Nat /\ k = c - 1
        BY <2>6, <3>1, <3>2
      <3> HIDE DEF c
      <3> QED
        BY <1>2, <2>3, <3>3
    <2>9. {m \in Lane : HeadOf(mask, m) = h} = RowLanes(ix, r)
      BY <1>4, <2>6, <2>8 DEF RowLanes
    <2> QED
      BY <2>3, <2>6, <2>7, <2>9 DEF h, k
  <1>6. ASSUME r \notin base .. base + runs - 1
        PROVE  RowLanes(ix, r) = {}
    <2>1. ASSUME NEW m \in Lane PROVE ix[m] # r
      <3> DEFINE c == Cardinality(UpTo(S, m))
      <3>1. ix[m] = base + c - 1 /\ c \in 1 .. runs
        BY <1>3
      <3>2. runs \in Nat
        BY <1>1, UpToStep
      <3> HIDE DEF c, runs
      <3>3. ix[m] \in base .. base + runs - 1
        BY <1>2, <3>1, <3>2
      <3> QED
        BY <1>6, <3>3 DEF runs
    <2> QED
      BY <2>1 DEF RowLanes
  <1> QED
    BY <1>1, <1>5, <1>6 DEF mask, S, base

-----------------------------------------------------------------------------
(***************************************************************************)
(* One iteration                                                           *)
(***************************************************************************)
\* The highest lane of a location has no lane of its row above it.
LEMMA LastWriter ==
  ASSUME NEW ix, NEW r, RowLanes(ix, r) # {}
  PROVE  /\ Max(RowLanes(ix, r)) \in RowLanes(ix, r)
         /\ RankOf(ix)[Max(RowLanes(ix, r))] = 0
         /\ RowMates(ix, Max(RowLanes(ix, r))) = RowLanes(ix, r)
  <1> DEFINE S == RowLanes(ix, r)
             h == Max(S)
  <1>1. S \in SUBSET Nat /\ S # {} /\ Vector \in Nat /\ \A x \in S : x <= Vector
    BY VectorAssumption DEF RowLanes, Lane
  <1>2. h \in S /\ \A x \in S : x <= h
    <2> HIDE DEF S
    <2> QED
      BY <1>1, GreatestElement
  <1> HIDE DEF h
  <1>3. h \in Lane /\ ix[h] = r
    BY <1>2 DEF RowLanes
  <1>4. Above(ix, h) = {}
    <2>1. ASSUME NEW m \in Lane, ix[m] = ix[h] PROVE ~(m > h)
      <3>1. m \in S
        BY <1>3, <2>1 DEF RowLanes
      <3>2. m \in Int /\ h \in Int
        BY <1>1, <1>2, <3>1
      <3> QED
        BY <1>2, <3>1, <3>2
    <2> QED
      BY <2>1 DEF Above
  <1>5. RankOf(ix)[h] = 0
    BY <1>3, <1>4, FS_EmptySet DEF RankOf
  <1>6. RowMates(ix, h) = S
    BY <1>3 DEF RowMates, RowLanes
  <1> QED
    BY <1>2, <1>5, <1>6 DEF h

\* Location r of the output holds the terms Y[r], none of which a lane holds.
Filled(old, Y) == \A r \in DOMAIN old : old[r] = SetToBag(Y[r])
Fresh(old, Y, T) == \A r \in DOMAIN old : \A l \in Lane : Y[r] \cap T[l] = {}

\* The output with the terms of every lane in the row of the lane.
AddedTo(old, Y, T, ix) == [r \in DOMAIN old |-> SetToBag(Y[r] \cup TermsOf(T, RowLanes(ix, r)))]

\* One iteration adds to every location the terms of the lanes that write it,
\* and nothing else, whatever the order of the chunk (OptimizationPass::pass_(Add)
\* and pass_(Scatter)).
THEOREM AccumulatedIsSum ==
  ASSUME NEW ix \in [Lane -> Nat], NEW T, Apart(T),
         NEW lanes, \A l \in Lane : lanes[l] = SetToBag(T[l]),
         NEW old, NEW Y, Filled(old, Y), Fresh(old, Y, T),
         NEW perms, OrderOf(ix) = "DisOrder" => perms = ReductionSlots(ReductionInfo(ix))
  PROVE  Accumulated(old, RowCode(ScatterInfo(ix), ReductionInfo(ix)),
                     GatherSlots(ScatterInfo(ix)), perms, lanes) = AddedTo(old, Y, T, ix)
  <1> USE DEF Filled, Fresh, AddedTo
  <1> DEFINE code == RowCode(ScatterInfo(ix), ReductionInfo(ix))
             slots == GatherSlots(ScatterInfo(ix))
             base == Index(slots[1])
             runs == Cardinality(LanesIn(code.mask))
             new == Accumulated(old, code, slots, perms, lanes)
             Sum(r) == SetToBag(Y[r] \cup TermsOf(T, RowLanes(ix, r)))
  <1>1. /\ code.order = OrderOf(ix) /\ code.mask = ScatterInfo(ix).mask
        /\ code.rounds = Len(ReductionInfo(ix).rounds)
    BY DEF RowCode, ScatterInfo, OrderedInfo
  <1>2. OrderOf(ix) # "DisOrder" => ScatterInfo(ix) = OrderedInfo(ix) /\ base = ix[0]
    <2> SUFFICES ASSUME OrderOf(ix) # "DisOrder"
                 PROVE  ScatterInfo(ix) = OrderedInfo(ix) /\ base = ix[0]
      OBVIOUS
    <2>1. ScatterInfo(ix) = OrderedInfo(ix)
      BY DEF ScatterInfo
    <2>2. /\ OrderedInfo(ix).order # "DisOrder" /\ OrderedInfo(ix).index[1] = ix[0]
      BY DEF OrderedInfo
    <2>3. IndexCount(OrderedInfo(ix)) = 1
      BY <2>2 DEF IndexCount
    <2>4. slots[1] = IndexSlot(ix[0])
      BY <2>1, <2>2, <2>3, SlotsLaidOut
    <2> QED
      BY <2>1, <2>4 DEF Index, IndexSlot
  <1>3. OrderOf(ix) = "DisOrder" => \A l \in Lane : Index(slots[l + 1]) = ix[l]
    <2> SUFFICES ASSUME OrderOf(ix) = "DisOrder", NEW l \in Lane PROVE Index(slots[l + 1]) = ix[l]
      OBVIOUS
    <2> DEFINE info == ScatterInfo(ix)
    <2>1. info.order = "DisOrder" /\ info.mask = Vector /\ info.index = [p \in 1 .. Vector |-> ix[p - 1]]
      BY DEF ScatterInfo, AllIndices
    <2>2. IndexCount(info) = Vector
      <3> HIDE DEF info
      <3> QED
        BY <2>1, VectorAssumption DEF IndexCount
    <2>3. l + 1 \in 1 .. Vector /\ (l + 1) - 1 = l
      BY VectorAssumption DEF Lane
    <2>4. info.index[l + 1] = ix[l]
      <3> HIDE DEF info
      <3> QED
        BY <2>1, <2>3
    <2>5. slots[l + 1] = IndexSlot(ix[l])
      <3>1. Vector \in Nat
        BY VectorAssumption
      <3> HIDE DEF info
      <3>2. GatherSlots(info)[l + 1] = IndexSlot(info.index[l + 1])
        BY <2>2, <2>3, <3>1, SlotsLaidOut
      <3> QED
        BY <2>4, <3>2 DEF info
    <2> QED
      BY <2>5 DEF Index, IndexSlot
  <1>4. ASSUME NEW r \in DOMAIN old, NEW D \in SUBSET Lane
        PROVE  SetToBag(Y[r]) (+) SetToBag(TermsOf(T, D)) = SetToBag(Y[r] \cup TermsOf(T, D))
    <2>1. Y[r] \cap TermsOf(T, D) = {}
      BY DEF TermsOf
    <2> QED
      BY <2>1, BagsApart
  <1>5. ASSUME NEW r \in DOMAIN old, RowLanes(ix, r) = {}
        PROVE  old[r] = Sum(r)
    <2>1. TermsOf(T, {}) = {}
      BY DEF TermsOf
    <2>2. Y[r] \cup {} = Y[r]
      OBVIOUS
    <2> QED
      BY <1>5, <2>1, <2>2
  <1> HIDE DEF code, slots, base, runs, Sum
  <1>6. CASE OrderOf(ix) = "OrderEquel"
    <2>1. new = [r \in DOMAIN old |-> IF r = base THEN old[r] (+) Reduce(lanes) ELSE old[r]]
      BY <1>1, <1>6 DEF Accumulated, base
    <2>2. Reduce(lanes) = SetToBag(TermsOf(T, Lane))
      BY ReduceHolds
    <2>3. ASSUME NEW r \in DOMAIN old
          PROVE  (IF r = base THEN old[r] (+) Reduce(lanes) ELSE old[r]) = Sum(r)
      <3>1. CASE r = base
        <4>1. RowLanes(ix, r) = Lane
          BY <1>2, <1>6, <3>1, OneIndex DEF RowLanes
        <4>2. old[r] (+) Reduce(lanes) = SetToBag(Y[r] \cup TermsOf(T, Lane))
          BY <1>4, <2>2
        <4> QED
          BY <3>1, <4>1, <4>2 DEF Sum
      <3>2. CASE r # base
        <4>1. RowLanes(ix, r) = {}
          BY <1>2, <1>6, <3>2, OneIndex DEF RowLanes
        <4> QED
          BY <1>5, <3>2, <4>1
      <3> QED
        BY <3>1, <3>2
    <2> HIDE DEF new
    <2> QED
      BY <2>1, <2>3 DEF new, Sum, code, slots
  <1>7. CASE OrderOf(ix) = "IncContinue"
    <2> DEFINE mask == code.mask
               front == Shuffle(TreeSum(mask, lanes), CompressAddr(mask))
    <2>1. new = [r \in DOMAIN old |-> IF r \in base .. base + runs - 1
                                        THEN old[r] (+) front[r - base] ELSE old[r]]
      BY <1>1, <1>7 DEF Accumulated, base, runs
    <2>2. mask = OrderedInfo(ix).mask /\ base = ix[0] /\ runs = Cardinality(LanesIn(mask))
      BY <1>1, <1>2, <1>7 DEF runs
    <2>3. 0 \in LanesIn(mask)
      BY <1>7, <2>2, MaskIsHeads
    <2>4. ASSUME NEW r \in DOMAIN old
          PROVE  (IF r \in base .. base + runs - 1 THEN old[r] (+) front[r - base] ELSE old[r]) = Sum(r)
      <3>1. CASE r \in base .. base + runs - 1
        <4> DEFINE h == CompressAddr(mask)[r - base]
        <4>1. /\ r - base \in Lane /\ h \in LanesIn(mask) /\ h # Vector
              /\ {m \in Lane : HeadOf(mask, m) = h} = RowLanes(ix, r)
          BY <1>7, <2>2, <3>1, RunsAreRows
        <4>2. front[r - base] = TreeSum(mask, lanes)[h]
          BY <4>1 DEF Shuffle
        <4> HIDE DEF h, front, mask
        <4>3. TreeSum(mask, lanes)[h] = SetToBag(TermsOf(T, {m \in Lane : HeadOf(mask, m) = h}))
          BY <2>3, <4>1, TreeHolds
        <4>4. RowLanes(ix, r) \in SUBSET Lane
          BY DEF RowLanes
        <4>5. front[r - base] = SetToBag(TermsOf(T, RowLanes(ix, r)))
          BY <4>1, <4>2, <4>3
        <4> QED
          BY <1>4, <3>1, <4>4, <4>5 DEF Sum
      <3>2. CASE r \notin base .. base + runs - 1
        <4>1. RowLanes(ix, r) = {}
          BY <1>7, <2>2, <3>2, RunsAreRows
        <4> QED
          BY <1>5, <3>2, <4>1
      <3> QED
        BY <3>1, <3>2
    <2> HIDE DEF new, front, mask
    <2> QED
      BY <2>1, <2>4 DEF new, Sum, code, slots
  <1>8. CASE OrderOf(ix) = "DisOrder"
    <2> DEFINE rows == [l \in Lane |-> Index(slots[l + 1])]
               sum == RoundSum(code.rounds, perms, lanes)
               Writers(r) == {l \in Lane : rows[l] = r}
    <2>1. new = [r \in DOMAIN old |-> IF Writers(r) = {} THEN old[r] ELSE old[r] (+) sum[Max(Writers(r))]]
      BY <1>1, <1>8 DEF Accumulated, ScatterAdd
    <2>2. ASSUME NEW r PROVE Writers(r) = RowLanes(ix, r)
      BY <1>3, <1>8 DEF RowLanes
    <2>3. ASSUME NEW h \in Lane, RankOf(ix)[h] = 0
          PROVE  sum[h] = SetToBag(TermsOf(T, RowMates(ix, h)))
      BY <1>1, <1>8, <2>3, RoundsHold
    <2> HIDE DEF rows, sum, Writers
    <2>4. ASSUME NEW r \in DOMAIN old
          PROVE  (IF Writers(r) = {} THEN old[r] ELSE old[r] (+) sum[Max(Writers(r))]) = Sum(r)
      <3>1. CASE RowLanes(ix, r) = {}
        BY <1>5, <2>2, <3>1
      <3>2. CASE RowLanes(ix, r) # {}
        <4> DEFINE h == Max(RowLanes(ix, r))
        <4>1. h \in RowLanes(ix, r) /\ RankOf(ix)[h] = 0 /\ RowMates(ix, h) = RowLanes(ix, r)
          BY <3>2, LastWriter
        <4>2. RowLanes(ix, r) \in SUBSET Lane
          BY DEF RowLanes
        <4> HIDE DEF h
        <4>3. sum[h] = SetToBag(TermsOf(T, RowLanes(ix, r)))
          BY <2>3, <4>1, <4>2
        <4>4. sum[Max(Writers(r))] = sum[h]
          BY <2>2 DEF h
        <4> QED
          BY <1>4, <2>2, <3>2, <4>2, <4>3, <4>4 DEF Sum
      <3> QED
        BY <3>1, <3>2
    <2> HIDE DEF new
    <2> QED
      BY <2>1, <2>4 DEF new, Sum, code, slots
  <1> QED
    BY <1>6, <1>7, <1>8, OrderIsOne
=============================================================================
