--------------------------- MODULE LineDiffProofs ---------------------------
(***************************************************************************)
(* lineDiff's preview is true for every two texts unless it was cut, and    *)
(* minimal unless one of them is too long.                                  *)
(*                                                                         *)
(* Its loops are recursive functions that step through the indices, so the *)
(* proofs are inductions over how much of the two texts is left.  An       *)
(* induction is stated about a set, the arguments for which the claim      *)
(* holds, and rests on the least element of its complement.                *)
(***************************************************************************)
EXTENDS LineDiff, SequencesExt, SequenceTheorems, WellFoundedInduction, TLAPS

(* Induction and recursion by a measure. *)

LEMMA LeastExists ==
  ASSUME NEW T, T \subseteq Nat, T # {}
  PROVE  \E x \in T : \A y \in T : x <= y
<1> DEFINE R == OpToRel(<, Nat)
<1>1. IsWellFoundedOn(R, Nat)
  BY NatLessThanWellFounded
<1>2. \A x, y \in Nat : <<y, x>> \notin R => x <= y
  <2>1. TAKE x, y \in Nat
  <2>2. HAVE <<y, x>> \notin R
  <2>3. ~(y < x)
    BY <2>2 DEF OpToRel
  <2>4. QED
    BY <2>3
<1>3. \E x \in T : \A y \in T : <<y, x>> \notin R
  <2> HIDE DEF R
  <2>1. QED
    BY <1>1, WFMin
<1> HIDE DEF R
<1>4. QED
  BY <1>2, <1>3

\* Named, as the backends do not recognize an inequality under quantifiers.
Lesser(m, y, x) == m[y] < m[x]
Bounded(m, D, N) == \A x \in D : m[x] < N
Recurs(f, G, D) == \A x \in D : f[x] = G[<<f, x>>]
LooksBelow(G, D, V, m) ==
  \A g, h \in [D -> V], x \in D :
    (\A y \in D : Lesser(m, y, x) => g[y] = h[y]) => G[<<g, x>>] = G[<<h, x>>]

\* What holds of x whenever it holds of all that measures less holds everywhere.
LEMMA MeasureInduction ==
  ASSUME NEW D, NEW m \in [D -> Nat], NEW T,
         \A x \in D : (\A y \in D : Lesser(m, y, x) => y \in T) => x \in T
  PROVE  D \subseteq T
<1> SUFFICES ASSUME D \ T # {} PROVE FALSE
  OBVIOUS
<1> DEFINE M == {m[x] : x \in D \ T}
<1>1. M \subseteq Nat /\ M # {}
  OBVIOUS
<1>2. PICK n \in M : \A k \in M : n <= k
  BY <1>1, LeastExists
<1>3. PICK x \in D \ T : n = m[x]
  OBVIOUS
<1>4. ASSUME NEW y \in D, Lesser(m, y, x) PROVE y \in T
  <2>1. SUFFICES ASSUME y \notin T PROVE FALSE
    OBVIOUS
  <2>2. m[y] \in M
    BY <2>1
  <2>3. m[x] <= m[y] /\ m[x] \in Nat /\ m[y] \in Nat
    BY <1>2, <1>3, <2>2
  <2>4. QED
    BY <1>4, <2>3 DEF Lesser
<1>5. QED
  BY <1>3, <1>4

LEMMA Induction ==
  ASSUME NEW T, 0 \in T, \A n \in Nat : n \in T => n + 1 \in T
  PROVE  Nat \subseteq T
<1> SUFFICES ASSUME Nat \ T # {} PROVE FALSE
  OBVIOUS
<1>1. PICK n \in Nat \ T : \A k \in Nat \ T : n <= k
  BY LeastExists
<1>2. n # 0 /\ n - 1 \in Nat
  BY <1>1
<1>3. n - 1 \in T
  BY <1>1, <1>2
<1>4. QED
  BY <1>1, <1>2, <1>3

\* A function can be defined by what it does with its values at lesser arguments.
LEMMA RecursionExists ==
  ASSUME NEW D, NEW m \in [D -> Nat], NEW N \in Nat, Bounded(m, D, N),
         NEW V, V # {}, NEW G \in [[D -> V] \X D -> V],
         LooksBelow(G, D, V, m)
  PROVE  \E f \in [D -> V] : Recurs(f, G, D)
<1> DEFINE Below(f, n) == \A x \in D : m[x] < n => f[x] = G[<<f, x>>]
           P == {n \in Nat : \E f \in [D -> V] : Below(f, n)}
<1>1. 0 \in P
  <2>1. PICK some \in V : TRUE
    OBVIOUS
  <2>2. [x \in D |-> some] \in [D -> V] /\ Below([x \in D |-> some], 0)
    OBVIOUS
  <2>3. QED
    BY <2>2
<1>2. ASSUME NEW n \in Nat, n \in P PROVE n + 1 \in P
  <2>1. PICK f \in [D -> V] : Below(f, n)
    BY <1>2
  <2> DEFINE g == [x \in D |-> IF m[x] = n THEN G[<<f, x>>] ELSE f[x]]
  <2>2. g \in [D -> V]
    OBVIOUS
  <2>3. Below(g, n + 1)
    <3> SUFFICES ASSUME NEW x \in D, m[x] < n + 1 PROVE g[x] = G[<<g, x>>]
      OBVIOUS
    <3>1. \A y \in D : Lesser(m, y, x) => g[y] = f[y]
      BY DEF Lesser
    <3>2. G[<<g, x>>] = G[<<f, x>>]
      <4> HIDE DEF g
      <4>1. QED
        BY <2>2, <3>1 DEF LooksBelow
    <3>3. m[x] \in Nat
      OBVIOUS
    <3>4. m[x] = n \/ m[x] < n
      BY <3>3, SMTT(30)
    <3>5. g[x] = G[<<f, x>>]
      BY <2>1, <3>4
    <3>6. QED
      BY <3>2, <3>5
  <2> HIDE DEF g, Below
  <2>4. n + 1 \in Nat
    OBVIOUS
  <2>5. QED
    BY <2>2, <2>3, <2>4
<1> HIDE DEF P
<1>3. Nat \subseteq P
  BY <1>1, <1>2, Induction
<1>4. PICK f \in [D -> V] : Below(f, N)
  BY <1>3 DEF P, Bounded
<1>5. QED
  BY <1>4 DEF Bounded, Recurs
-----------------------------------------------------------------------------
(* The community modules' FlattenSeq, whose definition is recursive. *)

\* What FlattenSeq has joined, piece after piece, after the first n.
Joins(f, p, n) == f = [i \in 1..n |-> IF i = 1 THEN p[i] ELSE f[i - 1] \o p[i]]

\* The pieces up to the ith, by those before it.
Joined(f, p, i) ==
  /\ i = 1 => f[i] = p[i]
  /\ i # 1 => f[i] = f[i - 1] \o p[i]

LEMMA JoinsAt ==
  ASSUME NEW f, NEW p, NEW n \in Nat, Joins(f, p, n), NEW i \in 1..n
  PROVE  Joined(f, p, i)
BY DEF Joins, Joined

LEMMA JoinsExists ==
  ASSUME NEW p, NEW n \in Nat
  PROVE  \E f : Joins(f, p, n)
<1> DEFINE T == {k \in Nat : \E f : Joins(f, p, k)}
<1>1. 0 \in T
  <2>1. Joins([i \in 1..0 |-> 0], p, 0)
    BY DEF Joins
  <2>2. QED
    BY <2>1
<1>2. ASSUME NEW k \in Nat, k \in T PROVE k + 1 \in T
  <2>1. PICK f : Joins(f, p, k)
    BY <1>2
  <2> DEFINE g == [i \in 1..k + 1 |-> IF i = k + 1 THEN (IF k = 0 THEN p[1] ELSE f[k] \o p[k + 1]) ELSE f[i]]
  <2>2. ASSUME NEW i \in 1..k + 1 PROVE g[i] = IF i = 1 THEN p[i] ELSE g[i - 1] \o p[i]
    <3>1. CASE i = k + 1 /\ k = 0
      BY <3>1
    <3>2. CASE i = k + 1 /\ k # 0
      <4>0. k \in 1..k + 1 /\ k # k + 1 /\ i - 1 = k /\ i # 1
        BY <3>2
      <4>1. g[k] = f[k] /\ g[i] = f[k] \o p[k + 1]
        BY <3>2, <4>0
      <4>2. QED
        BY <3>2, <4>0, <4>1
    <3>3. CASE i # k + 1
      <4>1. i \in 1..k /\ (i # 1 => i - 1 \in 1..k /\ g[i - 1] = f[i - 1]) /\ g[i] = f[i]
        BY <3>3
      <4>2. f[i] = IF i = 1 THEN p[i] ELSE f[i - 1] \o p[i]
        BY <2>1, <4>1 DEF Joins
      <4>3. QED
        BY <4>1, <4>2
    <3>4. QED
      BY <3>1, <3>2, <3>3
  <2>3. g = [i \in 1..k + 1 |-> IF i = 1 THEN p[i] ELSE g[i - 1] \o p[i]]
    <3>1. g = [i \in 1..k + 1 |-> g[i]]
      OBVIOUS
    <3> HIDE DEF g
    <3>2. QED
      BY <2>2, <3>1
  <2> HIDE DEF g
  <2>4. Joins(g, p, k + 1)
    BY <2>3 DEF Joins
  <2>5. QED
    BY <2>4
<1> HIDE DEF T
<1>3. Nat \subseteq T
  BY <1>1, <1>2, Induction
<1>4. QED
  BY <1>3 DEF T

LEMMA FlattenJoins ==
  ASSUME NEW p, Len(p) \in Nat, Len(p) # 0
  PROVE  \E f : Joins(f, p, Len(p)) /\ FlattenSeq(p) = f[Len(p)]
<1> DEFINE f == CHOOSE f : Joins(f, p, Len(p))
<1>1. Joins(f, p, Len(p))
  BY JoinsExists
<1>2. FlattenSeq(p) = f[Len(p)]
  BY DEF FlattenSeq, Joins
<1> HIDE DEF f
<1>3. QED
  BY <1>1, <1>2

LEMMA JoinsAgree ==
  ASSUME NEW p, NEW q, NEW f, NEW g, NEW n \in Nat, NEW m \in Nat, n <= m,
         Joins(f, p, n), Joins(g, q, m), \A i \in 1..n : p[i] = q[i]
  PROVE  \A i \in 1..n : f[i] = g[i]
<1> DEFINE T == {k \in Nat : k \in 1..n => f[k] = g[k]}
<1>1. 0 \in T
  OBVIOUS
<1>2. ASSUME NEW k \in Nat, k \in T PROVE k + 1 \in T
  <2> SUFFICES ASSUME k + 1 \in 1..n PROVE f[k + 1] = g[k + 1]
    OBVIOUS
  <2> DEFINE i == k + 1
  <2>1. i \in 1..n /\ i \in 1..m /\ i - 1 = k /\ (i = 1 <=> k = 0) /\ p[i] = q[i]
    OBVIOUS
  <2>2. k # 0 => f[k] = g[k]
    BY <1>2
  <2> HIDE DEF i
  <2>3. Joined(f, p, i)
    BY <2>1, JoinsAt
  <2>4. Joined(g, q, i)
    BY <2>1, JoinsAt
  <2>5. f[i] = g[i]
    BY <2>1, <2>2, <2>3, <2>4 DEF Joined
  <2>6. QED
    BY <2>5 DEF i
<1> HIDE DEF T
<1>3. Nat \subseteq T
  BY <1>1, <1>2, Induction
<1>4. QED
  BY <1>3 DEF T

\* Joining nothing, and one piece more.
LEMMA FlattenEmpty == FlattenSeq(<<>>) = <<>>
BY DEF FlattenSeq

LEMMA FlattenAppend ==
  ASSUME NEW S, NEW p \in Seq(Seq(S)), NEW x \in Seq(S)
  PROVE  FlattenSeq(Append(p, x)) = FlattenSeq(p) \o x
<1> DEFINE q == Append(p, x)
           n == Len(p)
<1>1. /\ n \in Nat /\ Len(q) = n + 1 /\ q[n + 1] = x
      /\ \A i \in 1..n : p[i] = q[i]
  OBVIOUS
<1> HIDE DEF q
<1>2. PICK g : Joins(g, q, n + 1) /\ FlattenSeq(q) = g[n + 1]
  BY <1>1, FlattenJoins
<1>3. CASE n = 0
  <2>1. p = <<>>
    BY <1>3
  <2>2. FlattenSeq(p) \o x = x
    BY <2>1, FlattenEmpty, ConcatEmptySeq
  <2>3. g[1] = q[1]
    BY <1>2, <1>3 DEF Joins
  <2>4. QED
    BY <1>1, <1>2, <1>3, <2>2, <2>3 DEF q
<1>4. CASE n # 0
  <2>1. PICK f : Joins(f, p, n) /\ FlattenSeq(p) = f[n]
    BY <1>1, <1>4, FlattenJoins
  <2> HIDE DEF n
  <2>2. n + 1 \in Nat /\ n <= n + 1 /\ n \in 1..n
    BY <1>1, <1>4
  <2>3. f[n] = g[n]
    BY <1>1, <1>2, <2>1, <2>2, JoinsAgree
  <2> DEFINE m == n + 1
  <2>4. m \in Nat /\ m \in 1..m /\ m # 1 /\ m - 1 = n
    BY <1>1, <1>4
  <2>5. Joins(g, q, m)
    BY <1>2
  <2> HIDE DEF m
  <2>6. Joined(g, q, m)
    BY <2>4, <2>5, JoinsAt
  <2>7. g[m] = g[m - 1] \o q[m]
    BY <2>4, <2>6 DEF Joined
  <2>8. QED
    BY <1>1, <1>2, <2>1, <2>3, <2>4, <2>7 DEF q, m
<1>5. QED
  BY <1>3, <1>4

LEMMA FlattenType ==
  ASSUME NEW S, NEW p \in Seq(Seq(S))
  PROVE  FlattenSeq(p) \in Seq(S)
<1>1. CASE p = <<>>
  <2>1. <<>> \in Seq(S)
    OBVIOUS
  <2>2. QED
    BY <1>1, <2>1, FlattenEmpty
<1>2. CASE p # <<>>
  <2> DEFINE n == Len(p)
  <2>1. n \in Nat /\ n # 0 /\ \A i \in 1..n : p[i] \in Seq(S)
    BY <1>2
  <2>2. PICK f : Joins(f, p, n) /\ FlattenSeq(p) = f[n]
    BY <2>1, FlattenJoins
  <2> DEFINE T == {k \in Nat : k \in 1..n => f[k] \in Seq(S)}
  <2>3. 0 \in T
    OBVIOUS
  <2>4. ASSUME NEW k \in Nat, k \in T PROVE k + 1 \in T
    <3> SUFFICES ASSUME k + 1 \in 1..n PROVE f[k + 1] \in Seq(S)
      OBVIOUS
    <3> DEFINE i == k + 1
    <3>1. i \in 1..n /\ i - 1 = k /\ (i = 1 <=> k = 0) /\ p[i] \in Seq(S) /\ (k # 0 => f[k] \in Seq(S))
      BY <2>1, <2>4
    <3> HIDE DEF i, n
    <3>2. Joined(f, p, i)
      BY <2>1, <2>2, <3>1, JoinsAt
    <3>3. k # 0 => f[k] \o p[i] \in Seq(S)
      BY <3>1
    <3>4. f[i] \in Seq(S)
      BY <3>1, <3>2, <3>3 DEF Joined
    <3>5. QED
      BY <3>4 DEF i
  <2> HIDE DEF T, n
  <2>5. Nat \subseteq T
    BY <2>3, <2>4, Induction
  <2>6. QED
    BY <2>1, <2>2, <2>5 DEF T
<1>3. QED
  BY <1>1, <1>2

LEMMA FlattenOne ==
  ASSUME NEW S, NEW x \in Seq(S)
  PROVE  FlattenSeq(<<x>>) = x
<1>1. <<x>> = Append(<<>>, x) /\ <<>> \in Seq(Seq(S))
  OBVIOUS
<1>2. FlattenSeq(<<x>>) = <<>> \o x
  BY <1>1, FlattenAppend, FlattenEmpty
<1>3. QED
  BY <1>2, ConcatEmptySeq

LEMMA FlattenConcat ==
  ASSUME NEW S, NEW p \in Seq(Seq(S)), NEW q \in Seq(Seq(S))
  PROVE  FlattenSeq(p \o q) = FlattenSeq(p) \o FlattenSeq(q)
<1> DEFINE V == Seq(Seq(S))
           First(k) == SubSeq(q, 1, k)
           T == {k \in Nat : k <= Len(q) => FlattenSeq(p \o First(k)) = FlattenSeq(p) \o FlattenSeq(First(k))}
<1>0. \A s, t, u \in Seq(S) : (s \o t) \o u = s \o (t \o u)
  BY ConcatAssociative
<1>1. 0 \in T
  <2>1. First(0) = <<>>
    OBVIOUS
  <2>2. FlattenSeq(p) \in Seq(S)
    BY FlattenType
  <2>3. p \o <<>> = p /\ FlattenSeq(p) \o <<>> = FlattenSeq(p)
    BY <2>2, ConcatEmptySeq
  <2>4. QED
    BY <2>1, <2>3, FlattenEmpty
<1>2. ASSUME NEW k \in Nat, k \in T PROVE k + 1 \in T
  <2> SUFFICES ASSUME k + 1 <= Len(q)
               PROVE  FlattenSeq(p \o First(k + 1)) = FlattenSeq(p) \o FlattenSeq(First(k + 1))
    OBVIOUS
  <2> DEFINE x == q[k + 1]
  <2>1. x \in Seq(S) /\ First(k) \in V /\ First(k + 1) \in V /\ p \o First(k) \in V
    OBVIOUS
  <2>2. First(k + 1) = Append(First(k), x)
    OBVIOUS
  <2>3. p \o First(k + 1) = Append(p \o First(k), x)
    BY <2>2
  <2> HIDE DEF x, First
  <2>4. FlattenSeq(p \o First(k + 1)) = FlattenSeq(p \o First(k)) \o x
    BY <2>1, <2>3, FlattenAppend
  <2>5. FlattenSeq(First(k + 1)) = FlattenSeq(First(k)) \o x
    BY <2>1, <2>2, FlattenAppend
  <2>6. FlattenSeq(p) \in Seq(S) /\ FlattenSeq(First(k)) \in Seq(S)
    BY <2>1, FlattenType
  <2>7. FlattenSeq(p \o First(k)) = FlattenSeq(p) \o FlattenSeq(First(k))
    BY <1>2
  <2> DEFINE a == FlattenSeq(p)
             b == FlattenSeq(First(k))
  <2>10. a \in Seq(S) /\ b \in Seq(S) /\ x \in Seq(S)
    BY <2>1, <2>6
  <2> HIDE DEF a, b
  <2>11. (a \o b) \o x = a \o (b \o x)
    BY <1>0, <2>10
  <2>8. (FlattenSeq(p) \o FlattenSeq(First(k))) \o x = FlattenSeq(p) \o (FlattenSeq(First(k)) \o x)
    BY <2>11 DEF a, b
  <2>9. QED
    BY <2>4, <2>5, <2>7, <2>8
<1> HIDE DEF T
<1>3. Nat \subseteq T
  BY <1>1, <1>2, Induction
<1>4. Len(q) \in Nat /\ Len(q) <= Len(q) /\ First(Len(q)) = q
  OBVIOUS
<1> HIDE DEF First
<1>5. Len(q) \in T
  BY <1>3, <1>4
<1>6. QED
  BY <1>4, <1>5 DEF T

\* What is in a joined sequence is what is in its pieces.
Elements(s) == {s[k] : k \in DOMAIN s}
ElementsBelow(p, n) == UNION {Elements(p[i]) : i \in 1..n}

LEMMA ElementsOfConcat ==
  ASSUME NEW S, NEW s \in Seq(S), NEW t \in Seq(S)
  PROVE  Elements(s \o t) = Elements(s) \cup Elements(t)
<1>1. /\ Len(s) \in Nat /\ Len(t) \in Nat /\ Len(s \o t) = Len(s) + Len(t)
      /\ DOMAIN s = 1..Len(s) /\ DOMAIN t = 1..Len(t) /\ DOMAIN (s \o t) = 1..Len(s) + Len(t)
  OBVIOUS
<1>2. ASSUME NEW i \in 1..Len(s) PROVE (s \o t)[i] = s[i]
  OBVIOUS
<1>3. ASSUME NEW i \in 1..Len(t) PROVE i + Len(s) \in DOMAIN (s \o t) /\ (s \o t)[i + Len(s)] = t[i]
  OBVIOUS
<1>4. ASSUME NEW i \in DOMAIN (s \o t) PROVE (s \o t)[i] \in Elements(s) \cup Elements(t)
  <2>1. CASE i <= Len(s)
    <3>1. i \in 1..Len(s)
      BY <1>1, <2>1
    <3>2. QED
      BY <1>1, <1>2, <3>1 DEF Elements
  <2>2. CASE ~(i <= Len(s))
    <3>1. i - Len(s) \in 1..Len(t) /\ (i - Len(s)) + Len(s) = i
      BY <1>1, <2>2
    <3>2. (s \o t)[i] = t[i - Len(s)]
      BY <1>3, <3>1
    <3>3. QED
      BY <1>1, <3>1, <3>2 DEF Elements
  <2>3. QED
    BY <2>1, <2>2
<1>5. ASSUME NEW v \in Elements(s) \cup Elements(t) PROVE v \in Elements(s \o t)
  <2>1. CASE v \in Elements(s)
    <3>1. PICK i \in 1..Len(s) : v = s[i]
      BY <1>1, <2>1 DEF Elements
    <3>2. i \in DOMAIN (s \o t)
      BY <1>1
    <3>3. QED
      BY <1>2, <3>1, <3>2 DEF Elements
  <2>2. CASE v \in Elements(t)
    <3>1. PICK i \in 1..Len(t) : v = t[i]
      BY <1>1, <2>2 DEF Elements
    <3>2. QED
      BY <1>3, <3>1 DEF Elements
  <2>3. QED
    BY <2>1, <2>2
<1>6. QED
  BY <1>4, <1>5 DEF Elements

LEMMA FlattenElements ==
  ASSUME NEW S, NEW p \in Seq(Seq(S))
  PROVE  Elements(FlattenSeq(p)) = ElementsBelow(p, Len(p))
<1> DEFINE First(k) == SubSeq(p, 1, k)
           T == {k \in Nat : k <= Len(p) => Elements(FlattenSeq(First(k))) = ElementsBelow(p, k)}
<1>1. 0 \in T
  <2>1. First(0) = <<>> /\ ElementsBelow(p, 0) = {} /\ Elements(<<>>) = {}
    BY DEF ElementsBelow, Elements
  <2>2. QED
    BY <2>1, FlattenEmpty
<1>2. ASSUME NEW k \in Nat, k \in T PROVE k + 1 \in T
  <2> SUFFICES ASSUME k + 1 <= Len(p)
               PROVE  Elements(FlattenSeq(First(k + 1))) = ElementsBelow(p, k + 1)
    OBVIOUS
  <2> DEFINE x == p[k + 1]
             before == FlattenSeq(First(k))
  <2>1. x \in Seq(S) /\ First(k) \in Seq(Seq(S)) /\ First(k + 1) = Append(First(k), x)
    OBVIOUS
  <2>2. Elements(before) = ElementsBelow(p, k)
    BY <1>2
  <2>3. ElementsBelow(p, k + 1) = ElementsBelow(p, k) \cup Elements(x)
    <3>1. 1..k + 1 = (1..k) \cup {k + 1}
      OBVIOUS
    <3>2. QED
      BY <3>1 DEF ElementsBelow
  <2> HIDE DEF First, x
  <2>4. FlattenSeq(First(k + 1)) = before \o x
    BY <2>1, FlattenAppend
  <2>5. before \in Seq(S)
    BY <2>1, FlattenType
  <2> HIDE DEF before
  <2>6. Elements(before \o x) = Elements(before) \cup Elements(x)
    BY <2>1, <2>5, ElementsOfConcat
  <2>7. QED
    BY <2>2, <2>3, <2>4, <2>6
<1> HIDE DEF T
<1>3. Nat \subseteq T
  BY <1>1, <1>2, Induction
<1>4. Len(p) \in Nat /\ Len(p) <= Len(p) /\ First(Len(p)) = p
  OBVIOUS
<1> HIDE DEF First
<1>5. QED
  BY <1>3, <1>4 DEF T
-----------------------------------------------------------------------------
(* The loops do what their bodies say. *)

\* How many lines of the two texts are left.
LeftOf(a, b, i, j) == (Len(a) + 1 - i) + (Len(b) + 1 - j)

LEMMA CellsAre ==
  ASSUME NEW a, NEW b, Len(a) \in Nat, Len(b) \in Nat
  PROVE  /\ \A p \in Cells(a, b) : /\ p = <<p[1], p[2]>>
                                   /\ p[1] \in 1..Len(a) + 1 /\ p[2] \in 1..Len(b) + 1
                                   /\ LeftOf(a, b, p[1], p[2]) \in 0..Len(a) + Len(b)
         /\ \A i \in 1..Len(a) + 1, j \in 1..Len(b) + 1 : <<i, j>> \in Cells(a, b)
BY SMTT(30) DEF Cells, LeftOf

\* An entry that has lines on both sides looks at the three beyond it.
LEMMA CellsBeyond ==
  ASSUME NEW a, NEW b, Len(a) \in Nat, Len(b) \in Nat, NEW i \in 1..Len(a), NEW j \in 1..Len(b)
  PROVE  /\ <<i + 1, j + 1>> \in Cells(a, b) /\ <<i + 1, j>> \in Cells(a, b) /\ <<i, j + 1>> \in Cells(a, b)
         /\ LeftOf(a, b, i + 1, j + 1) < LeftOf(a, b, i, j)
         /\ LeftOf(a, b, i + 1, j) < LeftOf(a, b, i, j)
         /\ LeftOf(a, b, i, j + 1) < LeftOf(a, b, i, j)
BY DEF Cells, LeftOf

LEMMA CommonIsCollected ==
  ASSUME NEW S, NEW a \in Seq(S), NEW b \in Seq(S), NEW dp
  PROVE  /\ Common(a, b, dp) \in [Cells(a, b) -> Seq(S)]
         /\ \A p \in Cells(a, b) :
              Common(a, b, dp)[p] = Collected(a, b, dp, Common(a, b, dp), p[1], p[2])
<1> DEFINE D == Cells(a, b)
           m == [p \in D |-> LeftOf(a, b, p[1], p[2])]
           V == Seq(S)
           N == Len(a) + Len(b) + 1
           Body(f, p) == Collected(a, b, dp, f, p[1], p[2])
           G == [z \in [D -> V] \X D |-> Body(z[1], z[2])]
<1>1. Len(a) \in Nat /\ Len(b) \in Nat /\ <<>> \in V /\ V # {}
  OBVIOUS
<1>2. m \in [D -> Nat]
  BY <1>1, CellsAre
<1>0. N \in Nat /\ Bounded(m, D, N)
  BY <1>1, CellsAre DEF Bounded
<1>3. ASSUME NEW f, NEW p \in D, \A q \in D : Lesser(m, q, p) => f[q] \in V
      PROVE  Body(f, p) \in V
  <2>1. CASE p[1] > Len(a) \/ p[2] > Len(b)
    BY <2>1, <1>1 DEF Collected
  <2>2. CASE p[1] \in 1..Len(a) /\ p[2] \in 1..Len(b)
    <3>1. /\ f[<<p[1] + 1, p[2] + 1>>] \in V /\ f[<<p[1] + 1, p[2]>>] \in V
          /\ f[<<p[1], p[2] + 1>>] \in V
      BY <1>1, <1>3, <2>2, CellsBeyond DEF Lesser
    <3>2. <<a[p[1]]>> \o f[<<p[1] + 1, p[2] + 1>>] \in V
      BY <3>1, <2>2
    <3>3. QED
      BY <2>2, <3>1, <3>2 DEF Collected
  <2>3. QED
    BY <1>1, <2>1, <2>2, CellsAre
<1>4. ASSUME NEW f \in [D -> V], NEW g \in [D -> V], NEW p \in D,
             \A q \in D : Lesser(m, q, p) => f[q] = g[q]
      PROVE  Body(f, p) = Body(g, p)
  <2>1. CASE p[1] > Len(a) \/ p[2] > Len(b)
    BY <2>1 DEF Collected
  <2>2. CASE p[1] \in 1..Len(a) /\ p[2] \in 1..Len(b)
    <3>1. /\ f[<<p[1] + 1, p[2] + 1>>] = g[<<p[1] + 1, p[2] + 1>>]
          /\ f[<<p[1] + 1, p[2]>>] = g[<<p[1] + 1, p[2]>>]
          /\ f[<<p[1], p[2] + 1>>] = g[<<p[1], p[2] + 1>>]
      BY <1>1, <1>4, <2>2, CellsBeyond DEF Lesser
    <3>2. QED
      BY <2>2, <3>1 DEF Collected
  <2>3. QED
    BY <1>1, <2>1, <2>2, CellsAre
<1>5. G \in [[D -> V] \X D -> V]
  BY <1>3
<1>6. LooksBelow(G, D, V, m)
  BY <1>4 DEF LooksBelow
<1>7. \E f \in [D -> V] : Recurs(f, G, D)
  <2>1. V # {}
    BY <1>1
  <2> HIDE DEF D, m, V, N, G, Body
  <2>2. QED
    BY <1>0, <1>2, <1>5, <1>6, <2>1, RecursionExists
<1> HIDE DEF m, Body
<1>8. PICK f \in [D -> V] : \A p \in D : f[p] = Body(f, p)
  BY <1>7 DEF Recurs
<1> DEFINE rest == CHOOSE rest : rest = [p \in D |-> Body(rest, p)]
<1>9. f = [p \in D |-> Body(f, p)]
  BY <1>8
<1>10. rest = [p \in D |-> Body(rest, p)]
  BY <1>9
<1>11. Common(a, b, dp) = rest
  BY DEF Common, Body
<1> HIDE DEF rest
<1>12. \A p \in D : rest[p] = Body(rest, p)
  BY <1>10
<1>13. D \subseteq {p \in D : rest[p] \in V}
  <2> DEFINE T == {p \in D : rest[p] \in V}
  <2>1. \A p \in D : (\A q \in D : Lesser(m, q, p) => q \in T) => p \in T
    BY <1>3, <1>12
  <2> HIDE DEF T, D, m, V
  <2>2. D \subseteq T
    BY <1>2, <2>1, MeasureInduction
  <2>3. QED
    BY <2>2 DEF T
<1>14. rest \in [D -> V]
  BY <1>10, <1>13
<1>15. QED
  BY <1>11, <1>12, <1>14 DEF Body

LEMMA TableIsFilled ==
  ASSUME NEW S, NEW a \in Seq(S), NEW b \in Seq(S)
  PROVE  /\ Table(a, b) \in [Cells(a, b) -> Nat]
         /\ \A p \in Cells(a, b) : Table(a, b)[p] = Cell(a, b, Table(a, b), p[1], p[2])
<1> DEFINE D == Cells(a, b)
           m == [p \in D |-> LeftOf(a, b, p[1], p[2])]
           N == Len(a) + Len(b) + 1
           Body(f, p) == Cell(a, b, f, p[1], p[2])
           G == [z \in [D -> Nat] \X D |-> Body(z[1], z[2])]
<1>1. Len(a) \in Nat /\ Len(b) \in Nat
  OBVIOUS
<1>2. m \in [D -> Nat]
  BY <1>1, CellsAre
<1>3. N \in Nat /\ Bounded(m, D, N)
  BY <1>1, CellsAre DEF Bounded
<1>4. ASSUME NEW f, NEW p \in D, \A q \in D : Lesser(m, q, p) => f[q] \in Nat
      PROVE  Body(f, p) \in Nat
  <2>1. CASE p[1] > Len(a) \/ p[2] > Len(b)
    BY <2>1 DEF Cell
  <2>2. CASE p[1] \in 1..Len(a) /\ p[2] \in 1..Len(b)
    <3>1. /\ f[<<p[1] + 1, p[2] + 1>>] \in Nat /\ f[<<p[1] + 1, p[2]>>] \in Nat
          /\ f[<<p[1], p[2] + 1>>] \in Nat
      BY <1>1, <1>4, <2>2, CellsBeyond DEF Lesser
    <3>2. f[<<p[1] + 1, p[2] + 1>>] + 1 \in Nat
      BY <3>1
    <3>3. QED
      BY <2>2, <3>1, <3>2 DEF Cell
  <2>3. QED
    BY <1>1, <2>1, <2>2, CellsAre
<1>5. ASSUME NEW f \in [D -> Nat], NEW g \in [D -> Nat], NEW p \in D,
             \A q \in D : Lesser(m, q, p) => f[q] = g[q]
      PROVE  Body(f, p) = Body(g, p)
  <2>1. CASE p[1] > Len(a) \/ p[2] > Len(b)
    BY <2>1 DEF Cell
  <2>2. CASE p[1] \in 1..Len(a) /\ p[2] \in 1..Len(b)
    <3>1. /\ f[<<p[1] + 1, p[2] + 1>>] = g[<<p[1] + 1, p[2] + 1>>]
          /\ f[<<p[1] + 1, p[2]>>] = g[<<p[1] + 1, p[2]>>]
          /\ f[<<p[1], p[2] + 1>>] = g[<<p[1], p[2] + 1>>]
      BY <1>1, <1>5, <2>2, CellsBeyond DEF Lesser
    <3>2. QED
      BY <2>2, <3>1 DEF Cell
  <2>3. QED
    BY <1>1, <2>1, <2>2, CellsAre
<1>6. G \in [[D -> Nat] \X D -> Nat]
  BY <1>4
<1>7. LooksBelow(G, D, Nat, m)
  BY <1>5 DEF LooksBelow
<1>8. \E f \in [D -> Nat] : Recurs(f, G, D)
  <2> HIDE DEF D, m, N, G, Body
  <2>1. QED
    BY <1>2, <1>3, <1>6, <1>7, RecursionExists
<1> HIDE DEF m, Body
<1>9. PICK f \in [D -> Nat] : \A p \in D : f[p] = Body(f, p)
  BY <1>8 DEF Recurs
<1> DEFINE dp == CHOOSE dp : dp = [p \in D |-> Body(dp, p)]
<1>10. f = [p \in D |-> Body(f, p)]
  BY <1>9
<1>11. dp = [p \in D |-> Body(dp, p)]
  BY <1>10
<1>12. Table(a, b) = dp
  BY DEF Table, Body
<1> HIDE DEF dp
<1>13. \A p \in D : dp[p] = Body(dp, p)
  BY <1>11
<1>14. D \subseteq {p \in D : dp[p] \in Nat}
  <2> DEFINE T == {p \in D : dp[p] \in Nat}
  <2>1. \A p \in D : (\A q \in D : Lesser(m, q, p) => q \in T) => p \in T
    BY <1>4, <1>13
  <2> HIDE DEF T, D, m
  <2>2. D \subseteq T
    BY <1>2, <2>1, MeasureInduction
  <2>3. QED
    BY <2>2 DEF T
<1>15. dp \in [D -> Nat]
  BY <1>11, <1>14
<1>16. QED
  BY <1>12, <1>13, <1>15 DEF Body

\* The lines of a preview.  The marks have names, as the backends keep string literals
\* apart from other values.
Same == " "
Gone == "-"
Fresh == "+"
OldHeader == "old"
NewHeader == "new"
AllMarks == {" ", "-", "+", "old", "new"}
OldMarks == {" ", "-", "old"}
NewMarks == {" ", "+", "new"}
SameMarks == {" "}
Marks(S) == [mark : AllMarks, line : S]

LEMMA MarksAre ==
  /\ Same \in AllMarks /\ Gone \in AllMarks /\ Fresh \in AllMarks
  /\ Same \in OldMarks /\ Gone \in OldMarks /\ Fresh \notin OldMarks
  /\ Same \in NewMarks /\ Gone \notin NewMarks /\ Fresh \in NewMarks
  /\ Same \in SameMarks /\ Gone \notin SameMarks /\ Fresh \notin SameMarks
  /\ OldHeader \in AllMarks /\ OldHeader \in OldMarks /\ OldHeader \notin NewMarks
  /\ NewHeader \in AllMarks /\ NewHeader \notin OldMarks /\ NewHeader \in NewMarks
BY DEF Same, Gone, Fresh, OldHeader, NewHeader, AllMarks, OldMarks, NewMarks, SameMarks

LEMMA PlacesAre ==
  ASSUME NEW a, NEW b, NEW c, Len(a) \in Nat, Len(b) \in Nat, Len(c) \in Nat
  PROVE  /\ \A p \in Places(a, b, c) :
              /\ p = <<p[1], p[2], p[3]>>
              /\ p[1] \in 1..Len(a) + 1 /\ p[2] \in 1..Len(b) + 1 /\ p[3] \in 1..Len(c) + 1
              /\ LeftOf(a, b, p[1], p[2]) \in 0..Len(a) + Len(b)
         /\ \A i \in 1..Len(a) + 1, j \in 1..Len(b) + 1, l \in 1..Len(c) + 1 :
              <<i, j, l>> \in Places(a, b, c)
<1>1. \A p \in Places(a, b, c) : p = <<p[1], p[2], p[3]>>
  BY DEF Places
<1>2. \A p \in Places(a, b, c) :
        p[1] \in 1..Len(a) + 1 /\ p[2] \in 1..Len(b) + 1 /\ p[3] \in 1..Len(c) + 1
  BY DEF Places
<1>3. \A i \in 1..Len(a) + 1, j \in 1..Len(b) + 1 : LeftOf(a, b, i, j) \in 0..Len(a) + Len(b)
  BY DEF LeftOf
<1>4. \A i \in 1..Len(a) + 1, j \in 1..Len(b) + 1, l \in 1..Len(c) + 1 :
        <<i, j, l>> \in Places(a, b, c)
  BY DEF Places
<1>5. QED
  BY <1>1, <1>2, <1>3, <1>4

\* The steps of the loop: past a line of both texts, of the old one, of the new one.
LEMMA PlacesBeyond ==
  ASSUME NEW a, NEW b, NEW c, Len(a) \in Nat, Len(b) \in Nat, Len(c) \in Nat,
         NEW i \in 1..Len(a) + 1, NEW j \in 1..Len(b) + 1, NEW l \in 1..Len(c) + 1
  PROVE  /\ i <= Len(a) /\ j <= Len(b) /\ l <= Len(c)
              => /\ <<i + 1, j + 1, l + 1>> \in Places(a, b, c)
                 /\ LeftOf(a, b, i + 1, j + 1) < LeftOf(a, b, i, j)
         /\ i <= Len(a) => /\ <<i + 1, j, l>> \in Places(a, b, c)
                           /\ LeftOf(a, b, i + 1, j) < LeftOf(a, b, i, j)
         /\ j <= Len(b) => /\ <<i, j + 1, l>> \in Places(a, b, c)
                           /\ LeftOf(a, b, i, j + 1) < LeftOf(a, b, i, j)
<1>1. \A x \in 1..Len(a) + 1, y \in 1..Len(b) + 1, z \in 1..Len(c) + 1 : <<x, y, z>> \in Places(a, b, c)
  BY DEF Places
<1>2. /\ LeftOf(a, b, i + 1, j + 1) < LeftOf(a, b, i, j)
      /\ LeftOf(a, b, i + 1, j) < LeftOf(a, b, i, j)
      /\ LeftOf(a, b, i, j + 1) < LeftOf(a, b, i, j)
  BY DEF LeftOf
<1>3. /\ i <= Len(a) => i + 1 \in 1..Len(a) + 1
      /\ j <= Len(b) => j + 1 \in 1..Len(b) + 1
      /\ l <= Len(c) => l + 1 \in 1..Len(c) + 1
  OBVIOUS
<1>4. QED
  BY <1>1, <1>2, <1>3

LEMMA Consing ==
  ASSUME NEW T, NEW x \in T, NEW s \in Seq(T)
  PROVE  /\ <<x>> \o s \in Seq(T) /\ Len(<<x>> \o s) = Len(s) + 1
         /\ (<<x>> \o s)[1] = x
         /\ \A k \in 1..Len(s) : (<<x>> \o s)[k + 1] = s[k]
OBVIOUS

LEMMA LoopPrints ==
  ASSUME NEW S, NEW a \in Seq(S), NEW b \in Seq(S), NEW c \in Seq(S)
  PROVE  /\ Loop(a, b, c) \in [Places(a, b, c) -> Seq(Marks(S))]
         /\ \A p \in Places(a, b, c) :
              Loop(a, b, c)[p] = Printed(a, b, c, Loop(a, b, c), p[1], p[2], p[3])
<1> DEFINE D == Places(a, b, c)
           m == [p \in D |-> LeftOf(a, b, p[1], p[2])]
           V == Seq(Marks(S))
           N == Len(a) + Len(b) + 1
           Body(f, p) == Printed(a, b, c, f, p[1], p[2], p[3])
           G == [z \in [D -> V] \X D |-> Body(z[1], z[2])]
           Done(p) == p[1] > Len(a) /\ p[2] > Len(b)
           Both(p) == /\ p[3] <= Len(c) /\ p[1] <= Len(a) /\ a[p[1]] = c[p[3]]
                      /\ p[2] <= Len(b) /\ b[p[2]] = c[p[3]]
           Old(p) == p[1] <= Len(a) /\ (p[3] > Len(c) \/ a[p[1]] # c[p[3]])
           New(p) == p[2] <= Len(b)
<1>0. Len(a) \in Nat /\ Len(b) \in Nat /\ Len(c) \in Nat
  OBVIOUS
<1>1. <<>> \in V /\ V # {}
  BY EmptySeq
<1>2. m \in [D -> Nat]
  BY <1>0, PlacesAre
<1>3. N \in Nat /\ Bounded(m, D, N)
  BY <1>0, PlacesAre DEF Bounded
<1>4. ASSUME NEW p \in D
      PROVE  /\ Both(p) \/ Old(p) => p[1] \in 1..Len(a)
             /\ New(p) => p[2] \in 1..Len(b)
             /\ Both(p) => /\ <<p[1] + 1, p[2] + 1, p[3] + 1>> \in D
                           /\ Lesser(m, <<p[1] + 1, p[2] + 1, p[3] + 1>>, p)
             /\ Old(p) => <<p[1] + 1, p[2], p[3]>> \in D /\ Lesser(m, <<p[1] + 1, p[2], p[3]>>, p)
             /\ New(p) => <<p[1], p[2] + 1, p[3]>> \in D /\ Lesser(m, <<p[1], p[2] + 1, p[3]>>, p)
  <2>1. p[1] \in 1..Len(a) + 1 /\ p[2] \in 1..Len(b) + 1 /\ p[3] \in 1..Len(c) + 1
    BY <1>0, PlacesAre
  <2>2. (Both(p) \/ Old(p) => p[1] \in 1..Len(a)) /\ (New(p) => p[2] \in 1..Len(b))
    BY <1>0, <2>1
  <2>3. QED
    BY <1>0, <2>1, <2>2, PlacesBeyond DEF Lesser
<1>5. ASSUME NEW mark \in AllMarks, NEW x \in S, NEW s \in V
      PROVE  Marked(mark, x) \o s \in V
  <2>1. [mark |-> mark, line |-> x] \in Marks(S)
    BY DEF Marks
  <2>2. QED
    BY <2>1, Consing DEF Marked
<1>6. ASSUME NEW f, NEW p \in D, \A q \in D : Lesser(m, q, p) => f[q] \in V
      PROVE  Body(f, p) \in V
  <2>1. CASE Done(p)
    BY <1>1, <2>1 DEF Printed
  <2>2. CASE ~Done(p) /\ Both(p)
    <3>1. Body(f, p) = Marked(Same, a[p[1]]) \o f[<<p[1] + 1, p[2] + 1, p[3] + 1>>]
      BY <2>2 DEF Printed, Same
    <3>2. f[<<p[1] + 1, p[2] + 1, p[3] + 1>>] \in V
      BY <1>4, <1>6, <2>2
    <3>3. p[1] \in 1..Len(a)
      BY <1>4, <2>2
    <3>4. a[p[1]] \in S
      BY <3>3, ElementOfSeq
    <3>5. QED
      BY <1>5, <3>1, <3>2, <3>4, MarksAre
  <2>3. CASE ~Done(p) /\ ~Both(p) /\ Old(p)
    <3>1. Body(f, p) = Marked(Gone, a[p[1]]) \o f[<<p[1] + 1, p[2], p[3]>>]
      BY <2>3 DEF Printed, Gone
    <3>2. f[<<p[1] + 1, p[2], p[3]>>] \in V
      BY <1>4, <1>6, <2>3
    <3>3. p[1] \in 1..Len(a)
      BY <1>4, <2>3
    <3>4. a[p[1]] \in S
      BY <3>3, ElementOfSeq
    <3>5. QED
      BY <1>5, <3>1, <3>2, <3>4, MarksAre
  <2>4. CASE ~Done(p) /\ ~Both(p) /\ ~Old(p) /\ New(p)
    <3>1. Body(f, p) = Marked(Fresh, b[p[2]]) \o f[<<p[1], p[2] + 1, p[3]>>]
      BY <2>4 DEF Printed, Fresh
    <3>2. f[<<p[1], p[2] + 1, p[3]>>] \in V
      BY <1>4, <1>6, <2>4
    <3>3. p[2] \in 1..Len(b)
      BY <1>4, <2>4
    <3>4. b[p[2]] \in S
      BY <3>3, ElementOfSeq
    <3>5. QED
      BY <1>5, <3>1, <3>2, <3>4, MarksAre
  <2>5. CASE ~Done(p) /\ ~Both(p) /\ ~Old(p) /\ ~New(p)
    BY <1>1, <2>5 DEF Printed, Panic
  <2>6. QED
    BY <2>1, <2>2, <2>3, <2>4, <2>5
<1>7. ASSUME NEW f \in [D -> V], NEW g \in [D -> V], NEW p \in D,
             \A q \in D : Lesser(m, q, p) => f[q] = g[q]
      PROVE  Body(f, p) = Body(g, p)
  <2>1. CASE Both(p)
    BY <1>4, <1>7, <2>1 DEF Printed
  <2>2. CASE ~Both(p) /\ Old(p)
    BY <1>4, <1>7, <2>2 DEF Printed
  <2>3. CASE ~Both(p) /\ ~Old(p) /\ New(p)
    BY <1>4, <1>7, <2>3 DEF Printed
  <2>4. CASE ~Both(p) /\ ~Old(p) /\ ~New(p)
    BY <2>4 DEF Printed
  <2>5. QED
    BY <2>1, <2>2, <2>3, <2>4
<1>8. G \in [[D -> V] \X D -> V]
  BY <1>6
<1>9. LooksBelow(G, D, V, m)
  BY <1>7 DEF LooksBelow
<1>10. \E f \in [D -> V] : Recurs(f, G, D)
  <2>1. V # {}
    BY <1>1
  <2> HIDE DEF D, m, V, N, G, Body
  <2>2. QED
    BY <1>2, <1>3, <1>8, <1>9, <2>1, RecursionExists
<1> HIDE DEF m, Body
<1>11. PICK f \in [D -> V] : \A p \in D : f[p] = Body(f, p)
  BY <1>10 DEF Recurs
<1> DEFINE from == CHOOSE from : from = [p \in D |-> Body(from, p)]
<1>12. f = [p \in D |-> Body(f, p)]
  BY <1>11
<1>13. from = [p \in D |-> Body(from, p)]
  BY <1>12
<1>14. Loop(a, b, c) = from
  BY DEF Loop, Body
<1> HIDE DEF from
<1>15. \A p \in D : from[p] = Body(from, p)
  BY <1>13
<1>16. D \subseteq {p \in D : from[p] \in V}
  <2> DEFINE T == {p \in D : from[p] \in V}
  <2>1. \A p \in D : (\A q \in D : Lesser(m, q, p) => q \in T) => p \in T
    BY <1>6, <1>15
  <2> HIDE DEF T, D, m, V
  <2>2. D \subseteq T
    BY <1>2, <2>1, MeasureInduction
  <2>3. QED
    BY <2>2 DEF T
<1>17. from \in [D -> V]
  BY <1>13, <1>16
<1>18. QED
  BY <1>14, <1>15, <1>17 DEF Body

LEMMA LinesArePicked ==
  ASSUME NEW S, NEW d \in Seq(Marks(S)), NEW marks
  PROVE  /\ LinesFrom(d, marks) \in [1..Len(d) + 1 -> Seq(S)]
         /\ \A k \in 1..Len(d) + 1 :
              LinesFrom(d, marks)[k] = Picked(d, marks, LinesFrom(d, marks), k)
<1> DEFINE D == 1..Len(d) + 1
           m == [k \in D |-> Len(d) + 1 - k]
           V == Seq(S)
           N == Len(d) + 2
           Body(f, k) == Picked(d, marks, f, k)
           G == [z \in [D -> V] \X D |-> Body(z[1], z[2])]
<1>1. Len(d) \in Nat
  OBVIOUS
<1>2. <<>> \in V /\ V # {}
  BY EmptySeq
<1>3. m \in [D -> Nat]
  BY <1>1
<1>4. N \in Nat /\ Bounded(m, D, N)
  BY <1>1 DEF Bounded
<1>5. \A k \in D : k > Len(d) \/ (k \in 1..Len(d) /\ k + 1 \in D /\ Lesser(m, k + 1, k))
  BY <1>1 DEF Lesser
<1>6. ASSUME NEW f, NEW k \in D, \A q \in D : Lesser(m, q, k) => f[q] \in V
      PROVE  Body(f, k) \in V
  <2>1. CASE k > Len(d)
    BY <1>2, <2>1 DEF Picked
  <2>2. CASE ~(k > Len(d))
    <3>1. k \in 1..Len(d) /\ f[k + 1] \in V
      BY <1>5, <1>6, <2>2
    <3>2. d[k].line \in S
      <4>1. d[k] \in Marks(S)
        BY <3>1, ElementOfSeq
      <4>2. QED
        BY <4>1 DEF Marks
    <3>3. (IF d[k].mark \in marks THEN <<d[k].line>> ELSE <<>>) \in V
      BY <1>2, <3>2
    <3>4. QED
      BY <2>2, <3>1, <3>3 DEF Picked
  <2>3. QED
    BY <2>1, <2>2
<1>7. ASSUME NEW f \in [D -> V], NEW g \in [D -> V], NEW k \in D,
             \A q \in D : Lesser(m, q, k) => f[q] = g[q]
      PROVE  Body(f, k) = Body(g, k)
  BY <1>5, <1>7 DEF Picked
<1>8. G \in [[D -> V] \X D -> V]
  BY <1>6
<1>9. LooksBelow(G, D, V, m)
  BY <1>7 DEF LooksBelow
<1>10. \E f \in [D -> V] : Recurs(f, G, D)
  <2>1. V # {}
    BY <1>2
  <2> HIDE DEF D, m, V, N, G, Body
  <2>2. QED
    BY <1>3, <1>4, <1>8, <1>9, <2>1, RecursionExists
<1> HIDE DEF m, Body
<1>11. PICK f \in [D -> V] : \A k \in D : f[k] = Body(f, k)
  BY <1>10 DEF Recurs
<1> DEFINE rest == CHOOSE rest : rest = [k \in D |-> Body(rest, k)]
<1>12. f = [k \in D |-> Body(f, k)]
  BY <1>11
<1>13. rest = [k \in D |-> Body(rest, k)]
  BY <1>12
<1>14. LinesFrom(d, marks) = rest
  BY DEF LinesFrom, Body
<1> HIDE DEF rest
<1>15. \A k \in D : rest[k] = Body(rest, k)
  BY <1>13
<1>16. D \subseteq {k \in D : rest[k] \in V}
  <2> DEFINE T == {k \in D : rest[k] \in V}
  <2>1. \A k \in D : (\A q \in D : Lesser(m, q, k) => q \in T) => k \in T
    BY <1>6, <1>15
  <2> HIDE DEF T, D, m, V
  <2>2. D \subseteq T
    BY <1>3, <2>1, MeasureInduction
  <2>3. QED
    BY <2>2 DEF T
<1>17. rest \in [D -> V]
  BY <1>13, <1>16
<1>18. QED
  BY <1>14, <1>15, <1>17 DEF Body

\* A line in front of a preview comes in front of the lines that are picked.
LEMMA LinesOfCons ==
  ASSUME NEW S, NEW x \in Marks(S), NEW d \in Seq(Marks(S)), NEW marks
  PROVE  /\ Lines(<<x>> \o d, marks)
              = (IF x.mark \in marks THEN <<x.line>> ELSE <<>>) \o Lines(d, marks)
         /\ Lines(d, marks) \in Seq(S)
<1> DEFINE e == <<x>> \o d
           L == LinesFrom(d, marks)
           M == LinesFrom(e, marks)
           D == 1..Len(d) + 1
           m == [k \in D |-> Len(d) + 1 - k]
           T == {k \in D : M[k + 1] = L[k]}
<1>1. /\ e \in Seq(Marks(S)) /\ Len(e) = Len(d) + 1 /\ Len(d) \in Nat /\ e[1] = x
      /\ \A k \in 1..Len(d) : e[k + 1] = d[k]
  BY Consing
<1>2. /\ \A k \in D : L[k] = Picked(d, marks, L, k)
      /\ L \in [D -> Seq(S)]
  BY LinesArePicked
<1>3. \A k \in 1..Len(e) + 1 : M[k] = Picked(e, marks, M, k)
  <2>1. e \in Seq(Marks(S))
    BY <1>1
  <2> HIDE DEF e
  <2>2. QED
    BY <2>1, LinesArePicked
<1>4. \A k \in D : (\A q \in D : Lesser(m, q, k) => q \in T) => k \in T
  <2> SUFFICES ASSUME NEW k \in D, \A q \in D : Lesser(m, q, k) => q \in T PROVE M[k + 1] = L[k]
    OBVIOUS
  <2>1. CASE k > Len(d)
    <3>1. k + 1 \in 1..Len(e) + 1 /\ k + 1 > Len(e)
      BY <1>1, <2>1
    <3>2. QED
      BY <1>2, <1>3, <2>1, <3>1 DEF Picked
  <2>2. CASE k \in 1..Len(d)
    <3>1. k + 1 \in D /\ Lesser(m, k + 1, k)
      BY <1>1, <2>2 DEF Lesser
    <3>2. M[(k + 1) + 1] = L[k + 1]
      BY <3>1
    <3>3. k + 1 \in 1..Len(e) + 1 /\ ~(k + 1 > Len(e)) /\ ~(k > Len(d))
      BY <1>1, <2>2
    <3>4. M[k + 1] = (IF e[k + 1].mark \in marks THEN <<e[k + 1].line>> ELSE <<>>) \o M[(k + 1) + 1]
      BY <1>3, <3>3 DEF Picked
    <3>5. L[k] = (IF d[k].mark \in marks THEN <<d[k].line>> ELSE <<>>) \o L[k + 1]
      BY <1>2, <2>2, <3>3 DEF Picked
    <3>6. e[k + 1] = d[k]
      BY <1>1, <2>2
    <3>7. QED
      BY <3>2, <3>4, <3>5, <3>6
  <2>3. QED
    BY <1>1, <2>1, <2>2
<1>5. 1 \in T
  <2>1. m \in [D -> Nat]
    BY <1>1
  <2>2. 1 \in D
    BY <1>1
  <2> HIDE DEF T, D, m
  <2>3. QED
    BY <1>4, <2>1, <2>2, MeasureInduction
<1>6. M[1 + 1] = L[1]
  BY <1>5
<1>7. 1 \in 1..Len(e) + 1 /\ ~(1 > Len(e)) /\ 1 \in D
  BY <1>1
<1>8. M[1] = (IF e[1].mark \in marks THEN <<e[1].line>> ELSE <<>>) \o M[1 + 1]
  BY <1>3, <1>7 DEF Picked
<1>9. QED
  BY <1>1, <1>2, <1>6, <1>7, <1>8 DEF Lines

LEMMA LinesOfNothing ==
  ASSUME NEW marks
  PROVE  Lines(<<>>, marks) = <<>>
<1>1. <<>> \in Seq(Marks({})) /\ Len(<<>>) = 0
  BY EmptySeq
<1>2. 1 \in 1..Len(<<>>) + 1 /\ 1 > Len(<<>>)
  BY <1>1
<1>3. LinesFrom(<<>>, marks)[1] = Picked(<<>>, marks, LinesFrom(<<>>, marks), 1)
  <2> DEFINE d == <<>>
  <2> HIDE DEF d
  <2>1. d \in Seq(Marks({})) /\ 1 \in 1..Len(d) + 1
    BY <1>1, <1>2 DEF d
  <2>2. LinesFrom(d, marks)[1] = Picked(d, marks, LinesFrom(d, marks), 1)
    BY <2>1, LinesArePicked
  <2>3. QED
    BY <2>2 DEF d
<1>4. QED
  BY <1>2, <1>3 DEF Lines, Picked
-----------------------------------------------------------------------------
(* Subsequences. *)

Rising(f, l, n) == \A k, h \in l..n : k < h => f[k] < f[h]
Agree(f, c, l, t) == \A k \in l..Len(c) : c[k] = t[f[k]]

\* What is left of c from l on is a subsequence of what is left of t from i on.
Embedded(c, l, t, i) ==
  \E f \in [l..Len(c) -> i..Len(t)] : Rising(f, l, Len(c)) /\ Agree(f, c, l, t)

LEMMA NothingIsEmbedded ==
  ASSUME NEW c, Len(c) \in Nat, NEW l \in Nat, l > Len(c), NEW t, NEW i
  PROVE  Embedded(c, l, t, i)
<1> DEFINE f == [k \in l..Len(c) |-> 0]
<1>1. l..Len(c) = {}
  OBVIOUS
<1>2. f \in [l..Len(c) -> i..Len(t)]
  BY <1>1
<1>3. Rising(f, l, Len(c)) /\ Agree(f, c, l, t)
  BY <1>1 DEF Rising, Agree
<1> HIDE DEF f
<1>4. QED
  BY <1>2, <1>3 DEF Embedded

\* What has lines left needs lines.
LEMMA EmbeddedNeedsLines ==
  ASSUME NEW c, Len(c) \in Nat, NEW l \in Nat, l <= Len(c), NEW t, Len(t) \in Nat, NEW i \in Nat,
         Embedded(c, l, t, i)
  PROVE  i <= Len(t)
<1>1. PICK f \in [l..Len(c) -> i..Len(t)] : TRUE
  BY DEF Embedded
<1>2. l \in l..Len(c)
  OBVIOUS
<1>3. f[l] \in i..Len(t)
  BY <1>1, <1>2
<1>4. QED
  BY <1>3

\* A line that is not the next one can be passed by.
LEMMA EmbeddedPast ==
  ASSUME NEW c, Len(c) \in Nat, NEW l \in Nat, NEW t, Len(t) \in Nat, NEW i \in Nat,
         Embedded(c, l, t, i), l > Len(c) \/ t[i] # c[l]
  PROVE  Embedded(c, l, t, i + 1)
<1>1. CASE l > Len(c)
  BY <1>1, NothingIsEmbedded
<1>2. CASE ~(l > Len(c))
  <2>1. PICK f \in [l..Len(c) -> i..Len(t)] : Rising(f, l, Len(c)) /\ Agree(f, c, l, t)
    BY DEF Embedded
  <2>2. l \in l..Len(c) /\ \A k \in l..Len(c) : k = l \/ l < k
    BY <1>2
  <2>3. f[l] # i
    BY <1>2, <2>1, <2>2 DEF Agree
  <2>4. f[l] \in i..Len(t)
    BY <2>1, <2>2
  <2>5. f[l] > i
    BY <2>3, <2>4
  <2>6. ASSUME NEW k \in l..Len(c) PROVE f[k] \in i + 1..Len(t)
    <3>1. f[k] \in i..Len(t)
      BY <2>1
    <3>2. f[k] > i
      <4>1. CASE k = l
        BY <2>5, <4>1
      <4>2. CASE l < k
        <5>1. f[l] < f[k]
          BY <2>1, <2>2, <4>2 DEF Rising
        <5>2. QED
          BY <2>4, <2>5, <3>1, <5>1
      <4>3. QED
        BY <2>2, <4>1, <4>2
    <3>3. QED
      BY <3>1, <3>2
  <2>7. f \in [l..Len(c) -> i + 1..Len(t)]
    BY <2>1, <2>6
  <2>8. QED
    BY <2>1, <2>7 DEF Embedded
<1>3. QED
  BY <1>1, <1>2

\* Past its next line, in both.
LEMMA EmbeddedOnward ==
  ASSUME NEW c, Len(c) \in Nat, NEW l \in Nat, l <= Len(c), NEW t, Len(t) \in Nat, NEW i \in Nat,
         Embedded(c, l, t, i)
  PROVE  Embedded(c, l + 1, t, i + 1)
<1>1. PICK f \in [l..Len(c) -> i..Len(t)] : Rising(f, l, Len(c)) /\ Agree(f, c, l, t)
  BY DEF Embedded
<1> DEFINE g == [k \in l + 1..Len(c) |-> f[k]]
<1>2. l \in l..Len(c) /\ \A k \in l + 1..Len(c) : k \in l..Len(c) /\ l < k
  OBVIOUS
<1>3. ASSUME NEW k \in l + 1..Len(c) PROVE f[k] \in i + 1..Len(t)
  <2>1. f[k] \in i..Len(t) /\ f[l] \in i..Len(t)
    BY <1>1, <1>2
  <2>2. f[l] < f[k]
    BY <1>1, <1>2 DEF Rising
  <2>3. QED
    BY <2>1, <2>2
<1>4. g \in [l + 1..Len(c) -> i + 1..Len(t)]
  BY <1>3
<1>5. Rising(g, l + 1, Len(c))
  BY <1>1, <1>2 DEF Rising
<1>6. Agree(g, c, l + 1, t)
  BY <1>1, <1>2 DEF Agree
<1> HIDE DEF g
<1>7. QED
  BY <1>4, <1>5, <1>6 DEF Embedded

\* What fits into less fits into more.
LEMMA EmbeddedBefore ==
  ASSUME NEW c, NEW l, NEW t, Len(t) \in Nat, NEW i \in Nat, Embedded(c, l, t, i + 1)
  PROVE  Embedded(c, l, t, i)
<1>1. PICK f \in [l..Len(c) -> i + 1..Len(t)] : Rising(f, l, Len(c)) /\ Agree(f, c, l, t)
  BY DEF Embedded
<1>2. i + 1..Len(t) \subseteq i..Len(t)
  OBVIOUS
<1>3. f \in [l..Len(c) -> i..Len(t)]
  BY <1>1, <1>2
<1>4. QED
  BY <1>1, <1>3 DEF Embedded

\* A line in front of both.
LEMMA EmbeddedCons ==
  ASSUME NEW S, NEW r \in Seq(S), NEW t \in Seq(S), NEW i \in 1..Len(t), Embedded(r, 1, t, i + 1)
  PROVE  Embedded(<<t[i]>> \o r, 1, t, i)
<1>1. PICK f \in [1..Len(r) -> i + 1..Len(t)] : Rising(f, 1, Len(r)) /\ Agree(f, r, 1, t)
  BY DEF Embedded
<1> DEFINE c == <<t[i]>> \o r
           g == [k \in 1..Len(c) |-> IF k = 1 THEN i ELSE f[k - 1]]
<1>2. Len(r) \in Nat /\ Len(t) \in Nat /\ Len(c) = Len(r) + 1 /\ c[1] = t[i]
      /\ \A k \in 1..Len(r) : c[k + 1] = r[k]
  <2>1. t[i] \in S
    BY ElementOfSeq
  <2>2. QED
    BY <2>1, Consing
<1> HIDE DEF c
<1>3. \A k \in 1..Len(c) : k = 1 \/ (k - 1 \in 1..Len(r) /\ (k - 1) + 1 = k)
  BY <1>2
<1>4. ASSUME NEW k \in 1..Len(c) PROVE g[k] \in i..Len(t)
  <2>1. CASE k = 1
    BY <1>2, <2>1
  <2>2. CASE k # 1
    <3>1. f[k - 1] \in i + 1..Len(t)
      BY <1>1, <1>3, <2>2
    <3>2. QED
      BY <1>2, <2>2, <3>1
  <2>3. QED
    BY <2>1, <2>2
<1>5. g \in [1..Len(c) -> i..Len(t)]
  BY <1>4
<1>6. Rising(g, 1, Len(c))
  <2> SUFFICES ASSUME NEW k \in 1..Len(c), NEW h \in 1..Len(c), k < h PROVE g[k] < g[h]
    BY DEF Rising
  <2>1. h # 1 /\ h - 1 \in 1..Len(r)
    BY <1>2, <1>3
  <2>2. f[h - 1] \in i + 1..Len(t) /\ g[h] = f[h - 1]
    BY <1>1, <2>1
  <2>3. CASE k = 1
    BY <1>2, <2>2, <2>3
  <2>4. CASE k # 1
    <3>1. k - 1 \in 1..Len(r) /\ k - 1 < h - 1
      BY <1>3, <2>4
    <3>2. f[k - 1] < f[h - 1]
      BY <1>1, <2>1, <3>1 DEF Rising
    <3>3. QED
      BY <2>2, <2>4, <3>2
  <2>5. QED
    BY <2>3, <2>4
<1>7. Agree(g, c, 1, t)
  <2> SUFFICES ASSUME NEW k \in 1..Len(c) PROVE c[k] = t[g[k]]
    BY DEF Agree
  <2>1. CASE k = 1
    BY <1>2, <2>1
  <2>2. CASE k # 1
    <3>1. k - 1 \in 1..Len(r) /\ (k - 1) + 1 = k
      BY <1>3, <2>2
    <3>2. c[k] = r[k - 1]
      BY <1>2, <3>1
    <3>3. r[k - 1] = t[f[k - 1]]
      BY <1>1, <3>1 DEF Agree
    <3>4. QED
      BY <2>2, <3>2, <3>3
  <2>3. QED
    BY <2>1, <2>2
<1> HIDE DEF g
<1>8. Embedded(c, 1, t, i)
  BY <1>5, <1>6, <1>7 DEF Embedded
<1>9. QED
  BY <1>8 DEF c

\* The walk through the table, whatever the table holds, collects common lines.
LEMMA CommonIsEmbedded ==
  ASSUME NEW S, NEW a \in Seq(S), NEW b \in Seq(S), NEW dp, NEW p \in Cells(a, b)
  PROVE  /\ Embedded(Common(a, b, dp)[p], 1, a, p[1])
         /\ Embedded(Common(a, b, dp)[p], 1, b, p[2])
<1> DEFINE D == Cells(a, b)
           R == Common(a, b, dp)
           m == [q \in D |-> LeftOf(a, b, q[1], q[2])]
           Fits(q) == Embedded(R[q], 1, a, q[1]) /\ Embedded(R[q], 1, b, q[2])
           T == {q \in D : Fits(q)}
<1>1. Len(a) \in Nat /\ Len(b) \in Nat
  OBVIOUS
<1>2. R \in [D -> Seq(S)] /\ \A q \in D : R[q] = Collected(a, b, dp, R, q[1], q[2])
  BY CommonIsCollected
<1>3. m \in [D -> Nat]
  BY <1>1, CellsAre
<1>4. ASSUME NEW q \in D, \A y \in D : Lesser(m, y, q) => Fits(y) PROVE Fits(q)
  <2>1. q[1] \in 1..Len(a) + 1 /\ q[2] \in 1..Len(b) + 1 /\ R[q] \in Seq(S)
    BY <1>1, <1>2, CellsAre
  <2>2. CASE q[1] > Len(a) \/ q[2] > Len(b)
    <3>1. R[q] = <<>>
      BY <1>2, <2>2 DEF Collected
    <3>2. Len(R[q]) = 0
      BY <3>1
    <3>3. QED
      BY <3>2, NothingIsEmbedded
  <2>3. CASE q[1] \in 1..Len(a) /\ q[2] \in 1..Len(b)
    <3>1. \A y \in {<<q[1] + 1, q[2] + 1>>, <<q[1] + 1, q[2]>>, <<q[1], q[2] + 1>>} :
            y \in D /\ Lesser(m, y, q) /\ R[y] \in Seq(S) /\ Fits(y)
      <4>1. /\ <<q[1] + 1, q[2] + 1>> \in D /\ Lesser(m, <<q[1] + 1, q[2] + 1>>, q)
            /\ <<q[1] + 1, q[2]>> \in D /\ Lesser(m, <<q[1] + 1, q[2]>>, q)
            /\ <<q[1], q[2] + 1>> \in D /\ Lesser(m, <<q[1], q[2] + 1>>, q)
        BY <1>1, <2>3, CellsBeyond DEF Lesser
      <4> HIDE DEF D, m, Fits, R
      <4>2. QED
        BY <1>2, <1>4, <4>1
    <3>0. R[q] = IF a[q[1]] = b[q[2]] THEN <<a[q[1]]>> \o R[<<q[1] + 1, q[2] + 1>>]
                 ELSE IF dp[<<q[1] + 1, q[2]>>] >= dp[<<q[1], q[2] + 1>>]
                 THEN R[<<q[1] + 1, q[2]>>] ELSE R[<<q[1], q[2] + 1>>]
      <4>1. ~(q[1] > Len(a) \/ q[2] > Len(b))
        BY <1>1, <2>3
      <4> HIDE DEF R
      <4>2. QED
        BY <1>2, <4>1 DEF Collected
    <3>2. CASE a[q[1]] = b[q[2]]
      <4> DEFINE r == R[<<q[1] + 1, q[2] + 1>>]
      <4>1. r \in Seq(S) /\ Embedded(r, 1, a, q[1] + 1) /\ Embedded(r, 1, b, q[2] + 1)
        BY <3>1
      <4>2. R[q] = <<a[q[1]]>> \o r
        BY <3>0, <3>2
      <4> HIDE DEF r
      <4>3. Embedded(<<a[q[1]]>> \o r, 1, a, q[1])
        BY <2>3, <4>1, EmbeddedCons
      <4>4. Embedded(<<b[q[2]]>> \o r, 1, b, q[2])
        BY <2>3, <4>1, EmbeddedCons
      <4>5. QED
        BY <3>2, <4>2, <4>3, <4>4
    <3>3. CASE R[q] = R[<<q[1] + 1, q[2]>>]
      <4> DEFINE r == R[<<q[1] + 1, q[2]>>]
      <4>1. Embedded(r, 1, a, q[1] + 1) /\ Embedded(r, 1, b, q[2])
        BY <3>1
      <4>2. q[1] \in Nat
        BY <2>1
      <4> HIDE DEF r
      <4>3. Embedded(r, 1, a, q[1])
        BY <1>1, <4>1, <4>2, EmbeddedBefore
      <4>4. QED
        BY <3>3, <4>1, <4>3 DEF r
    <3>4. CASE R[q] = R[<<q[1], q[2] + 1>>]
      <4> DEFINE r == R[<<q[1], q[2] + 1>>]
      <4>1. Embedded(r, 1, a, q[1]) /\ Embedded(r, 1, b, q[2] + 1)
        BY <3>1
      <4>2. q[2] \in Nat
        BY <2>1
      <4> HIDE DEF r
      <4>3. Embedded(r, 1, b, q[2])
        BY <1>1, <4>1, <4>2, EmbeddedBefore
      <4>4. QED
        BY <3>4, <4>1, <4>3 DEF r
    <3>5. QED
      BY <3>0, <3>2, <3>3, <3>4
  <2>4. QED
    BY <1>1, <2>1, <2>2, <2>3
<1>5. \A q \in D : (\A y \in D : Lesser(m, y, q) => y \in T) => q \in T
  <2> HIDE DEF Fits, D
  <2>1. QED
    BY <1>4
<1>6. p \in T
  <2> HIDE DEF T, m
  <2>1. QED
    BY <1>3, <1>5, MeasureInduction
<1>7. QED
  BY <1>6
-----------------------------------------------------------------------------
(* The preview is true. *)

\* What is left of a text.
LEMMA RestOfText ==
  ASSUME NEW S, NEW t \in Seq(S), NEW i \in 1..Len(t) + 1
  PROVE  /\ i > Len(t) => SubSeq(t, i, Len(t)) = <<>>
         /\ i <= Len(t) => SubSeq(t, i, Len(t)) = <<t[i]>> \o SubSeq(t, i + 1, Len(t))
         /\ SubSeq(t, 1, Len(t)) = t
         /\ SubSeq(t, i, Len(t)) \in Seq(S)
<1>1. SubSeq(t, i, Len(t)) \in Seq(S)
  OBVIOUS
<1>2. i > Len(t) => SubSeq(t, i, Len(t)) = <<>>
  OBVIOUS
<1>3. SubSeq(t, 1, Len(t)) = t
  OBVIOUS
<1>4. i <= Len(t) => SubSeq(t, i, Len(t)) = <<t[i]>> \o SubSeq(t, i + 1, Len(t))
  OBVIOUS
<1>5. QED
  BY <1>1, <1>2, <1>3, <1>4

\* The part of a preview that the loop prints from p on tells what is left of the two
\* texts, and keeps what is left of the common lines.
Tells(a, b, c, p) ==
  /\ Lines(Loop(a, b, c)[p], OldMarks) = SubSeq(a, p[1], Len(a))
  /\ Lines(Loop(a, b, c)[p], NewMarks) = SubSeq(b, p[2], Len(b))
  /\ Len(Lines(Loop(a, b, c)[p], SameMarks)) = Len(c) + 1 - p[3]

Fits(a, b, c, p) == Embedded(c, p[3], a, p[1]) /\ Embedded(c, p[3], b, p[2])

LEMMA LinesOfMarked ==
  ASSUME NEW S, NEW mark \in AllMarks, NEW x \in S, NEW d \in Seq(Marks(S)), NEW marks
  PROVE  /\ mark \in marks => Lines(Marked(mark, x) \o d, marks) = <<x>> \o Lines(d, marks)
         /\ mark \notin marks => Lines(Marked(mark, x) \o d, marks) = Lines(d, marks)
         /\ Lines(d, marks) \in Seq(S)
<1> DEFINE y == [mark |-> mark, line |-> x]
<1>1. y \in Marks(S) /\ y.mark = mark /\ y.line = x /\ Marked(mark, x) = <<y>>
  BY DEF Marks, Marked
<1> HIDE DEF y
<1>2. /\ Lines(<<y>> \o d, marks)
           = (IF y.mark \in marks THEN <<y.line>> ELSE <<>>) \o Lines(d, marks)
      /\ Lines(d, marks) \in Seq(S)
  BY <1>1, LinesOfCons
<1>3. <<>> \o Lines(d, marks) = Lines(d, marks)
  BY <1>2, ConcatEmptySeq
<1>4. QED
  BY <1>1, <1>2, <1>3

\* A common line is a line of both texts, and kept.
LEMMA CommonLine ==
  ASSUME NEW S, NEW x \in S, NEW d \in Seq(Marks(S)), NEW e, e = Marked(Same, x) \o d
  PROVE  /\ Lines(e, OldMarks) = <<x>> \o Lines(d, OldMarks)
         /\ Lines(e, NewMarks) = <<x>> \o Lines(d, NewMarks)
         /\ Len(Lines(e, SameMarks)) = Len(Lines(d, SameMarks)) + 1
         /\ Len(Lines(d, SameMarks)) \in Nat
<1>1. Lines(e, OldMarks) = <<x>> \o Lines(d, OldMarks)
  BY LinesOfMarked, MarksAre, SMTT(30)
<1>2. Lines(e, NewMarks) = <<x>> \o Lines(d, NewMarks)
  BY LinesOfMarked, MarksAre
<1>3. Lines(e, SameMarks) = <<x>> \o Lines(d, SameMarks) /\ Lines(d, SameMarks) \in Seq(S)
  BY LinesOfMarked, MarksAre
<1>4. QED
  BY <1>1, <1>2, <1>3, Consing

\* A struck line is a line of the old text only, an added one of the new text only.
LEMMA OldLine ==
  ASSUME NEW S, NEW x \in S, NEW d \in Seq(Marks(S))
  PROVE  /\ Lines(Marked(Gone, x) \o d, OldMarks) = <<x>> \o Lines(d, OldMarks)
         /\ Lines(Marked(Gone, x) \o d, NewMarks) = Lines(d, NewMarks)
         /\ Lines(Marked(Gone, x) \o d, SameMarks) = Lines(d, SameMarks)
BY LinesOfMarked, MarksAre

LEMMA NewLine ==
  ASSUME NEW S, NEW x \in S, NEW d \in Seq(Marks(S))
  PROVE  /\ Lines(Marked(Fresh, x) \o d, OldMarks) = Lines(d, OldMarks)
         /\ Lines(Marked(Fresh, x) \o d, NewMarks) = <<x>> \o Lines(d, NewMarks)
         /\ Lines(Marked(Fresh, x) \o d, SameMarks) = Lines(d, SameMarks)
BY LinesOfMarked, MarksAre

LEMMA WalkTells ==
  ASSUME NEW S, NEW a \in Seq(S), NEW b \in Seq(S), NEW c \in Seq(S),
         NEW p \in Places(a, b, c), Fits(a, b, c, p)
  PROVE  Tells(a, b, c, p)
<1> DEFINE D == Places(a, b, c)
           m == [q \in D |-> LeftOf(a, b, q[1], q[2])]
           T == {q \in D : Fits(a, b, c, q) => Tells(a, b, c, q)}
           L == Loop(a, b, c)
<1>1. Len(a) \in Nat /\ Len(b) \in Nat /\ Len(c) \in Nat
  OBVIOUS
<1>2. L \in [D -> Seq(Marks(S))] /\ \A q \in D : L[q] = Printed(a, b, c, L, q[1], q[2], q[3])
  BY LoopPrints
<1>3. m \in [D -> Nat]
  BY <1>1, PlacesAre
<1>4. ASSUME NEW q \in D, Fits(a, b, c, q),
             \A y \in D : Lesser(m, y, q) => (Fits(a, b, c, y) => Tells(a, b, c, y))
      PROVE  Tells(a, b, c, q)
  <2> DEFINE i == q[1]  j == q[2]  l == q[3]
             Done == i > Len(a) /\ j > Len(b)
             Both == l <= Len(c) /\ i <= Len(a) /\ a[i] = c[l] /\ j <= Len(b) /\ b[j] = c[l]
             Old == i <= Len(a) /\ (l > Len(c) \/ a[i] # c[l])
  <2>1. i \in 1..Len(a) + 1 /\ j \in 1..Len(b) + 1 /\ l \in 1..Len(c) + 1
    BY <1>1, PlacesAre
  <2>2. i \in Nat /\ j \in Nat /\ l \in Nat
    BY <2>1
  <2>3. Embedded(c, l, a, i) /\ Embedded(c, l, b, j)
    BY <1>4 DEF Fits
  <2>4. /\ Both => <<i + 1, j + 1, l + 1>> \in D /\ Lesser(m, <<i + 1, j + 1, l + 1>>, q)
        /\ i <= Len(a) => <<i + 1, j, l>> \in D /\ Lesser(m, <<i + 1, j, l>>, q)
        /\ j <= Len(b) => <<i, j + 1, l>> \in D /\ Lesser(m, <<i, j + 1, l>>, q)
    BY <1>1, <2>1, PlacesBeyond DEF Lesser
  <2>5. L[q] = IF Done THEN <<>>
               ELSE IF Both THEN Marked(Same, a[i]) \o L[<<i + 1, j + 1, l + 1>>]
               ELSE IF Old THEN Marked(Gone, a[i]) \o L[<<i + 1, j, l>>]
               ELSE IF j <= Len(b) THEN Marked(Fresh, b[j]) \o L[<<i, j + 1, l>>] ELSE Panic
    BY <1>2 DEF Printed, Same, Gone, Fresh
  <2>6. /\ i > Len(a) => SubSeq(a, i, Len(a)) = <<>>
        /\ i <= Len(a) => SubSeq(a, i, Len(a)) = <<a[i]>> \o SubSeq(a, i + 1, Len(a)) /\ a[i] \in S
        /\ j > Len(b) => SubSeq(b, j, Len(b)) = <<>>
        /\ j <= Len(b) => SubSeq(b, j, Len(b)) = <<b[j]>> \o SubSeq(b, j + 1, Len(b)) /\ b[j] \in S
    <3>1. /\ i > Len(a) => SubSeq(a, i, Len(a)) = <<>>
          /\ i <= Len(a) => SubSeq(a, i, Len(a)) = <<a[i]>> \o SubSeq(a, i + 1, Len(a))
      BY <2>1, RestOfText, ZenonT(60)
    <3>2. /\ j > Len(b) => SubSeq(b, j, Len(b)) = <<>>
          /\ j <= Len(b) => SubSeq(b, j, Len(b)) = <<b[j]>> \o SubSeq(b, j + 1, Len(b))
      BY <2>1, RestOfText
    <3>3. i <= Len(a) => i \in 1..Len(a)
      BY <1>1, <2>1
    <3>4. j <= Len(b) => j \in 1..Len(b)
      BY <1>1, <2>1
    <3>5. (i <= Len(a) => a[i] \in S) /\ (j <= Len(b) => b[j] \in S)
      BY <3>3, <3>4, ElementOfSeq
    <3>6. QED
      BY <3>1, <3>2, <3>5
  <2>7. /\ l <= Len(c) => i <= Len(a) /\ j <= Len(b)
        /\ l > Len(c) => l = Len(c) + 1
    <3>1. l <= Len(c) => i <= Len(a) /\ j <= Len(b)
      BY <1>1, <2>2, <2>3, EmbeddedNeedsLines
    <3>2. l > Len(c) => l = Len(c) + 1
      BY <1>1, <2>1
    <3>3. QED
      BY <3>1, <3>2
  <2> HIDE DEF L, m, D, i, j, l
  <2>8. CASE Done
    <3>1. L[q] = <<>>
      BY <2>5, <2>8
    <3>2. l = Len(c) + 1
      BY <1>1, <2>2, <2>7, <2>8
    <3>3. \A marks : Lines(L[q], marks) = <<>>
      BY <3>1, LinesOfNothing
    <3>4. Len(Lines(L[q], SameMarks)) = Len(c) + 1 - l
      <4>1. Len(Lines(L[q], SameMarks)) = 0
        BY <3>3, EmptySeq
      <4>2. Len(c) + 1 - l = 0
        BY <1>1, <3>2
      <4>3. QED
        BY <4>1, <4>2
    <3>5. /\ Lines(L[q], OldMarks) = SubSeq(a, i, Len(a))
          /\ Lines(L[q], NewMarks) = SubSeq(b, j, Len(b))
      BY <2>6, <2>8, <3>3
    <3>6. QED
      BY <3>4, <3>5 DEF Tells, L, i, j, l
  <2>9. CASE ~Done /\ Both
    <3> DEFINE y == <<i + 1, j + 1, l + 1>>
    <3>1. y \in D /\ Lesser(m, y, q) /\ y[1] = i + 1 /\ y[2] = j + 1 /\ y[3] = l + 1
      BY <2>4, <2>9
    <3>2. L[q] = Marked(Same, a[i]) \o L[y]
      BY <2>5, <2>9
    <3> HIDE DEF y
    <3>3. Fits(a, b, c, y)
      <4>1. Embedded(c, l + 1, a, i + 1)
        BY <1>1, <2>2, <2>3, <2>9, EmbeddedOnward
      <4>2. Embedded(c, l + 1, b, j + 1)
        BY <1>1, <2>2, <2>3, <2>9, EmbeddedOnward
      <4>3. QED
        BY <3>1, <4>1, <4>2 DEF Fits
    <3>4. Tells(a, b, c, y)
      BY <1>4, <3>1, <3>3
    <3>5. L[y] \in Seq(Marks(S)) /\ a[i] \in S
      BY <1>2, <2>6, <2>9, <3>1
    <3>6. /\ Lines(L[q], OldMarks) = <<a[i]>> \o Lines(L[y], OldMarks)
          /\ Lines(L[q], NewMarks) = <<a[i]>> \o Lines(L[y], NewMarks)
          /\ Len(Lines(L[q], SameMarks)) = Len(Lines(L[y], SameMarks)) + 1 /\ Len(Lines(L[y], SameMarks)) \in Nat
      BY <3>2, <3>5, CommonLine
    <3>7. Lines(L[q], OldMarks) = SubSeq(a, i, Len(a))
      BY <2>6, <2>9, <3>1, <3>4, <3>6 DEF Tells, L
    <3>8. Lines(L[q], NewMarks) = SubSeq(b, j, Len(b))
      BY <2>6, <2>9, <3>1, <3>4, <3>6 DEF Tells, L
    <3>9. Len(Lines(L[y], SameMarks)) = Len(c) + 1 - (l + 1)
      BY <3>1, <3>4 DEF Tells, L
    <3>10. Len(Lines(L[q], SameMarks)) = Len(c) + 1 - l
      BY <1>1, <2>2, <3>6, <3>9
    <3>11. QED
      BY <3>7, <3>8, <3>10 DEF Tells, L, i, j, l
  <2>10. CASE ~Done /\ ~Both /\ Old
    <3> DEFINE y == <<i + 1, j, l>>
    <3>1. y \in D /\ Lesser(m, y, q) /\ y[1] = i + 1 /\ y[2] = j /\ y[3] = l
      BY <2>4, <2>10
    <3>2. L[q] = Marked(Gone, a[i]) \o L[y]
      BY <2>5, <2>10
    <3> HIDE DEF y
    <3>3. Fits(a, b, c, y)
      <4>1. Embedded(c, l, a, i + 1)
        BY <1>1, <2>2, <2>3, <2>10, EmbeddedPast
      <4>2. QED
        BY <2>3, <3>1, <4>1 DEF Fits
    <3>4. Tells(a, b, c, y)
      BY <1>4, <3>1, <3>3
    <3>5. L[y] \in Seq(Marks(S)) /\ a[i] \in S
      BY <1>2, <2>6, <2>10, <3>1
    <3>6. /\ Lines(L[q], OldMarks) = <<a[i]>> \o Lines(L[y], OldMarks)
          /\ Lines(L[q], NewMarks) = Lines(L[y], NewMarks)
          /\ Lines(L[q], SameMarks) = Lines(L[y], SameMarks)
      <4> DEFINE x == a[i]  d == L[y]  e == L[q]
      <4>1. x \in S /\ d \in Seq(Marks(S)) /\ e = Marked(Gone, x) \o d
        BY <3>2, <3>5
      <4> HIDE DEF x, d, e
      <4>2. /\ Lines(e, OldMarks) = <<x>> \o Lines(d, OldMarks)
            /\ Lines(e, NewMarks) = Lines(d, NewMarks)
            /\ Lines(e, SameMarks) = Lines(d, SameMarks)
        BY <4>1, OldLine, Zenon
      <4>3. QED
        BY <4>2 DEF x, d, e
    <3>7. QED
      BY <2>6, <2>10, <3>1, <3>4, <3>6 DEF Tells, L, i, j, l
  <2>11. CASE ~Done /\ ~Both /\ ~Old
    <3>1. j <= Len(b) /\ (l > Len(c) \/ b[j] # c[l])
      BY <1>1, <2>1, <2>7, <2>11
    <3> DEFINE y == <<i, j + 1, l>>
    <3>2. y \in D /\ Lesser(m, y, q) /\ y[1] = i /\ y[2] = j + 1 /\ y[3] = l
      BY <2>4, <3>1
    <3>3. L[q] = Marked(Fresh, b[j]) \o L[y]
      BY <2>5, <2>11, <3>1
    <3> HIDE DEF y
    <3>4. Fits(a, b, c, y)
      <4>1. Embedded(c, l, b, j + 1)
        BY <1>1, <2>2, <2>3, <3>1, EmbeddedPast
      <4>2. QED
        BY <2>3, <3>2, <4>1 DEF Fits
    <3>5. Tells(a, b, c, y)
      BY <1>4, <3>2, <3>4
    <3>6. L[y] \in Seq(Marks(S)) /\ b[j] \in S
      BY <1>2, <2>6, <3>1, <3>2
    <3>7. /\ Lines(L[q], OldMarks) = Lines(L[y], OldMarks)
          /\ Lines(L[q], NewMarks) = <<b[j]>> \o Lines(L[y], NewMarks)
          /\ Lines(L[q], SameMarks) = Lines(L[y], SameMarks)
      <4> DEFINE x == b[j]  d == L[y]  e == L[q]
      <4>1. x \in S /\ d \in Seq(Marks(S)) /\ e = Marked(Fresh, x) \o d
        BY <3>3, <3>6
      <4> HIDE DEF x, d, e
      <4>2. /\ Lines(e, OldMarks) = Lines(d, OldMarks)
            /\ Lines(e, NewMarks) = <<x>> \o Lines(d, NewMarks)
            /\ Lines(e, SameMarks) = Lines(d, SameMarks)
        BY <4>1, NewLine, Zenon
      <4>3. QED
        BY <4>2 DEF x, d, e
    <3>8. QED
      BY <2>6, <3>1, <3>2, <3>5, <3>7 DEF Tells, L, i, j, l
  <2>12. QED
    BY <2>8, <2>9, <2>10, <2>11
<1>5. \A q \in D : (\A y \in D : Lesser(m, y, q) => y \in T) => q \in T
  <2> HIDE DEF D
  <2>1. QED
    BY <1>4
<1>6. p \in T
  <2> HIDE DEF T, m, D
  <2>1. p \in D
    BY DEF D
  <2>2. QED
    BY <1>3, <1>5, <2>1, MeasureInduction
<1>7. QED
  BY <1>6

LEMMA PreviewTells ==
  ASSUME NEW S, NEW a \in Seq(S), NEW b \in Seq(S)
  PROVE  /\ MinimalDiff(a, b) \in Seq(Marks(S))
         /\ Before(MinimalDiff(a, b)) = a /\ After(MinimalDiff(a, b)) = b
         /\ Len(Lines(MinimalDiff(a, b), SameMarks)) = Len(LongestCommonSubsequence(a, b))
<1> DEFINE dp == Table(a, b)
           c == LongestCommonSubsequence(a, b)
           p == <<1, 1, 1>>
<1>1. Len(a) \in Nat /\ Len(b) \in Nat
  OBVIOUS
<1>2. <<1, 1>> \in Cells(a, b)
  <2>1. 1 \in 1..Len(a) + 1 /\ 1 \in 1..Len(b) + 1
    BY <1>1
  <2>2. QED
    BY <1>1, <2>1, CellsAre
<1>3. c = Common(a, b, dp)[<<1, 1>>]
  BY DEF LongestCommonSubsequence
<1> HIDE DEF c, dp
<1>4. c \in Seq(S)
  BY <1>2, <1>3, CommonIsCollected
<1>5. Embedded(c, 1, a, 1) /\ Embedded(c, 1, b, 1)
  <2>1. /\ Embedded(Common(a, b, dp)[<<1, 1>>], 1, a, <<1, 1>>[1])
        /\ Embedded(Common(a, b, dp)[<<1, 1>>], 1, b, <<1, 1>>[2])
    BY <1>2, CommonIsEmbedded
  <2>2. QED
    BY <1>3, <2>1
<1>6. Len(c) \in Nat
  BY <1>4
<1>7. p \in Places(a, b, c) /\ p[1] = 1 /\ p[2] = 1 /\ p[3] = 1
  <2>1. 1 \in 1..Len(a) + 1 /\ 1 \in 1..Len(b) + 1 /\ 1 \in 1..Len(c) + 1
    BY <1>1, <1>6
  <2>2. QED
    BY <1>1, <1>6, <2>1, PlacesAre
<1>8. MinimalDiff(a, b) = Loop(a, b, c)[p]
  BY DEF MinimalDiff, c
<1> HIDE DEF p
<1>15. MinimalDiff(a, b) \in Seq(Marks(S))
  BY <1>4, <1>7, <1>8, LoopPrints
<1>9. Fits(a, b, c, p)
  BY <1>5, <1>7 DEF Fits
<1>10. Tells(a, b, c, p)
  BY <1>4, <1>7, <1>9, WalkTells
<1>11. SubSeq(a, 1, Len(a)) = a /\ SubSeq(b, 1, Len(b)) = b
  BY <1>1, RestOfText
<1>12. Len(Lines(MinimalDiff(a, b), SameMarks)) = Len(c)
  BY <1>6, <1>7, <1>8, <1>10 DEF Tells
<1>13. Before(MinimalDiff(a, b)) = a /\ After(MinimalDiff(a, b)) = b
  BY <1>7, <1>8, <1>10, <1>11 DEF Tells, Before, After, OldMarks, NewMarks
<1>14. QED
  BY <1>12, <1>13, <1>15 DEF c
-----------------------------------------------------------------------------
(* The preview is minimal. *)

\* With its table filled, the walk collects as many lines as the table says.
LEMMA CommonIsAsLong ==
  ASSUME NEW S, NEW a \in Seq(S), NEW b \in Seq(S), NEW p \in Cells(a, b)
  PROVE  Len(Common(a, b, Table(a, b))[p]) = Table(a, b)[p]
<1> DEFINE D == Cells(a, b)
           dp == Table(a, b)
           R == Common(a, b, dp)
           m == [q \in D |-> LeftOf(a, b, q[1], q[2])]
           AsLong(q) == Len(R[q]) = dp[q]
           T == {q \in D : AsLong(q)}
<1>1. Len(a) \in Nat /\ Len(b) \in Nat
  OBVIOUS
<1>2. dp \in [D -> Nat] /\ \A q \in D : dp[q] = Cell(a, b, dp, q[1], q[2])
  BY TableIsFilled
<1> HIDE DEF dp
<1>3. R \in [D -> Seq(S)] /\ \A q \in D : R[q] = Collected(a, b, dp, R, q[1], q[2])
  BY CommonIsCollected
<1>4. m \in [D -> Nat]
  BY <1>1, CellsAre
<1>5. ASSUME NEW q \in D, \A y \in D : Lesser(m, y, q) => AsLong(y) PROVE AsLong(q)
  <2>1. q[1] \in 1..Len(a) + 1 /\ q[2] \in 1..Len(b) + 1
    BY <1>1, CellsAre
  <2>2. CASE q[1] > Len(a) \/ q[2] > Len(b)
    <3>1. R[q] = <<>> /\ dp[q] = 0
      BY <1>2, <1>3, <2>2 DEF Collected, Cell
    <3>2. QED
      BY <3>1
  <2>3. CASE q[1] \in 1..Len(a) /\ q[2] \in 1..Len(b)
    <3> DEFINE both == <<q[1] + 1, q[2] + 1>>
               down == <<q[1] + 1, q[2]>>
               right == <<q[1], q[2] + 1>>
    <3>1. /\ both \in D /\ Lesser(m, both, q)
          /\ down \in D /\ Lesser(m, down, q)
          /\ right \in D /\ Lesser(m, right, q)
      BY <1>1, <2>3, CellsBeyond DEF Lesser
    <3>2. ~(q[1] > Len(a) \/ q[2] > Len(b))
      BY <1>1, <2>3
    <3>3. R[q] = IF a[q[1]] = b[q[2]] THEN <<a[q[1]]>> \o R[both]
                 ELSE IF dp[down] >= dp[right] THEN R[down] ELSE R[right]
      <4> HIDE DEF R
      <4>1. QED
        BY <1>3, <3>2 DEF Collected
    <3>4. dp[q] = IF a[q[1]] = b[q[2]] THEN dp[both] + 1
                  ELSE IF dp[down] >= dp[right] THEN dp[down] ELSE dp[right]
      BY <1>2, <3>2 DEF Cell
    <3> HIDE DEF both, down, right, R, m, D
    <3>5. AsLong(both) /\ AsLong(down) /\ AsLong(right)
      BY <1>5, <3>1
    <3>6. CASE a[q[1]] = b[q[2]]
      <4> DEFINE r == R[both]  x == a[q[1]]
      <4>1. x \in S
        BY <2>3, ElementOfSeq
      <4>2. r \in Seq(S)
        BY <1>3, <3>1
      <4> HIDE DEF r, x
      <4>3. Len(<<x>> \o r) = Len(r) + 1
        BY <4>1, <4>2, Consing
      <4>4. R[q] = <<x>> \o r /\ dp[q] = dp[both] + 1
        BY <3>3, <3>4, <3>6 DEF r, x
      <4>5. Len(r) = dp[both]
        BY <3>5 DEF r
      <4>6. QED
        BY <4>3, <4>4, <4>5
    <3>7. CASE a[q[1]] # b[q[2]]
      BY <3>3, <3>4, <3>5, <3>7
    <3>8. QED
      BY <3>6, <3>7
  <2>4. QED
    BY <1>1, <2>1, <2>2, <2>3
<1>6. \A q \in D : (\A y \in D : Lesser(m, y, q) => y \in T) => q \in T
  <2> HIDE DEF AsLong, D
  <2>1. QED
    BY <1>5
<1>7. p \in T
  <2> HIDE DEF T, m, D
  <2>1. p \in D
    BY DEF D
  <2>2. QED
    BY <1>4, <1>6, <2>1, MeasureInduction
<1>8. QED
  BY <1>7 DEF dp

\* The n-th common line: what two ways of striking lines out leave alike.
Alike(a, f, b, g, n) == \A k \in 1..n : a[f[k]] = b[g[k]]

\* n lines can be kept of what is left of the two texts.
CanKeep(a, b, i, j, n) ==
  \E f \in [1..n -> i..Len(a)], g \in [1..n -> j..Len(b)] :
    Rising(f, 1, n) /\ Rising(g, 1, n) /\ Alike(a, f, b, g, n)

LEMMA KeepingNeedsLines ==
  ASSUME NEW a, NEW b, Len(a) \in Nat, Len(b) \in Nat, NEW i \in Nat, NEW j \in Nat,
         NEW n \in Nat, n # 0, CanKeep(a, b, i, j, n)
  PROVE  i <= Len(a) /\ j <= Len(b)
<1>1. PICK f \in [1..n -> i..Len(a)], g \in [1..n -> j..Len(b)] : TRUE
  BY DEF CanKeep
<1>2. 1 \in 1..n
  OBVIOUS
<1>3. f[1] \in i..Len(a) /\ g[1] \in j..Len(b)
  BY <1>1, <1>2
<1>4. QED
  BY <1>3

\* Without its first line, one less can be kept, of what is beyond it.
LEMMA KeepOneLess ==
  ASSUME NEW a, NEW b, Len(a) \in Nat, Len(b) \in Nat, NEW i \in Nat, NEW j \in Nat,
         NEW n \in Nat, n # 0, CanKeep(a, b, i, j, n)
  PROVE  CanKeep(a, b, i + 1, j + 1, n - 1)
<1>1. PICK f \in [1..n -> i..Len(a)], g \in [1..n -> j..Len(b)] :
             Rising(f, 1, n) /\ Rising(g, 1, n) /\ Alike(a, f, b, g, n)
  BY DEF CanKeep
<1> DEFINE ff == [k \in 1..n - 1 |-> f[k + 1]]
           gg == [k \in 1..n - 1 |-> g[k + 1]]
<1>2. 1 \in 1..n /\ \A k \in 1..n - 1 : k + 1 \in 1..n /\ 1 < k + 1
  OBVIOUS
<1>3. ASSUME NEW k \in 1..n - 1 PROVE f[k + 1] \in i + 1..Len(a)
  <2>1. f[k + 1] \in i..Len(a) /\ f[1] \in i..Len(a)
    BY <1>1, <1>2
  <2>2. f[1] < f[k + 1]
    BY <1>1, <1>2 DEF Rising
  <2>3. QED
    BY <2>1, <2>2
<1>4. ASSUME NEW k \in 1..n - 1 PROVE g[k + 1] \in j + 1..Len(b)
  <2>1. g[k + 1] \in j..Len(b) /\ g[1] \in j..Len(b)
    BY <1>1, <1>2
  <2>2. g[1] < g[k + 1]
    BY <1>1, <1>2 DEF Rising
  <2>3. QED
    BY <2>1, <2>2
<1>5. ff \in [1..n - 1 -> i + 1..Len(a)] /\ gg \in [1..n - 1 -> j + 1..Len(b)]
  BY <1>3, <1>4
<1>6. \A k, h \in 1..n - 1 : k < h => k + 1 < h + 1
  OBVIOUS
<1>7. Rising(ff, 1, n - 1) /\ Rising(gg, 1, n - 1)
  BY <1>1, <1>2, <1>6 DEF Rising
<1>8. Alike(a, ff, b, gg, n - 1)
  BY <1>1, <1>2 DEF Alike
<1> HIDE DEF ff, gg
<1>9. QED
  BY <1>5, <1>7, <1>8 DEF CanKeep

\* A rising function that does not start at i starts beyond it.
LEMMA RisesBeyond ==
  ASSUME NEW n \in Nat, n # 0, NEW i \in Nat, NEW N \in Nat, NEW f \in [1..n -> i..N],
         Rising(f, 1, n), f[1] # i
  PROVE  f \in [1..n -> i + 1..N]
<1>1. 1 \in 1..n /\ \A k \in 1..n : k = 1 \/ 1 < k
  OBVIOUS
<1>2. f[1] \in i..N /\ f[1] > i
  BY <1>1
<1>3. ASSUME NEW k \in 1..n PROVE f[k] \in i + 1..N
  <2>1. f[k] \in i..N
    OBVIOUS
  <2>2. CASE k = 1
    BY <1>2, <2>2
  <2>3. CASE 1 < k
    <3>1. f[1] < f[k]
      BY <1>1, <2>3 DEF Rising
    <3>2. QED
      BY <1>2, <2>1, <3>1
  <2>4. QED
    BY <1>1, <2>2, <2>3
<1>4. QED
  BY <1>3

\* Two lines that differ are not both the first that is kept.
LEMMA KeepBeyond ==
  ASSUME NEW a, NEW b, Len(a) \in Nat, Len(b) \in Nat, NEW i \in Nat, NEW j \in Nat,
         NEW n \in Nat, n # 0, CanKeep(a, b, i, j, n), a[i] # b[j]
  PROVE  CanKeep(a, b, i + 1, j, n) \/ CanKeep(a, b, i, j + 1, n)
<1>1. PICK f \in [1..n -> i..Len(a)], g \in [1..n -> j..Len(b)] :
             Rising(f, 1, n) /\ Rising(g, 1, n) /\ Alike(a, f, b, g, n)
  BY DEF CanKeep
<1>2. a[f[1]] = b[g[1]]
  BY <1>1 DEF Alike
<1>3. CASE f[1] # i
  <2>1. f \in [1..n -> i + 1..Len(a)]
    BY <1>1, <1>3, RisesBeyond
  <2>2. QED
    BY <1>1, <2>1 DEF CanKeep
<1>4. CASE g[1] # j
  <2>1. g \in [1..n -> j + 1..Len(b)]
    BY <1>1, <1>4, RisesBeyond
  <2>2. QED
    BY <1>1, <2>1 DEF CanKeep
<1>5. QED
  BY <1>2, <1>3, <1>4

\* No more can be kept than the table says.
LEMMA TableBounds ==
  ASSUME NEW S, NEW a \in Seq(S), NEW b \in Seq(S), NEW p \in Cells(a, b), NEW n \in Nat,
         CanKeep(a, b, p[1], p[2], n)
  PROVE  n <= Table(a, b)[p]
<1> DEFINE D == Cells(a, b)
           dp == Table(a, b)
           m == [q \in D |-> LeftOf(a, b, q[1], q[2])]
           Bounds(q) == \A k \in Nat : CanKeep(a, b, q[1], q[2], k) => k <= dp[q]
           T == {q \in D : Bounds(q)}
<1>1. Len(a) \in Nat /\ Len(b) \in Nat
  OBVIOUS
<1>2. dp \in [D -> Nat] /\ \A q \in D : dp[q] = Cell(a, b, dp, q[1], q[2])
  BY TableIsFilled
<1> HIDE DEF dp
<1>3. m \in [D -> Nat]
  BY <1>1, CellsAre
<1>4. ASSUME NEW q \in D, \A y \in D : Lesser(m, y, q) => Bounds(y) PROVE Bounds(q)
  <2>1. /\ q[1] \in 1..Len(a) + 1 /\ q[2] \in 1..Len(b) + 1
        /\ q[1] \in Nat /\ q[2] \in Nat /\ dp[q] \in Nat
    BY <1>1, <1>2, CellsAre
  <2> SUFFICES ASSUME NEW k \in Nat, CanKeep(a, b, q[1], q[2], k), k # 0 PROVE k <= dp[q]
    BY <2>1
  <2>2. q[1] <= Len(a) /\ q[2] <= Len(b)
    BY <1>1, <2>1, KeepingNeedsLines
  <2>3. q[1] \in 1..Len(a) /\ q[2] \in 1..Len(b) /\ ~(q[1] > Len(a) \/ q[2] > Len(b))
    BY <1>1, <2>1, <2>2
  <2> DEFINE both == <<q[1] + 1, q[2] + 1>>
             down == <<q[1] + 1, q[2]>>
             right == <<q[1], q[2] + 1>>
  <2>4. /\ both \in D /\ Lesser(m, both, q) /\ both[1] = q[1] + 1 /\ both[2] = q[2] + 1
        /\ down \in D /\ Lesser(m, down, q) /\ down[1] = q[1] + 1 /\ down[2] = q[2]
        /\ right \in D /\ Lesser(m, right, q) /\ right[1] = q[1] /\ right[2] = q[2] + 1
    BY <1>1, <2>3, CellsBeyond DEF Lesser
  <2>5. dp[q] = IF a[q[1]] = b[q[2]] THEN dp[both] + 1
                ELSE IF dp[down] >= dp[right] THEN dp[down] ELSE dp[right]
    BY <1>2, <2>3 DEF Cell
  <2> HIDE DEF both, down, right, m, D
  <2>6. dp[both] \in Nat /\ dp[down] \in Nat /\ dp[right] \in Nat
    BY <1>2, <2>4
  <2>7. CASE a[q[1]] = b[q[2]]
    <3>1. k - 1 \in Nat /\ CanKeep(a, b, q[1] + 1, q[2] + 1, k - 1)
      BY <1>1, <2>1, KeepOneLess
    <3>2. k - 1 <= dp[both]
      BY <1>4, <2>4, <3>1
    <3>3. QED
      BY <2>5, <2>6, <2>7, <3>2
  <2>8. CASE a[q[1]] # b[q[2]]
    <3>1. dp[down] <= dp[q] /\ dp[right] <= dp[q]
      BY <2>5, <2>6, <2>8
    <3>2. CanKeep(a, b, q[1] + 1, q[2], k) \/ CanKeep(a, b, q[1], q[2] + 1, k)
      BY <1>1, <2>1, <2>8, KeepBeyond
    <3>3. k <= dp[down] \/ k <= dp[right]
      BY <1>4, <2>4, <3>2
    <3>4. QED
      BY <2>1, <2>6, <3>1, <3>3
  <2>9. QED
    BY <2>7, <2>8
<1>5. \A q \in D : (\A y \in D : Lesser(m, y, q) => y \in T) => q \in T
  <2> HIDE DEF Bounds, D
  <2>1. QED
    BY <1>4
<1>6. p \in T
  <2> HIDE DEF T, m, D
  <2>1. p \in D
    BY DEF D
  <2>2. QED
    BY <1>3, <1>5, <2>1, MeasureInduction
<1>7. QED
  BY <1>6 DEF dp

LEMMA LongestIsLongest ==
  ASSUME NEW S, NEW a \in Seq(S), NEW b \in Seq(S), NEW n \in Nat,
         NEW f \in Keeping(n, a), NEW g \in Keeping(n, b), Alike(a, f, b, g, n)
  PROVE  n <= Len(LongestCommonSubsequence(a, b))
<1>1. f \in [1..n -> 1..Len(a)] /\ g \in [1..n -> 1..Len(b)]
  BY DEF Keeping
<1>2. Rising(f, 1, n) /\ Rising(g, 1, n)
  BY DEF Keeping, Rising
<1>3. CanKeep(a, b, 1, 1, n)
  BY <1>1, <1>2 DEF CanKeep
<1> DEFINE p == <<1, 1>>
<1>4. p \in Cells(a, b) /\ p[1] = 1 /\ p[2] = 1
  <2>1. Len(a) \in Nat /\ Len(b) \in Nat
    OBVIOUS
  <2>2. 1 \in 1..Len(a) + 1 /\ 1 \in 1..Len(b) + 1
    BY <2>1
  <2>3. QED
    BY <2>1, <2>2, CellsAre
<1>5. LongestCommonSubsequence(a, b) = Common(a, b, Table(a, b))[p]
  BY DEF LongestCommonSubsequence
<1> HIDE DEF p
<1>6. n <= Table(a, b)[p]
  BY <1>3, <1>4, TableBounds
<1>7. Len(Common(a, b, Table(a, b))[p]) = Table(a, b)[p]
  BY <1>4, CommonIsAsLong
<1>8. QED
  BY <1>5, <1>6, <1>7

\* What the loop builds tells the text before from the text after, and marks as few lines
\* as any diff could.
LEMMA LoopIsTrueAndMinimal ==
  ASSUME NEW S, NEW a \in Seq(S), NEW b \in Seq(S)
  PROVE  IsMinimalDiff(MinimalDiff(a, b), a, b) /\ MinimalDiff(a, b) \in Seq(Marks(S))
<1>1. /\ Before(MinimalDiff(a, b)) = a /\ After(MinimalDiff(a, b)) = b
      /\ Len(Lines(MinimalDiff(a, b), {" "})) = Len(LongestCommonSubsequence(a, b))
      /\ MinimalDiff(a, b) \in Seq(Marks(S))
  BY PreviewTells DEF SameMarks
<1>2. ASSUME NEW n \in 0..Len(a), NEW f \in Keeping(n, a), NEW g \in Keeping(n, b),
             \A k \in 1..n : a[f[k]] = b[g[k]]
      PROVE  n <= Len(LongestCommonSubsequence(a, b))
  <2>1. n \in Nat
    OBVIOUS
  <2>2. Alike(a, f, b, g, n)
    BY <1>2 DEF Alike
  <2>3. QED
    BY <2>1, <2>2, LongestIsLongest
<1>3. QED
  BY <1>1, <1>2 DEF IsMinimalDiff
-----------------------------------------------------------------------------
(* The fallback, and what is cut. *)

LEMMA JoinAfter ==
  ASSUME NEW P, NEW x \in Seq(P), NEW y \in Seq(P), NEW k \in 1..Len(y)
  PROVE  x \o y \in Seq(P) /\ Len(x \o y) = Len(x) + Len(y) /\ (x \o y)[Len(x) + k] = y[k]
OBVIOUS

LEMMA JoinBefore ==
  ASSUME NEW P, NEW x \in Seq(P), NEW y \in Seq(P), NEW k \in 1..Len(x)
  PROVE  x \o y \in Seq(P) /\ Len(x \o y) = Len(x) + Len(y) /\ (x \o y)[k] = x[k]
OBVIOUS

IsDump(d, S, a, b) ==
  /\ d \in Seq(Marks(S)) /\ Len(d) = Len(a) + Len(b)
  /\ \A k \in 1..Len(a) : d[k].mark = OldHeader /\ d[k].line = a[k]
  /\ \A k \in 1..Len(b) : d[Len(a) + k].mark = NewHeader /\ d[Len(a) + k].line = b[k]

LEMMA DumpIs ==
  ASSUME NEW S, NEW a \in Seq(S), NEW b \in Seq(S)
  PROVE  IsDump(Dump(a, b), S, a, b)
<1> DEFINE u == Under(OldHeader, a)  v == Under(NewHeader, b)
<1>1. /\ Len(a) \in Nat /\ Len(b) \in Nat
      /\ \A k \in 1..Len(a) : a[k] \in S
      /\ \A k \in 1..Len(b) : b[k] \in S
  OBVIOUS
<1>2. /\ \A x \in S : [mark |-> OldHeader, line |-> x] \in Marks(S)
      /\ \A x \in S : [mark |-> NewHeader, line |-> x] \in Marks(S)
  BY MarksAre DEF Marks
<1>3. u \in Seq(Marks(S)) /\ Len(u) = Len(a)
  <2>1. u \in [1..Len(a) -> Marks(S)]
    BY <1>1, <1>2 DEF Under
  <2>2. QED
    BY <1>1, <2>1
<1>4. v \in Seq(Marks(S)) /\ Len(v) = Len(b)
  <2>1. v \in [1..Len(b) -> Marks(S)]
    BY <1>1, <1>2 DEF Under
  <2>2. QED
    BY <1>1, <2>1
<1>5. /\ \A k \in 1..Len(a) : u[k].mark = OldHeader /\ u[k].line = a[k]
      /\ \A k \in 1..Len(b) : v[k].mark = NewHeader /\ v[k].line = b[k]
  BY DEF Under
<1>6. Dump(a, b) = u \o v
  BY DEF Dump, OldHeader, NewHeader
<1> HIDE DEF u, v
<1> DEFINE Q == Marks(S)
<1> HIDE DEF Q
<1>7. /\ u \o v \in Seq(Q) /\ Len(u \o v) = Len(u) + Len(v)
      /\ \A k \in 1..Len(u) : (u \o v)[k] = u[k]
      /\ \A k \in 1..Len(v) : (u \o v)[Len(u) + k] = v[k]
  <2>1. u \in Seq(Q) /\ v \in Seq(Q)
    BY <1>3, <1>4 DEF Q
  <2>2. u \o v \in Seq(Q) /\ Len(u \o v) = Len(u) + Len(v)
    BY <2>1
  <2>3. QED
    BY <2>1, <2>2, JoinAfter, JoinBefore
<1>8. QED
  BY <1>3, <1>4, <1>5, <1>6, <1>7 DEF IsDump, Q

\* The fallback tells both texts in full.
LEMMA DumpTells ==
  ASSUME NEW S, NEW a \in Seq(S), NEW b \in Seq(S)
  PROVE  Before(Dump(a, b)) = a /\ After(Dump(a, b)) = b
<1> DEFINE d == Dump(a, b)
           n == Len(a)
           h == Len(b)
           D == 1..Len(d) + 1
           m == [k \in D |-> Len(d) + 1 - k]
           O == LinesFrom(d, OldMarks)
           W == LinesFrom(d, NewMarks)
           OldFrom(k) == IF k <= n THEN SubSeq(a, k, n) ELSE <<>>
           NewFrom(k) == IF k <= n THEN b ELSE SubSeq(b, k - n, h)
           T == {k \in D : O[k] = OldFrom(k) /\ W[k] = NewFrom(k)}
<1>1. /\ d \in Seq(Marks(S)) /\ Len(d) = n + h /\ n \in Nat /\ h \in Nat /\ Len(d) \in Nat
      /\ \A k \in 1..n : d[k].mark = OldHeader /\ d[k].line = a[k]
      /\ \A k \in 1..h : d[n + k].mark = NewHeader /\ d[n + k].line = b[k]
  <2>1. Len(a) \in Nat /\ Len(b) \in Nat
    OBVIOUS
  <2> HIDE DEF d
  <2>2. IsDump(d, S, a, b)
    BY DumpIs DEF d
  <2>3. QED
    BY <2>1, <2>2 DEF IsDump
<1> HIDE DEF d
<1>2. /\ \A k \in D : O[k] = Picked(d, OldMarks, O, k)
      /\ \A k \in D : W[k] = Picked(d, NewMarks, W, k)
      /\ O \in [D -> Seq(S)] /\ W \in [D -> Seq(S)]
  BY <1>1, LinesArePicked
<1> HIDE DEF O, W, n, h
<1>3. m \in [D -> Nat]
  BY <1>1
<1>4. ASSUME NEW k \in D, \A q \in D : Lesser(m, q, k) => q \in T
      PROVE  O[k] = OldFrom(k) /\ W[k] = NewFrom(k)
  <2>1. k \in Nat
    BY <1>1
  <2>2. CASE k > Len(d)
    <3>1. O[k] = <<>> /\ W[k] = <<>>
      BY <1>2, <2>2 DEF Picked
    <3>2. ~(k <= n) /\ k - n = h + 1
      BY <1>1, <2>2
    <3>3. SubSeq(b, h + 1, h) = <<>>
      BY <1>1, RestOfText DEF h
    <3>4. QED
      BY <3>1, <3>2, <3>3
  <2>3. CASE k \in 1..Len(d)
    <3>1. k + 1 \in D /\ Lesser(m, k + 1, k) /\ ~(k > Len(d))
      BY <1>1, <2>3 DEF Lesser
    <3>2. O[k + 1] = OldFrom(k + 1) /\ W[k + 1] = NewFrom(k + 1)
      BY <1>4, <3>1
    <3>3. /\ O[k] = (IF d[k].mark \in OldMarks THEN <<d[k].line>> ELSE <<>>) \o O[k + 1]
          /\ W[k] = (IF d[k].mark \in NewMarks THEN <<d[k].line>> ELSE <<>>) \o W[k + 1]
      BY <1>2, <3>1 DEF Picked
    <3>4. <<>> \o O[k + 1] = O[k + 1] /\ <<>> \o W[k + 1] = W[k + 1]
      BY <1>2, <3>1, ConcatEmptySeq
    <3>5. CASE k <= n
      <4>1. k \in 1..n /\ d[k].mark = OldHeader /\ d[k].line = a[k]
        BY <1>1, <2>1, <2>3, <3>5
      <4>2. O[k] = <<a[k]>> \o O[k + 1] /\ W[k] = W[k + 1]
        BY <3>3, <3>4, <4>1, MarksAre
      <4>3. SubSeq(a, k, n) = <<a[k]>> \o SubSeq(a, k + 1, n)
        BY <4>1, RestOfText DEF n
      <4>4. CASE k = n
        <5>1. SubSeq(a, k + 1, n) = <<>> /\ SubSeq(b, 1, h) = b
          BY <1>1, <4>4, RestOfText DEF n, h
        <5>2. O[k + 1] = <<>> /\ W[k + 1] = b
          BY <1>1, <3>2, <4>4, <5>1
        <5>3. QED
          BY <3>5, <4>2, <4>3, <5>1, <5>2
      <4>5. CASE k + 1 <= n
        BY <3>2, <3>5, <4>2, <4>3, <4>5
      <4>6. QED
        BY <1>1, <2>1, <3>5, <4>4, <4>5
    <3>6. CASE ~(k <= n)
      <4> DEFINE y == k - n
      <4>1. y \in 1..h /\ n + y = k /\ ~(k + 1 <= n) /\ k + 1 - n = y + 1
        BY <1>1, <2>1, <2>3, <3>6
      <4> HIDE DEF y
      <4>2. d[k].mark = NewHeader /\ d[k].line = b[y]
        BY <1>1, <4>1
      <4>3. O[k] = O[k + 1] /\ W[k] = <<b[y]>> \o W[k + 1]
        BY <3>3, <3>4, <4>2, MarksAre
      <4>4. SubSeq(b, y, h) = <<b[y]>> \o SubSeq(b, y + 1, h)
        BY <4>1, RestOfText DEF h
      <4>5. O[k + 1] = <<>> /\ W[k + 1] = SubSeq(b, y + 1, h)
        <5> DEFINE q == k + 1
        <5>1. ~(q <= n) /\ q - n = y + 1
          BY <1>1, <2>1, <4>1
        <5>2. O[q] = OldFrom(q) /\ W[q] = NewFrom(q)
          BY <3>2
        <5> HIDE DEF q
        <5>3. OldFrom(q) = <<>> /\ NewFrom(q) = SubSeq(b, y + 1, h)
          BY <5>1
        <5>4. O[q] = <<>> /\ W[q] = SubSeq(b, y + 1, h)
          BY <5>2, <5>3
        <5>5. QED
          BY <5>4 DEF q
      <4>6. QED
        BY <3>6, <4>3, <4>4, <4>5 DEF y
    <3>7. QED
      BY <3>5, <3>6
  <2>4. QED
    BY <1>1, <2>2, <2>3
<1>5. 1 \in T
  <2>1. 1 \in D
    BY <1>1
  <2>2. \A k \in D : (\A q \in D : Lesser(m, q, k) => q \in T) => k \in T
    BY <1>4
  <2> HIDE DEF T, D, m
  <2>3. QED
    BY <1>3, <2>1, <2>2, MeasureInduction
<1>6. O[1] = OldFrom(1) /\ W[1] = NewFrom(1)
  BY <1>5
<1>7. SubSeq(a, 1, n) = a /\ SubSeq(b, 1, h) = b /\ (n = 0 => a = <<>>)
  BY <1>1, RestOfText DEF n, h
<1>8. OldFrom(1) = a /\ NewFrom(1) = b
  <2>1. CASE n = 0
    <3>1. ~(1 <= n) /\ 1 - n = 1
      BY <2>1
    <3>2. QED
      BY <1>7, <2>1, <3>1
  <2>2. CASE n # 0
    <3>1. 1 <= n
      BY <1>1, <2>2
    <3>2. NewFrom(1) = b
      BY <3>1
    <3>3. OldFrom(1) = SubSeq(a, 1, n)
      BY <3>1
    <3>4. QED
      BY <1>7, <3>2, <3>3
  <2>3. QED
    BY <2>1, <2>2
<1>9. O[1] = a /\ W[1] = b
  BY <1>6, <1>8
<1>10. Before(d) = O[1] /\ After(d) = W[1]
  BY DEF Before, After, Lines, O, W, OldMarks, NewMarks, OldHeader, NewHeader
<1>11. QED
  BY <1>9, <1>10 DEF d

\* A cut preview fills the budget and shows that something is missing.
LEMMA CutShows ==
  ASSUME NEW R, NEW s \in Seq(R)
  PROVE  /\ Len(TruncateBytes(s)) <= DefaultByteBudget
         /\ TruncateBytes(s) = s \/ (~Whole(TruncateBytes(s)) /\ TruncateBytes(s) # <<>>)
<1> DEFINE B == DefaultByteBudget
           n == Len(s)
           keep == B - 1
           head == keep \div 2
           back == keep - head
           P == R \cup {Elided}
           x == SubSeq(s, 1, head)
           y == <<Elided>>
           z == SubSeq(s, n - back + 1, n)
<1>1. n \in Nat /\ B \in Nat /\ B > 0 /\ s \in Seq(P)
  BY DiffAssumption, SeqMonotonic DEF DiffAssumption
<1>2. keep \in Nat /\ head \in Nat /\ back \in Nat /\ head + back = B - 1
  BY <1>1
<1> HIDE DEF head, back, keep, B, n
<1>3. CASE n <= B
  <2>1. TruncateBytes(s) = s
    BY <1>3 DEF TruncateBytes, n, B
  <2>2. QED
    BY <1>3, <2>1 DEF n, B
<1>4. CASE ~(n <= B)
  <2>1. x \in Seq(P) /\ Len(x) = head
    BY <1>1, <1>2, <1>4 DEF n
  <2>2. z \in Seq(P) /\ Len(z) = back
    BY <1>1, <1>2, <1>4 DEF n
  <2>3. y \in Seq(P) /\ Len(y) = 1 /\ y[1] = Elided
    OBVIOUS
  <2>4. TruncateBytes(s) = x \o y \o z
    BY <1>4 DEF TruncateBytes, n, B, keep, head, back
  <2> HIDE DEF x, y, z
  <2> DEFINE xy == x \o y  Q == Seq(P)
  <2>5. xy \in Q /\ Len(xy) = head + 1 /\ xy[head + 1] = Elided
    <3>1. 1 \in 1..Len(y)
      BY <2>3
    <3>2. xy \in Q /\ Len(xy) = Len(x) + Len(y) /\ xy[Len(x) + 1] = y[1]
      BY <2>1, <2>3, <3>1, JoinAfter
    <3>3. QED
      BY <2>1, <2>3, <3>2
  <2> HIDE DEF xy, Q
  <2>6. /\ xy \o z \in Q /\ Len(xy \o z) = B /\ (xy \o z)[head + 1] = Elided
        /\ head + 1 \in DOMAIN (xy \o z)
    <3>1. xy \o z \in Q /\ Len(xy \o z) = head + 1 + back /\ (xy \o z)[head + 1] = xy[head + 1]
      BY <1>2, <2>2, <2>5, JoinBefore DEF Q
    <3>2. DOMAIN (xy \o z) = 1..Len(xy \o z)
      BY <3>1 DEF Q
    <3>3. head + 1 + back = B
      BY <1>1, <1>2
    <3>4. QED
      BY <1>1, <1>2, <2>5, <3>1, <3>2, <3>3
  <2>7. ~Whole(xy \o z) /\ xy \o z # <<>> /\ Len(xy \o z) <= B
    BY <1>1, <2>6 DEF Whole
  <2>8. QED
    BY <2>4, <2>7 DEF xy, B
<1>5. QED
  BY <1>3, <1>4

\* For every two texts, whatever their lines are: the preview that the user approves fits
\* the budget; unless something was cut out of it, it tells the text before from the text
\* after; and unless one of them is too long it marks as few lines as any diff could.
THEOREM PreviewsAreTrue ==
  ASSUME NEW S, NEW a \in Seq(S), NEW b \in Seq(S)
  PROVE  TellsChange(LineDiff(a, b), a, b)
<1>1. CASE a = b
  <2>1. LineDiff(a, b) = <<>>
    BY <1>1 DEF LineDiff, NoChanges
  <2>2. Len(<<>>) <= DefaultByteBudget
    BY DiffAssumption DEF DiffAssumption
  <2>3. QED
    BY <1>1, <2>1, <2>2 DEF TellsChange
<1>2. CASE a # b
  <2> DEFINE Long == Len(a) > MaxDiffLines \/ Len(b) > MaxDiffLines
             s == IF Long THEN Dump(a, b) ELSE MinimalDiff(a, b)
             p == TruncateBytes(s)
  <2>1. LineDiff(a, b) = p
    BY <1>2 DEF LineDiff
  <2>2. /\ Before(s) = a /\ After(s) = b /\ s \in Seq(Marks(S))
        /\ ~Long => IsMinimalDiff(s, a, b)
    <3>1. Dump(a, b) \in Seq(Marks(S)) /\ Before(Dump(a, b)) = a /\ After(Dump(a, b)) = b
      BY DumpIs, DumpTells DEF IsDump
    <3>2. /\ MinimalDiff(a, b) \in Seq(Marks(S)) /\ IsMinimalDiff(MinimalDiff(a, b), a, b)
          /\ Before(MinimalDiff(a, b)) = a /\ After(MinimalDiff(a, b)) = b
      BY LoopIsTrueAndMinimal DEF IsMinimalDiff
    <3>3. QED
      BY <3>1, <3>2
  <2> HIDE DEF s
  <2>3. Len(p) <= DefaultByteBudget /\ (p = s \/ (~Whole(p) /\ p # <<>>))
    BY <2>2, CutShows
  <2>4. s # <<>>
    <3>1. Before(<<>>) = <<>> /\ After(<<>>) = <<>>
      BY LinesOfNothing DEF Before, After
    <3>2. QED
      BY <1>2, <2>2, <3>1
  <2>5. Len(a) <= MaxDiffLines /\ Len(b) <= MaxDiffLines => ~Long
    BY DiffAssumption DEF DiffAssumption
  <2> HIDE DEF p, Long
  <2>6. QED
    BY <1>2, <2>1, <2>2, <2>3, <2>4, <2>5 DEF TellsChange, NoChanges
<1>3. QED
  BY <1>1, <1>2
=============================================================================
