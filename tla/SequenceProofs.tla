---------------------------- MODULE SequenceProofs ----------------------------
(***************************************************************************)
(* Lemmas about numbers, recursive functions and flattened sequences.  The *)
(* library states induction with an operator for the hypothesis; here a    *)
(* set takes its place, so that the lemmas can be cited.                   *)
(***************************************************************************)
EXTENDS Integers, Sequences, SequencesExt, SequenceTheorems, WellFoundedInduction, TLAPS

(* A set of numbers with a member has a least one.                           *)
LEMMA Least ==
  ASSUME NEW S \in SUBSET Nat, S # {}
  PROVE  \E n \in S : \A m \in S : n <= m
  <1> DEFINE Less == {ss \in Nat \X Nat : ss[1] < ss[2]}
  <1>1. IsWellFoundedOn(Less, Nat)
    BY NatLessThanWellFounded DEF OpToRel
  <1> HIDE DEF Less
  <1>2. PICK n \in S : \A m \in S : <<m, n>> \notin Less
    BY <1>1, WFMin
  <1>3. ASSUME NEW m \in S PROVE n <= m
    <2>1. m \in Nat /\ n \in Nat /\ ~(m < n)
      BY <1>2 DEF Less
    <2> QED
      BY <2>1
  <1> QED
    BY <1>3

(* Induction up to a bound: a set that holds 0 and with each number the next *)
(* holds them all.                                                           *)
LEMMA Upwards ==
  ASSUME NEW n \in Nat, NEW S, 0 \in S, \A k \in 0..(n - 1) : k \in S => k + 1 \in S
  PROVE  \A k \in 0..n : k \in S
  <1> DEFINE Bad == {k \in 0..n : k \notin S}
  <1> SUFFICES ASSUME Bad # {} PROVE FALSE
    OBVIOUS
  <1>1. Bad \in SUBSET Nat
    OBVIOUS
  <1>2. PICK k \in Bad : \A m \in Bad : k <= m
    BY <1>1, Least
  <1>3. k \in 1..n /\ k - 1 \in 0..(n - 1) /\ k - 1 \notin Bad /\ (k - 1) + 1 = k
    BY <1>2
  <1> QED
    BY <1>3

(* The same from the bound down to 0.                                        *)
LEMMA Downwards ==
  ASSUME NEW n \in Nat, NEW S,
         \A k \in 0..n : (\A m \in (k + 1)..n : m \in S) => k \in S
  PROVE  \A k \in 0..n : k \in S
  <1> DEFINE Bad == {k \in 0..n : n - k \notin S}
  <1> SUFFICES ASSUME NEW l \in 0..n, l \notin S PROVE FALSE
    OBVIOUS
  <1>1. n - l \in Bad /\ Bad \in SUBSET Nat
    OBVIOUS
  <1>2. PICK k \in Bad : \A m \in Bad : k <= m
    BY <1>1, Least
  <1>3. ASSUME NEW m \in (n - k + 1)..n PROVE m \in S
    <2>1. n - m \in 0..n /\ n - m < k /\ n - (n - m) = m
      OBVIOUS
    <2>2. n - m \notin Bad
      BY <2>1, <1>2
    <2> QED
      BY <2>1, <2>2
  <1> QED
    BY <1>3

(* A function given by its first value and by each from the one before.      *)
Follows(f, n, b, G) == f[0] = b /\ \A i \in 1..n : f[i] = G[<<i, f[i - 1]>>]

LEMMA Recursion ==
  ASSUME NEW n \in Nat, NEW V, NEW b \in V, NEW G \in [(1..n) \X V -> V]
  PROVE  \E f \in [0..n -> V] : Follows(f, n, b, G)
  <1> DEFINE S == {k \in 0..n : \E f \in [0..k -> V] :
                     f[0] = b /\ \A i \in 1..k : f[i] = G[<<i, f[i - 1]>>]}
  <1>1. 0 \in S
    <2> DEFINE f == [i \in 0..0 |-> b]
    <2>1. f \in [0..0 -> V] /\ f[0] = b /\ \A i \in 1..0 : f[i] = G[<<i, f[i - 1]>>]
      OBVIOUS
    <2> HIDE DEF f
    <2> QED
      BY <2>1
  <1>2. ASSUME NEW k \in 0..(n - 1), k \in S PROVE k + 1 \in S
    <2>1. PICK f \in [0..k -> V] : f[0] = b /\ \A i \in 1..k : f[i] = G[<<i, f[i - 1]>>]
      BY <1>2
    <2> DEFINE next == G[<<k + 1, f[k]>>]
               g == [i \in 0..(k + 1) |-> IF i = k + 1 THEN next ELSE f[i]]
    <2>2. next \in V /\ k + 1 \in 0..n
      OBVIOUS
    <2>3. g \in [0..(k + 1) -> V]
      BY <2>2
    <2>4. g[0] = b
      BY <2>1
    <2>5. ASSUME NEW i \in 1..(k + 1) PROVE g[i] = G[<<i, g[i - 1]>>]
      <3>1. i - 1 \in 0..k /\ i - 1 # k + 1
        OBVIOUS
      <3>2. g[i - 1] = f[i - 1]
        BY <3>1
      <3>3. CASE i = k + 1
        <4>1. g[i] = next /\ i - 1 = k
          BY <3>3
        <4> QED
          BY <4>1, <3>2, <3>3
      <3>4. CASE i # k + 1
        <4>1. i \in 1..k /\ g[i] = f[i]
          BY <3>4
        <4> QED
          BY <2>1, <4>1, <3>2
      <3> QED
        BY <3>3, <3>4
    <2> HIDE DEF g, next
    <2> QED
      BY <2>2, <2>3, <2>4, <2>5
  <1> HIDE DEF S
  <1>3. n \in S
    BY <1>1, <1>2, Upwards
  <1> QED
    BY <1>3 DEF S, Follows

(* The two parts of a concatenation.                                         *)
Parts(u, s, t, m, n) ==
  /\ Len(u) = m + n
  /\ \A i \in 1..m : u[i] = s[i]
  /\ \A i \in 1..n : u[m + i] = t[i]

LEMMA ConcatParts ==
  ASSUME NEW S, NEW s \in Seq(S), NEW t \in Seq(S), NEW m, NEW n, Len(s) = m, Len(t) = n
  PROVE  s \o t \in Seq(S) /\ Parts(s \o t, s, t, m, n)
  <1>0. m \in Nat /\ n \in Nat
    BY LenProperties
  <1>1. ASSUME NEW i \in 1..n PROVE (s \o t)[m + i] = t[i]
    <2>1. m + i \in 1..(m + n) /\ ~(m + i <= m) /\ m + i - m = i
      BY <1>0
    <2> QED
      BY <2>1, ConcatProperties
  <1>2. ASSUME NEW i \in 1..m PROVE (s \o t)[i] = s[i]
    <2>1. i \in 1..(m + n) /\ i <= m
      BY <1>0
    <2> QED
      BY <2>1, ConcatProperties
  <1>3. s \o t \in Seq(S) /\ Len(s \o t) = m + n
    BY ConcatProperties
  <1> QED
    BY <1>1, <1>2, <1>3 DEF Parts

(* A part of a sequence.                                                     *)
LEMMA Slice ==
  ASSUME NEW S, NEW s \in Seq(S), NEW m \in 1..(Len(s) + 1), NEW n \in (m - 1)..Len(s)
  PROVE  /\ SubSeq(s, m, n) \in Seq(S) /\ Len(SubSeq(s, m, n)) = n - m + 1
         /\ \A i \in 1..(n - m + 1) : SubSeq(s, m, n)[i] = s[m + i - 1]
  <1>1. m \in Int /\ n \in Int /\ (m <= n \/ n - m + 1 = 0)
    OBVIOUS
  <1>2. \A i \in m..n : s[i] \in S
    BY ElementOfSeq
  <1>3. /\ SubSeq(s, m, n) \in Seq(S)
        /\ Len(SubSeq(s, m, n)) = IF m <= n THEN n - m + 1 ELSE 0
    BY <1>1, <1>2, SubSeqProperties
  <1>4. \A i \in 1..(n - m + 1) : SubSeq(s, m, n)[i] = s[m + i - 1]
    BY <1>1, <1>2, SubSeqProperties
  <1> QED
    BY <1>1, <1>3, <1>4

-----------------------------------------------------------------------------
(* Flattened sequences *)

Pieces(S, n, ss) == n \in Nat /\ ss \in [1..n -> Seq(S)]

(* The partial results of FlattenSeq.                                        *)
Partial(S, n, ss, f) ==
  f \in [0..n -> Seq(S)] /\ f[0] = <<>> /\ \A i \in 1..n : f[i] = f[i - 1] \o ss[i]

LEMMA PartialExists ==
  ASSUME NEW S, NEW n, NEW ss, Pieces(S, n, ss)
  PROVE  \E f : Partial(S, n, ss, f)
  <1> DEFINE V == Seq(S)
             b == <<>>
             G == [p \in (1..n) \X V |-> p[2] \o ss[p[1]]]
  <1>0. n \in Nat /\ ss \in [1..n -> V] /\ b \in V
    BY DEF Pieces
  <1>1. G \in [(1..n) \X V -> V]
    <2>1. ASSUME NEW p \in (1..n) \X V PROVE p[2] \o ss[p[1]] \in V
      BY <1>0, ConcatProperties
    <2> QED
      BY <2>1
  <1>2. \A i \in 1..n, r \in V : G[<<i, r>>] = r \o ss[i]
    OBVIOUS
  <1> HIDE DEF G, V, b
  <1>3. PICK f \in [0..n -> V] : Follows(f, n, b, G)
    BY <1>0, <1>1, Recursion
  <1>4. ASSUME NEW i \in 1..n PROVE f[i] = f[i - 1] \o ss[i]
    <2>1. i - 1 \in 0..n
      BY <1>0
    <2>2. f[i - 1] \in V
      BY <2>1
    <2> QED
      BY <2>2, <1>2, <1>3 DEF Follows
  <1> QED
    BY <1>3, <1>4 DEF Partial, Follows, V, b

(* One more piece.                                                           *)
Grows(S, ss, f, k) ==
  /\ f[k + 1] = f[k] \o ss[k + 1]
  /\ f[k] \in Seq(S) /\ ss[k + 1] \in Seq(S) /\ f[k + 1] \in Seq(S)
  /\ Parts(f[k + 1], f[k], ss[k + 1], Len(f[k]), Len(ss[k + 1]))

LEMMA PartialStep ==
  ASSUME NEW S, NEW n, NEW ss, NEW f, Pieces(S, n, ss), Partial(S, n, ss, f), NEW k \in 0..(n - 1)
  PROVE  Grows(S, ss, f, k)
  <1>1. k + 1 \in 1..n /\ (k + 1) - 1 = k /\ k \in 0..n /\ k + 1 \in 0..n
    BY DEF Pieces
  <1>2. f[k + 1] = f[(k + 1) - 1] \o ss[k + 1]
    BY <1>1 DEF Partial
  <1>3. f[k] \in Seq(S) /\ ss[k + 1] \in Seq(S) /\ f[k + 1] \in Seq(S)
    BY <1>1 DEF Pieces, Partial
  <1>4. Parts(f[k] \o ss[k + 1], f[k], ss[k + 1], Len(f[k]), Len(ss[k + 1]))
    BY <1>3, ConcatParts
  <1>5. f[k + 1] = f[k] \o ss[k + 1]
    BY <1>1, <1>2
  <1> QED
    BY <1>3, <1>4, <1>5 DEF Grows

(* The last partial result is the whole.                                     *)
LEMMA FlattenIsPartial ==
  ASSUME NEW S, NEW n, NEW ss, NEW f, Pieces(S, n, ss), Partial(S, n, ss, f)
  PROVE  FlattenSeq(ss) = f[n] /\ f[n] \in Seq(S)
  <1> DEFINE Step(g) == [i \in 1..n |-> IF i = 1 THEN ss[i] ELSE g[i - 1] \o ss[i]]
  <1>0. n \in Nat /\ Len(ss) = n /\ f[0] = <<>> /\ f[n] \in Seq(S)
    BY DEF Pieces, Partial
  <1>1. CASE n = 0
    <2>1. ss = <<>>
      BY <1>1 DEF Pieces
    <2> QED
      BY <1>0, <1>1, <2>1 DEF FlattenSeq
  <1>2. CASE n # 0
    <2> DEFINE g == CHOOSE h : h = Step(h)
               h == [i \in 1..n |-> f[i]]
    <2>1. f[1] = ss[1] /\ \A k \in 1..(n - 1) : f[k + 1] = f[k] \o ss[k + 1]
      <3>1. 0 \in 0..(n - 1) /\ 0 + 1 = 1 /\ \A k \in 1..(n - 1) : k \in 0..(n - 1)
        BY <1>0, <1>2
      <3>2. f[0 + 1] = f[0] \o ss[0 + 1] /\ ss[0 + 1] \in Seq(S)
        <4>1. Grows(S, ss, f, 0)
          BY <3>1, PartialStep
        <4> QED
          BY <4>1 DEF Grows
      <3>3. <<>> \o ss[1] = ss[1]
        BY <3>1, <3>2, ConcatEmptySeq
      <3>4. ASSUME NEW k \in 1..(n - 1) PROVE f[k + 1] = f[k] \o ss[k + 1]
        <4>1. Grows(S, ss, f, k)
          BY <3>1, PartialStep
        <4> QED
          BY <4>1 DEF Grows
      <3> QED
        BY <1>0, <3>1, <3>2, <3>3, <3>4
    <2>2. ASSUME NEW i \in 1..n PROVE h[i] = IF i = 1 THEN ss[i] ELSE h[i - 1] \o ss[i]
      <3>1. CASE i # 1
        <4>1. i - 1 \in 1..(n - 1) /\ i - 1 \in 1..n /\ (i - 1) + 1 = i
          BY <1>0, <3>1
        <4>2. f[(i - 1) + 1] = f[i - 1] \o ss[(i - 1) + 1]
          BY <2>1, <4>1
        <4> QED
          BY <3>1, <4>1, <4>2
      <3> QED
        BY <2>1, <3>1
    <2>3. h = Step(h)
      BY <2>2
    <2>4. g = Step(g)
      <3> HIDE DEF h, Step
      <3> QED
        BY <2>3
    <2> HIDE DEF g, h
    <2>5. g[1] = ss[1] /\ \A k \in 1..(n - 1) : g[k + 1] = g[k] \o ss[k + 1]
      <3>1. 1 \in 1..n /\ \A k \in 1..(n - 1) : k + 1 \in 1..n /\ k + 1 # 1 /\ (k + 1) - 1 = k
        BY <1>0, <1>2
      <3> QED
        BY <2>4, <3>1
    <2> DEFINE T == {k \in 0..n : k = 0 \/ g[k] = f[k]}
    <2>6. ASSUME NEW k \in 0..(n - 1), k \in T PROVE k + 1 \in T
      <3>1. k + 1 \in 0..n /\ (k = 0 \/ k \in 1..(n - 1))
        BY <1>0
      <3>2. CASE k = 0
        BY <2>1, <2>5, <3>1, <3>2
      <3>3. CASE k \in 1..(n - 1)
        <4>1. g[k] = f[k]
          BY <2>6, <3>3
        <4>2. g[k + 1] = f[k + 1]
          BY <2>1, <2>5, <3>3, <4>1
        <4> QED
          BY <3>1, <4>2
      <3> QED
        BY <3>1, <3>2, <3>3
    <2>7. 0 \in T
      BY <1>0
    <2> HIDE DEF T
    <2>8. \A k \in 0..n : k \in T
      BY <1>0, <2>6, <2>7, Upwards
    <2>9. n \in T
      BY <1>0, <2>8
    <2>10. g[n] = f[n]
      BY <1>2, <2>9 DEF T
    <2> QED
      BY <1>0, <1>2, <2>10 DEF FlattenSeq, g
  <1> QED
    BY <1>0, <1>1, <1>2

LEMMA FlattenType ==
  ASSUME NEW S, NEW n, NEW ss, Pieces(S, n, ss)
  PROVE  FlattenSeq(ss) \in Seq(S)
  <1>1. PICK f : Partial(S, n, ss, f)
    BY PartialExists
  <1> QED
    BY <1>1, FlattenIsPartial

(* The partial results are the flattened fronts.                             *)
LEMMA PartialFront ==
  ASSUME NEW S, NEW n, NEW ss, NEW f, Pieces(S, n, ss), Partial(S, n, ss, f), NEW k \in 0..n
  PROVE  f[k] = FlattenSeq([i \in 1..k |-> ss[i]]) /\ f[k] \in Seq(S)
  <1> DEFINE front == [i \in 1..k |-> ss[i]]
             g == [i \in 0..k |-> f[i]]
  <1>0. k \in Nat /\ k \in 0..k /\ n \in Nat
    BY DEF Pieces
  <1>1. Pieces(S, k, front)
    BY <1>0 DEF Pieces
  <1>2. Partial(S, k, front, g)
    <2>1. g \in [0..k -> Seq(S)] /\ g[0] = <<>>
      BY <1>0 DEF Partial
    <2>2. ASSUME NEW i \in 1..k PROVE g[i] = g[i - 1] \o front[i]
      <3>1. i \in 1..n /\ i \in 0..k /\ i - 1 \in 0..k
        BY <1>0
      <3>2. f[i] = f[i - 1] \o ss[i]
        BY <3>1 DEF Partial
      <3> QED
        BY <3>1, <3>2
    <2> QED
      BY <2>1, <2>2 DEF Partial
  <1>3. g[k] = f[k]
    BY <1>0
  <1> HIDE DEF front, g
  <1>4. FlattenSeq(front) = g[k] /\ g[k] \in Seq(S)
    BY <1>1, <1>2, FlattenIsPartial
  <1> QED
    BY <1>3, <1>4 DEF front

(* A flattened sequence grows by its pieces.                                 *)
LEMMA FlattenEmpty ==
  ASSUME NEW ss, NEW S, ss \in [1..0 -> S]
  PROVE  FlattenSeq(ss) = <<>>
  <1>1. ss = <<>> /\ Len(ss) = 0
    OBVIOUS
  <1> QED
    BY <1>1 DEF FlattenSeq

LEMMA FlattenLast ==
  ASSUME NEW S, NEW n \in Nat, NEW ss, Pieces(S, n + 1, ss)
  PROVE  /\ FlattenSeq(ss) = FlattenSeq([i \in 1..n |-> ss[i]]) \o ss[n + 1]
         /\ FlattenSeq([i \in 1..n |-> ss[i]]) \in Seq(S) /\ ss[n + 1] \in Seq(S)
  <1> DEFINE l == n + 1
  <1>0. n \in 0..l /\ n \in 0..(l - 1) /\ l = n + 1
    OBVIOUS
  <1> HIDE DEF l
  <1>1. Pieces(S, l, ss)
    BY <1>0
  <1>2. PICK f : Partial(S, l, ss, f)
    BY <1>1, PartialExists
  <1>3. FlattenSeq(ss) = f[l]
    BY <1>1, <1>2, FlattenIsPartial
  <1>4. f[n] = FlattenSeq([i \in 1..n |-> ss[i]]) /\ f[n] \in Seq(S)
    BY <1>0, <1>1, <1>2, PartialFront
  <1>5. f[n + 1] = f[n] \o ss[n + 1] /\ ss[n + 1] \in Seq(S)
    <2>1. Grows(S, ss, f, n)
      BY <1>0, <1>1, <1>2, PartialStep
    <2> QED
      BY <2>1 DEF Grows
  <1> QED
    BY <1>0, <1>3, <1>4, <1>5

LEMMA FlattenOne ==
  ASSUME NEW S, NEW ss, Pieces(S, 1, ss)
  PROVE  FlattenSeq(ss) = ss[1]
  <1>1. 0 + 1 = 1 /\ 0 \in Nat
    OBVIOUS
  <1>2. Pieces(S, 0 + 1, ss)
    BY <1>1
  <1>3. /\ FlattenSeq(ss) = FlattenSeq([i \in 1..0 |-> ss[i]]) \o ss[0 + 1]
        /\ ss[0 + 1] \in Seq(S)
    BY <1>1, <1>2, FlattenLast
  <1>4. FlattenSeq([i \in 1..0 |-> ss[i]]) = <<>>
    <2>1. [i \in 1..0 |-> ss[i]] \in [1..0 -> {}]
      OBVIOUS
    <2> QED
      BY <2>1, FlattenEmpty
  <1>5. <<>> \o ss[1] = ss[1]
    BY <1>1, <1>3, ConcatEmptySeq
  <1> QED
    BY <1>1, <1>3, <1>4, <1>5

(* What is flattened so far is the beginning of the whole.                   *)
LEMMA PartialGrows ==
  ASSUME NEW S, NEW n, NEW ss, NEW f, Pieces(S, n, ss), Partial(S, n, ss, f), NEW k \in 0..n
  PROVE  Len(f[k]) <= Len(f[n]) /\ \A i \in 1..Len(f[k]) : f[n][i] = f[k][i]
  <1> DEFINE Begins(j) == Len(f[j]) <= Len(f[n]) /\ \A i \in 1..Len(f[j]) : f[n][i] = f[j][i]
             T == {j \in 0..n : Begins(n - j)}
  <1>0. n \in Nat /\ n - 0 = n /\ n \in 0..n /\ f[n] \in Seq(S)
    BY FlattenIsPartial DEF Pieces
  <1>1. 0 \in T
    <2>1. Len(f[n]) \in Nat
      BY <1>0
    <2>2. Begins(n)
      BY <2>1
    <2> QED
      BY <1>0, <2>2
  <1>2. ASSUME NEW j \in 0..(n - 1), j \in T PROVE j + 1 \in T
    <2> DEFINE m == n - (j + 1)
    <2>1. m \in 0..(n - 1) /\ m + 1 = n - j /\ j + 1 \in 0..n
      BY <1>0
    <2>2. Begins(m + 1)
      BY <1>2, <2>1
    <2> HIDE DEF m
    <2>3. /\ f[m] \in Seq(S) /\ f[m + 1] \in Seq(S) /\ ss[m + 1] \in Seq(S)
          /\ Parts(f[m + 1], f[m], ss[m + 1], Len(f[m]), Len(ss[m + 1]))
      <3>1. Grows(S, ss, f, m)
        BY <2>1, PartialStep
      <3> QED
        BY <3>1 DEF Grows
    <2> DEFINE a == f[m]  b == f[m + 1]  c == f[n]  d == ss[m + 1]
    <2>4. /\ Len(a) \in Nat /\ Len(d) \in Nat /\ Len(c) \in Nat /\ Parts(b, a, d, Len(a), Len(d))
          /\ Len(b) <= Len(c) /\ \A i \in 1..Len(b) : c[i] = b[i]
      BY <1>0, <2>2, <2>3
    <2> HIDE DEF a, b, c, d
    <2>5. Len(a) <= Len(c) /\ \A i \in 1..Len(a) : c[i] = a[i]
      BY <2>4 DEF Parts
    <2>6. Begins(m)
      BY <2>5 DEF a, c
    <2> QED
      BY <2>1, <2>6 DEF m
  <1> HIDE DEF T
  <1>3. \A j \in 0..n : j \in T
    BY <1>0, <1>1, <1>2, Upwards
  <1>4. n - k \in 0..n /\ n - (n - k) = k
    BY <1>0
  <1>5. n - k \in T
    BY <1>3, <1>4
  <1> QED
    BY <1>4, <1>5 DEF T

LEMMA FlattenConcat ==
  ASSUME NEW S, NEW m, NEW n, NEW ss, NEW tt, NEW uu, Pieces(S, m, ss), Pieces(S, n, tt),
         Pieces(S, m + n, uu), Parts(uu, ss, tt, m, n)
  PROVE  FlattenSeq(uu) = FlattenSeq(ss) \o FlattenSeq(tt)
  <1> DEFINE l == m + n
  <1>0. /\ l = m + n /\ m \in Nat /\ n \in Nat /\ l \in Nat
        /\ m \in 0..l /\ n \in 0..n /\ 0 \in 0..n /\ m + 0 = m
    BY DEF Pieces
  <1>a. \A j \in 0..(n - 1) : /\ j + 1 \in 0..n /\ j + 1 \in 1..n /\ m + j \in 0..(l - 1)
                              /\ (m + j) + 1 = m + (j + 1)
    BY <1>0
  <1> HIDE DEF l
  <1>b. Pieces(S, l, uu)
    BY <1>0
  <1>1. PICK f : Partial(S, l, uu, f)
    BY <1>b, PartialExists
  <1>2. PICK g : Partial(S, n, tt, g)
    BY PartialExists
  <1>3. FlattenSeq(uu) = f[l] /\ FlattenSeq(tt) = g[n]
    BY <1>b, <1>1, <1>2, FlattenIsPartial
  <1>4. f[m] = FlattenSeq(ss) /\ f[m] \in Seq(S)
    <2>1. f[m] = FlattenSeq([i \in 1..m |-> uu[i]]) /\ f[m] \in Seq(S)
      BY <1>0, <1>b, <1>1, PartialFront
    <2>2. [i \in 1..m |-> uu[i]] = ss
      BY DEF Parts, Pieces
    <2> QED
      BY <2>1, <2>2
  <1> DEFINE T == {j \in 0..n : f[m + j] = f[m] \o g[j]}
  <1>5. 0 \in T
    <2>1. g[0] = <<>>
      BY <1>2 DEF Partial
    <2>2. f[m] \o <<>> = f[m]
      BY <1>4, ConcatEmptySeq
    <2> QED
      BY <1>0, <2>1, <2>2
  <1>6. ASSUME NEW j \in 0..(n - 1), j \in T PROVE j + 1 \in T
    <2>0. f[m + j] = f[m] \o g[j]
      BY <1>6
    <2> HIDE DEF T
    <2>1. /\ j + 1 \in 0..n /\ j + 1 \in 1..n /\ m + j \in 0..(l - 1)
          /\ (m + j) + 1 = m + (j + 1)
      BY <1>a
    <2>2. f[(m + j) + 1] = f[m + j] \o uu[(m + j) + 1]
      <3>1. Grows(S, uu, f, m + j)
        BY <1>b, <1>1, <2>1, PartialStep
      <3> QED
        BY <3>1 DEF Grows
    <2>3. g[j + 1] = g[j] \o tt[j + 1] /\ g[j] \in Seq(S) /\ tt[j + 1] \in Seq(S)
      <3>1. Grows(S, tt, g, j)
        BY <1>2, PartialStep
      <3> QED
        BY <3>1 DEF Grows
    <2>4. uu[m + (j + 1)] = tt[j + 1]
      BY <2>1 DEF Parts
    <2>5. f[m + (j + 1)] = (f[m] \o g[j]) \o tt[j + 1]
      BY <2>0, <2>1, <2>2, <2>4
    <2>6. (f[m] \o g[j]) \o tt[j + 1] = f[m] \o (g[j] \o tt[j + 1])
      <3> DEFINE a == f[m]  b == g[j]  c == tt[j + 1]
      <3>1. a \in Seq(S) /\ b \in Seq(S) /\ c \in Seq(S)
        BY <1>4, <2>3
      <3> HIDE DEF a, b, c
      <3>2. (a \o b) \o c = a \o (b \o c)
        BY <3>1, ConcatAssociative
      <3> QED
        BY <3>2 DEF a, b, c
    <2>7. f[m + (j + 1)] = f[m] \o g[j + 1]
      BY <2>3, <2>5, <2>6
    <2> QED
      BY <2>1, <2>7 DEF T
  <1> HIDE DEF T
  <1>7. \A j \in 0..n : j \in T
    BY <1>0, <1>5, <1>6, Upwards
  <1>8. n \in T
    BY <1>0, <1>7
  <1>9. f[l] = f[m] \o g[n]
    BY <1>0, <1>8 DEF T
  <1> QED
    BY <1>3, <1>4, <1>9

(* Pieces of one member each.                                                *)
LEMMA FlattenSingletons ==
  ASSUME NEW S, NEW s \in Seq(S)
  PROVE  FlattenSeq([i \in 1..Len(s) |-> <<s[i]>>]) = s
  <1> DEFINE n == Len(s)
             ss == [i \in 1..n |-> <<s[i]>>]
             f == [i \in 0..n |-> SubSeq(s, 1, i)]
  <1>0. n \in Nat /\ n \in 0..n
    OBVIOUS
  <1>1. Pieces(S, n, ss)
    <2>1. \A i \in 1..n : <<s[i]>> \in Seq(S)
      BY ElementOfSeq
    <2> QED
      BY <1>0, <2>1 DEF Pieces
  <1>2. \A i \in 0..n : SubSeq(s, 1, i) \in Seq(S)
    BY Slice
  <1>3. Partial(S, n, ss, f)
    <2>1. f[0] = <<>>
      <3>1. f[0] = SubSeq(s, 1, 0)
        BY <1>0
      <3> QED
        BY <3>1, SubSeqEmpty
    <2>2. ASSUME NEW i \in 1..n PROVE f[i] = f[i - 1] \o ss[i]
      <3>1. SubSeq(s, 1, i) = SubSeq(s, 1, i - 1) \o <<s[i]>>
        BY SubSeqRecursiveSecond
      <3>2. i \in 0..n /\ i - 1 \in 0..n
        OBVIOUS
      <3> QED
        BY <3>1, <3>2
    <2> QED
      BY <1>2, <2>1, <2>2 DEF Partial
  <1>4. f[n] = s
    <2>1. f[n] = SubSeq(s, 1, n)
      BY <1>0
    <2> QED
      BY <2>1, SubSeqFull
  <1> HIDE DEF n, ss, f
  <1>5. FlattenSeq(ss) = f[n]
    BY <1>1, <1>3, FlattenIsPartial
  <1> QED
    BY <1>4, <1>5 DEF ss, n

(* Empty pieces add nothing.                                                 *)
LEMMA PartialSame ==
  ASSUME NEW S, NEW n, NEW ss, NEW f, Pieces(S, n, ss), Partial(S, n, ss, f),
         NEW a \in 0..n, NEW b \in a..n, \A i \in (a + 1)..b : ss[i] = <<>>
  PROVE  f[b] = f[a]
  <1> DEFINE T == {j \in 0..(b - a) : f[a + j] = f[a]}
  <1>1. n \in Nat /\ a \in Nat /\ b \in Nat /\ a <= b /\ b <= n /\ b - a \in Nat
    BY DEF Pieces
  <1>2. 0 \in T
    BY <1>1
  <1>3. ASSUME NEW j \in 0..(b - a - 1), j \in T PROVE j + 1 \in T
    <2>1. /\ a + j \in 0..(n - 1) /\ (a + j) + 1 \in (a + 1)..b /\ a + (j + 1) = (a + j) + 1
          /\ j + 1 \in 0..(b - a)
      BY <1>1
    <2>2. Grows(S, ss, f, a + j)
      BY <2>1, PartialStep
    <2>3. f[(a + j) + 1] = f[a + j] \o ss[(a + j) + 1] /\ f[a + j] \in Seq(S)
      BY <2>2 DEF Grows
    <2>4. ss[(a + j) + 1] = <<>>
      BY <2>1
    <2>5. f[(a + j) + 1] = f[a + j]
      BY <2>3, <2>4, ConcatEmptySeq
    <2> QED
      BY <1>3, <2>1, <2>5
  <1>4. b - a \in T
    <2>1. b - a \in 0..(b - a) /\ \A j \in 0..((b - a) - 1) : j \in 0..(b - a - 1)
      BY <1>1
    <2> HIDE DEF T
    <2> QED
      BY <1>1, <1>2, <1>3, <2>1, Upwards
  <1>5. a + (b - a) = b
    BY <1>1
  <1> QED
    BY <1>4, <1>5
=============================================================================
