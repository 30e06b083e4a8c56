-------------------------- MODULE WatchData_proofs --------------------------
(***************************************************************************)
(* What the phone computes for the watch is right for every input: the     *)
(* size of an image (ResizeImage) and the list of sources, grouped,        *)
(* flattened and archived (CategorizedSources).  The latter needs          *)
(* induction over sequences, which is done with sets of numbers.           *)
(***************************************************************************)
EXTENDS CategorizedSources, ResizeImage, SequenceTheorems, WellFoundedInduction, TLAPS

-----------------------------------------------------------------------------
(* Induction over the numbers, for the members of a set.                   *)

\* A set of numbers has a smallest.
LEMMA SmallestNumber ==
  ASSUME NEW T, T \subseteq Nat, T # {}
  PROVE  \E n \in T : \A m \in T : ~ (m < n)
  <1> DEFINE R == OpToRel(<, Nat)
  <1>1. IsWellFoundedOn(R, Nat)
    BY NatLessThanWellFounded
  <1>2. \E n \in T : \A m \in T : ~ (<<m, n>> \in R)
    <2> HIDE DEF R
    <2>1. QED
      BY <1>1, WFMin
  <1>3. PICK n \in T : \A m \in T : ~ (<<m, n>> \in R)
    BY <1>2
  <1>4. ASSUME NEW m \in T, m < n PROVE FALSE
    <2>1. <<m, n>> \in Nat \X Nat
      OBVIOUS
    <2>2. <<m, n>> \in R
      BY <2>1, <1>4 DEF OpToRel
    <2>3. QED
      BY <2>2, <1>3
  <1>5. QED
    BY <1>4

\* A set with 0 that is closed under successors has all numbers.
LEMMA SetInduction ==
  ASSUME NEW P, 0 \in P, \A n \in Nat : n \in P => n + 1 \in P
  PROVE  Nat \subseteq P
  <1>1. ASSUME NEW k \in Nat, k \notin P PROVE FALSE
    <2> DEFINE T == Nat \ P
    <2>1. PICK n \in T : \A m \in T : ~ (m < n)
      <3>1. T \subseteq Nat /\ T # {}
        BY <1>1
      <3> HIDE DEF T
      <3>2. QED
        BY <3>1, SmallestNumber
    <2>2. n \in Nat /\ n # 0 /\ n \notin P
      OBVIOUS
    <2>3. n - 1 \in Nat /\ n - 1 < n /\ (n - 1) + 1 = n
      BY <2>2
    <2>4. n - 1 \in P
      BY <2>1, <2>3
    <2>5. n \in P
      BY <2>3, <2>4
    <2>6. QED
      BY <2>5, <2>2
  <1>2. QED
    BY <1>1

\* The same up to a bound.
LEMMA BoundedInduction ==
  ASSUME NEW N \in Nat, NEW P, 0 \in P, \A n \in 1 .. N : n - 1 \in P => n \in P
  PROVE  0 .. N \subseteq P
  <1> DEFINE Q == {n \in Nat : n <= N => n \in P}
  <1>1. 0 \in Q
    OBVIOUS
  <1>2. ASSUME NEW n \in Nat, n \in Q PROVE n + 1 \in Q
    <2>1. CASE n + 1 <= N
      <3>1. n \in P /\ n + 1 \in 1 .. N /\ (n + 1) - 1 = n
        BY <1>2, <2>1
      <3>2. n + 1 \in P
        BY <3>1
      <3>3. QED
        BY <3>2
    <2>2. CASE ~ (n + 1 <= N)
      BY <2>2
    <2>3. QED
      BY <2>1, <2>2
  <1>3. Nat \subseteq Q
    <2> HIDE DEF Q
    <2>1. QED
      BY <1>1, <1>2, SetInduction
  <1>4. QED
    BY <1>3

\* f begins with a, and h gives each value up to n from the one before.
RecursesBy(f, a, h, n) == f[0] = a /\ \A k \in 1 .. n : f[k] = h[<<k, f[k - 1]>>]

\* What is defined from one number to the next is defined.
LEMMA RecursionExists ==
  ASSUME NEW S, NEW a \in S, NEW h \in [Nat \X S -> S], NEW N \in Nat
  PROVE  \E f \in [0 .. N -> S] : RecursesBy(f, a, h, N)
  <1> DEFINE P == {n \in Nat : \E f \in [0 .. n -> S] : RecursesBy(f, a, h, n)}
  <1>1. 0 \in P
    <2>1. [k \in 0 .. 0 |-> a] \in [0 .. 0 -> S] /\ RecursesBy([k \in 0 .. 0 |-> a], a, h, 0)
      BY DEF RecursesBy
    <2>2. QED
      BY <2>1
  <1>2. ASSUME NEW n \in Nat, n \in P PROVE n + 1 \in P
    <2>1. PICK f \in [0 .. n -> S] : RecursesBy(f, a, h, n)
      BY <1>2
    <2> DEFINE g == [k \in 0 .. n + 1 |-> IF k = n + 1 THEN h[<<n + 1, f[n]>>] ELSE f[k]]
    <2>2. f[n] \in S /\ <<n + 1, f[n]>> \in Nat \X S
      OBVIOUS
    <2>3. h[<<n + 1, f[n]>>] \in S
      BY <2>2
    <2>4. g \in [0 .. n + 1 -> S]
      BY <2>3
    <2>5. g[0] = a
      BY <2>1 DEF RecursesBy
    <2>6. ASSUME NEW k \in 1 .. n + 1 PROVE g[k] = h[<<k, g[k - 1]>>]
      <3>1. CASE k = n + 1
        <4>1. n \in 0 .. n + 1 /\ n # n + 1 /\ k - 1 = n
          BY <3>1
        <4>2. g[n] = f[n] /\ g[n + 1] = h[<<n + 1, f[n]>>]
          BY <4>1
        <4> HIDE DEF g
        <4>3. QED
          BY <3>1, <4>1, <4>2
      <3>2. CASE k \in 1 .. n
        <4>1. g[k] = f[k] /\ g[k - 1] = f[k - 1]
          BY <3>2
        <4>2. f[k] = h[<<k, f[k - 1]>>]
          BY <2>1, <3>2 DEF RecursesBy
        <4>3. QED
          BY <4>1, <4>2
      <3>3. QED
        BY <3>1, <3>2
    <2>7. RecursesBy(g, a, h, n + 1)
      <3> HIDE DEF g
      <3>1. QED
        BY <2>5, <2>6 DEF RecursesBy
    <2> HIDE DEF g
    <2>8. QED
      BY <2>4, <2>7
  <1>3. N \in P
    <2> HIDE DEF P
    <2>1. QED
      BY <1>1, <1>2, SetInduction
  <1>4. QED
    BY <1>3
-----------------------------------------------------------------------------
(* What is selected from a sequence.                                       *)

\* How Selected(s, T) comes about, from one element to the next.
SelectsBy(s, T, f) ==
  /\ f[0] = <<>>
  /\ \A k \in 1 .. Len(s) : f[k] = IF s[k] \in T THEN Append(f[k - 1], s[k]) ELSE f[k - 1]

\* What is selected is built up so, and is from both sets.
LEMMA SelectedIsDefined ==
  ASSUME NEW U, NEW T, NEW s \in Seq(U)
  PROVE  \E f \in [0 .. Len(s) -> Seq(U \cap T)] : SelectsBy(s, T, f) /\ Selected(s, T) = f[Len(s)]
  <1> DEFINE N == Len(s)
             S == Seq(U \cap T)
             Step(k, v) == IF k \in 1 .. N /\ s[k] \in T THEN Append(v, s[k]) ELSE v
             h == [p \in Nat \X S |-> Step(p[1], p[2])]
             Body(f) == [n \in 0 .. N |->
                          IF n = 0 THEN <<>>
                          ELSE IF s[n] \in T THEN Append(f[n - 1], s[n]) ELSE f[n - 1]]
  <1>1. N \in Nat /\ \A k \in 1 .. N : s[k] \in U
    OBVIOUS
  <1>2. ASSUME NEW k \in Nat, NEW v \in S PROVE Step(k, v) \in S
    BY <1>1, AppendProperties
  <1>3. h \in [Nat \X S -> S]
    <2> HIDE DEF Step, S
    <2>1. QED
      BY <1>2
  <1>4. <<>> \in S
    OBVIOUS
  <1>5. ASSUME NEW k \in Nat, NEW v \in S PROVE h[<<k, v>>] = Step(k, v)
    <2> HIDE DEF Step, S
    <2>1. QED
      OBVIOUS
  <1>6. PICK f \in [0 .. N -> S] : f[0] = <<>> /\ \A k \in 1 .. N : f[k] = h[<<k, f[k - 1]>>]
    <2> DEFINE a == <<>>
    <2>1. a \in S /\ N \in Nat
      BY <1>1, <1>4
    <2> HIDE DEF h, S, N, a, Step, Body
    <2>2. \E f \in [0 .. N -> S] : RecursesBy(f, a, h, N)
      BY ONLY <1>3, <2>1, RecursionExists
    <2>3. QED
      BY <2>2 DEF a, RecursesBy
  <1>7. ASSUME NEW k \in 1 .. N
        PROVE  f[k] = IF s[k] \in T THEN Append(f[k - 1], s[k]) ELSE f[k - 1]
    <2>1. k \in Nat /\ k - 1 \in 0 .. N
      BY <1>1
    <2>2. f[k - 1] \in S
      BY <2>1
    <2>3. f[k] = Step(k, f[k - 1])
      <3> HIDE DEF h, S, Step, N
      <3>1. QED
        BY <1>5, <1>6, <2>1, <2>2
    <2>4. QED
      BY <2>3
  <1>8. f = Body(f)
    <2>1. DOMAIN f = 0 .. N
      OBVIOUS
    <2>2. ASSUME NEW n \in 0 .. N PROVE f[n] = Body(f)[n]
      <3>1. CASE n = 0
        BY <1>6, <3>1
      <3>2. CASE n # 0
        <4>1. n \in 1 .. N
          BY <1>1, <3>2
        <4>2. f[n] = IF s[n] \in T THEN Append(f[n - 1], s[n]) ELSE f[n - 1]
          BY <1>7, <4>1
        <4>3. QED
          BY <3>2, <4>2
      <3>3. QED
        BY <3>1, <3>2
    <2>3. f = [n \in 0 .. N |-> f[n]]
      BY <2>1
    <2> HIDE DEF S, N
    <2>4. QED
      BY <2>2, <2>3
  <1> DEFINE g == CHOOSE g : g = Body(g)
  <1>9. g = Body(g)
    <2> HIDE DEF Body
    <2>1. QED
      BY <1>8
  <1>10. Selected(s, T) = g[N]
    BY DEF Selected
  <1>11. DOMAIN g = 0 .. N
    <2> HIDE DEF g
    <2>1. QED
      BY <1>9
  <1>12. g[0] = <<>>
    <2> HIDE DEF g
    <2>1. Body(g)[0] = <<>>
      BY <1>1
    <2> HIDE DEF Body
    <2>2. QED
      BY <1>9, <2>1
  <1>13. ASSUME NEW k \in 1 .. N
         PROVE  g[k] = IF s[k] \in T THEN Append(g[k - 1], s[k]) ELSE g[k - 1]
    <2> HIDE DEF g
    <2>1. Body(g)[k] = IF s[k] \in T THEN Append(g[k - 1], s[k]) ELSE g[k - 1]
      BY <1>1
    <2> HIDE DEF Body
    <2>2. QED
      BY <1>9, <2>1
  <1>14. \A n \in 0 .. N : g[n] = f[n]
    <2> HIDE DEF g, N, S
    <2> DEFINE P == {n \in 0 .. N : g[n] = f[n]}
    <2>1. 0 \in P
      BY <1>1, <1>6, <1>12
    <2>2. ASSUME NEW n \in 1 .. N, n - 1 \in P PROVE n \in P
      BY <1>7, <1>13, <2>2
    <2>3. 0 .. N \subseteq P
      <3> HIDE DEF P
      <3>1. QED
        BY <1>1, <2>1, <2>2, BoundedInduction
    <2>4. QED
      BY <2>3
  <1>15. Selected(s, T) = f[N]
    <2> HIDE DEF g
    <2>1. QED
      BY <1>1, <1>10, <1>14
  <1>16. SelectsBy(s, T, f)
    <2> HIDE DEF S
    <2>1. QED
      BY <1>6, <1>7 DEF SelectsBy
  <1>17. QED
    BY <1>15, <1>16

\* t begins with s.
Begins(s, t) == Len(s) <= Len(t) /\ \A k \in 1 .. Len(s) : s[k] = t[k]

\* From a sequence and one that begins with it, the same is selected up to the
\* end of the shorter.
LEMMA SelectsAlike ==
  ASSUME NEW U, NEW T, NEW s \in Seq(U), NEW t \in Seq(U), Begins(s, t),
         NEW f, NEW g, SelectsBy(s, T, f), SelectsBy(t, T, g)
  PROVE  f[Len(s)] = g[Len(s)]
  <1> DEFINE N == Len(s)
             P == {k \in 0 .. N : f[k] = g[k]}
  <1>1. N \in Nat /\ Len(t) \in Nat
    OBVIOUS
  <1>2. 0 \in P
    BY <1>1 DEF SelectsBy
  <1>3. ASSUME NEW k \in 1 .. N, k - 1 \in P PROVE k \in P
    <2>1. k \in 1 .. Len(s) /\ k \in 1 .. Len(t) /\ s[k] = t[k] /\ f[k - 1] = g[k - 1]
      BY <1>1, <1>3 DEF Begins
    <2>2. f[k] = IF s[k] \in T THEN Append(f[k - 1], s[k]) ELSE f[k - 1]
      BY <2>1 DEF SelectsBy
    <2>3. g[k] = IF t[k] \in T THEN Append(g[k - 1], t[k]) ELSE g[k - 1]
      BY <2>1 DEF SelectsBy
    <2>4. f[k] = g[k]
      BY <2>1, <2>2, <2>3
    <2>5. QED
      BY <2>4
  <1>4. 0 .. N \subseteq P
    <2> HIDE DEF P, N
    <2>1. QED
      BY <1>1, <1>2, <1>3, BoundedInduction
  <1>5. N \in P
    <2>1. N \in 0 .. N
      BY <1>1
    <2> HIDE DEF P
    <2>2. QED
      BY <1>4, <2>1
  <1>6. QED
    BY <1>5

LEMMA SelectedType ==
  ASSUME NEW U, NEW T, NEW s \in Seq(U)
  PROVE  Selected(s, T) \in Seq(U \cap T)
  <1>1. PICK f \in [0 .. Len(s) -> Seq(U \cap T)] : Selected(s, T) = f[Len(s)]
    BY SelectedIsDefined
  <1>2. Len(s) \in 0 .. Len(s)
    OBVIOUS
  <1>3. QED
    BY <1>1, <1>2

\* Where there is nothing to select, nothing is selected.
LEMMA SelectedNone ==
  ASSUME NEW U, NEW T, NEW s \in Seq(U), \A k \in 1 .. Len(s) : s[k] \notin T
  PROVE  Selected(s, T) = <<>>
  <1>1. PICK f \in [0 .. Len(s) -> Seq(U \cap T)] : SelectsBy(s, T, f) /\ Selected(s, T) = f[Len(s)]
    BY SelectedIsDefined
  <1> DEFINE P == {k \in 0 .. Len(s) : f[k] = <<>>}
  <1>2. 0 \in P
    BY <1>1 DEF SelectsBy
  <1>3. ASSUME NEW k \in 1 .. Len(s), k - 1 \in P PROVE k \in P
    BY <1>1, <1>3 DEF SelectsBy
  <1>4. Len(s) \in Nat
    OBVIOUS
  <1>5. 0 .. Len(s) \subseteq P
    <2> HIDE DEF P
    <2>1. QED
      BY <1>2, <1>3, <1>4, BoundedInduction
  <1>6. QED
    BY <1>1, <1>4, <1>5

\* One element more.
LEMMA SelectedAppend ==
  ASSUME NEW U, NEW T, NEW s \in Seq(U), NEW e \in U
  PROVE  Selected(Append(s, e), T) = IF e \in T THEN Append(Selected(s, T), e) ELSE Selected(s, T)
  <1> DEFINE t == Append(s, e)
             N == Len(s)
  <1>1. /\ t \in Seq(U) /\ Len(t) = N + 1 /\ N \in Nat /\ t[N + 1] = e
        /\ \A k \in 1 .. N : s[k] = t[k]
    BY AppendProperties
  <1>2. PICK f \in [0 .. Len(s) -> Seq(U \cap T)] : SelectsBy(s, T, f) /\ Selected(s, T) = f[Len(s)]
    BY SelectedIsDefined
  <1> HIDE DEF t
  <1>3. PICK g \in [0 .. Len(t) -> Seq(U \cap T)] : SelectsBy(t, T, g) /\ Selected(t, T) = g[Len(t)]
    BY <1>1, SelectedIsDefined
  <1>4. g[N] = f[N]
    <2>1. Begins(s, t) /\ t \in Seq(U)
      BY <1>1 DEF Begins
    <2>2. f[Len(s)] = g[Len(s)]
      BY <1>2, <1>3, <2>1, SelectsAlike
    <2>3. QED
      BY <2>2
  <1>5. N + 1 \in 1 .. Len(t) /\ (N + 1) - 1 = N
    BY <1>1
  <1>6. g[N + 1] = IF t[N + 1] \in T THEN Append(g[(N + 1) - 1], t[N + 1]) ELSE g[(N + 1) - 1]
    BY <1>3, <1>5 DEF SelectsBy
  <1>7. Selected(t, T) = IF e \in T THEN Append(f[N], e) ELSE f[N]
    BY <1>1, <1>3, <1>4, <1>5, <1>6
  <1>8. QED
    BY <1>2, <1>7 DEF t

\* What is selected from two sequences, one after the other.
LEMMA SelectedConcat ==
  ASSUME NEW U, NEW T, NEW s \in Seq(U), NEW t \in Seq(U)
  PROVE  Len(Selected(s \o t, T)) = Len(Selected(s, T)) + Len(Selected(t, T))
  <1>0. ASSUME NEW v \in Seq(U \cap T), NEW e \in U \cap T PROVE Len(Append(v, e)) = Len(v) + 1
    OBVIOUS
  <1> DEFINE r == s \o t
             M == Len(s)
             N == Len(t)
  <1>1. /\ r \in Seq(U) /\ Len(r) = M + N /\ M \in Nat /\ N \in Nat
        /\ \A k \in 1 .. M : s[k] = r[k]
        /\ \A k \in 1 .. N : r[M + k] = t[k]
    <2>1. r \in Seq(U) /\ Len(r) = M + N /\ M \in Nat /\ N \in Nat
      OBVIOUS
    <2>2. ASSUME NEW k \in 1 .. M PROVE s[k] = r[k]
      OBVIOUS
    <2>3. ASSUME NEW k \in 1 .. N PROVE r[M + k] = t[k]
      OBVIOUS
    <2>4. QED
      BY <2>1, <2>2, <2>3
  <1>2. PICK f \in [0 .. Len(s) -> Seq(U \cap T)] : SelectsBy(s, T, f) /\ Selected(s, T) = f[Len(s)]
    BY SelectedIsDefined
  <1>3. PICK g \in [0 .. Len(t) -> Seq(U \cap T)] : SelectsBy(t, T, g) /\ Selected(t, T) = g[Len(t)]
    BY SelectedIsDefined
  <1> HIDE DEF r
  <1>4. PICK h \in [0 .. Len(r) -> Seq(U \cap T)] : SelectsBy(r, T, h) /\ Selected(r, T) = h[Len(r)]
    BY <1>1, SelectedIsDefined
  <1>5. h[M] = f[M]
    <2>1. Begins(s, r) /\ r \in Seq(U)
      BY <1>1 DEF Begins
    <2>2. f[Len(s)] = h[Len(s)]
      BY <1>2, <1>4, <2>1, SelectsAlike
    <2>3. QED
      BY <2>2
  <1> DEFINE P == {k \in 0 .. N : Len(h[M + k]) = Len(f[M]) + Len(g[k])}
  <1>6. 0 \in P
    <2>1. Len(f[M]) \in Nat /\ M + 0 = M /\ g[0] = <<>>
      BY <1>1, <1>3 DEF SelectsBy
    <2>2. QED
      BY <1>1, <1>5, <2>1
  <1>7. ASSUME NEW k \in 1 .. N, k - 1 \in P PROVE k \in P
    <2>1. /\ M + k \in 1 .. Len(r) /\ (M + k) - 1 = M + (k - 1) /\ M + (k - 1) \in 0 .. Len(r)
          /\ k - 1 \in 0 .. N /\ M \in 0 .. M
      BY <1>1
    <2>2. h[M + k] = IF r[M + k] \in T THEN Append(h[M + (k - 1)], r[M + k]) ELSE h[M + (k - 1)]
      BY <1>4, <2>1 DEF SelectsBy
    <2>3. g[k] = IF t[k] \in T THEN Append(g[k - 1], t[k]) ELSE g[k - 1]
      BY <1>3 DEF SelectsBy
    <2>4. r[M + k] = t[k]
      BY <1>1
    <2> DEFINE x == h[M + (k - 1)]
               y == g[k - 1]
               z == f[M]
               e == t[k]
    <2>5. /\ x \in Seq(U \cap T) /\ y \in Seq(U \cap T) /\ z \in Seq(U \cap T)
          /\ Len(x) = Len(z) + Len(y)
      BY <1>7, <2>1
    <2>6. /\ h[M + k] = IF t[k] \in T THEN Append(x, t[k]) ELSE x
          /\ g[k] = IF t[k] \in T THEN Append(y, t[k]) ELSE y
      BY <2>2, <2>3, <2>4
    <2>7. Len(h[M + k]) = Len(z) + Len(g[k])
      <3> HIDE DEF x, y, z
      <3>1. CASE t[k] \in T
        <4>1. e \in U \cap T
          BY <3>1
        <4>2. x \in Seq(U \cap T) /\ y \in Seq(U \cap T)
          BY <2>5
        <4>3. Len(Append(x, e)) = Len(x) + 1 /\ Len(Append(y, e)) = Len(y) + 1
          <5> HIDE DEF e
          <5>1. QED
            BY ONLY <1>0, <4>1, <4>2
        <4>4. Len(z) \in Nat /\ Len(y) \in Nat
          BY <2>5
        <4>5. Len(z) + (Len(y) + 1) = (Len(z) + Len(y)) + 1
          BY <4>4
        <4>6. QED
          BY <2>5, <2>6, <3>1, <4>3, <4>5
      <3>2. CASE t[k] \notin T
        BY <2>5, <2>6, <3>2
      <3>3. QED
        BY <3>1, <3>2
    <2>8. QED
      BY <2>1, <2>7
  <1>8. 0 .. N \subseteq P
    <2> HIDE DEF P
    <2>1. QED
      BY <1>1, <1>6, <1>7, BoundedInduction
  <1>9. Len(h[M + N]) = Len(f[M]) + Len(g[N])
    <2>1. N \in 0 .. N
      BY <1>1
    <2>2. N \in P
      BY <1>8, <2>1
    <2>3. QED
      BY <2>2
  <1>10. QED
    BY <1>1, <1>2, <1>3, <1>4, <1>9 DEF r
-----------------------------------------------------------------------------
(* Sequences one after the other.                                          *)

\* How FlattenSeq(ss) comes about, from one sequence to the next.
ConcatsBy(ss, f) ==
  /\ f[0] = <<>>
  /\ \A k \in 1 .. Len(ss) : f[k] = f[k - 1] \o ss[k]

\* What is flattened is built up so.
LEMMA FlattenIsDefined ==
  ASSUME NEW U, NEW ss \in Seq(Seq(U))
  PROVE  \E f \in [0 .. Len(ss) -> Seq(U)] : ConcatsBy(ss, f) /\ FlattenSeq(ss) = f[Len(ss)]
  <1> DEFINE N == Len(ss)
             S == Seq(U)
             Step(k, v) == IF k \in 1 .. N THEN v \o ss[k] ELSE v
             h == [p \in Nat \X S |-> Step(p[1], p[2])]
             Body(f) == [i \in 1 .. N |-> IF i = 1 THEN ss[i] ELSE f[i - 1] \o ss[i]]
             a == <<>>
  <1>1. N \in Nat /\ a \in S /\ \A k \in 1 .. N : ss[k] \in S
    OBVIOUS
  <1>2. ASSUME NEW k \in Nat, NEW v \in S PROVE Step(k, v) \in S
    BY <1>1, ConcatProperties
  <1>3. h \in [Nat \X S -> S]
    <2> HIDE DEF Step, S
    <2>1. QED
      BY <1>2
  <1>4. ASSUME NEW k \in Nat, NEW v \in S PROVE h[<<k, v>>] = Step(k, v)
    <2> HIDE DEF Step, S
    <2>1. QED
      OBVIOUS
  <1>5. PICK f \in [0 .. N -> S] : RecursesBy(f, a, h, N)
    <2> HIDE DEF h, S, N, a, Step, Body
    <2>1. QED
      BY ONLY <1>1, <1>3, RecursionExists
  <1>6. f[0] = <<>>
    BY <1>5 DEF RecursesBy
  <1>7. ASSUME NEW k \in 1 .. N PROVE f[k] = f[k - 1] \o ss[k]
    <2>1. k \in Nat /\ k - 1 \in 0 .. N
      BY <1>1
    <2>2. f[k - 1] \in S
      BY <2>1
    <2>3. f[k] = h[<<k, f[k - 1]>>]
      BY <1>5 DEF RecursesBy
    <2>4. f[k] = Step(k, f[k - 1])
      <3> HIDE DEF h, S, Step, N
      <3>1. QED
        BY <1>4, <2>1, <2>2, <2>3
    <2>5. QED
      BY <2>4
  <1>8. ConcatsBy(ss, f)
    BY <1>6, <1>7 DEF ConcatsBy
  <1>9. CASE N = 0
    <2>1. FlattenSeq(ss) = ss /\ ss = <<>>
      BY <1>9 DEF FlattenSeq
    <2>2. QED
      BY <1>6, <1>8, <1>9, <2>1
  <1>10. CASE N # 0
    <2> DEFINE F == [i \in 1 .. N |-> f[i]]
    <2>1. F = Body(F)
      <3>1. ASSUME NEW i \in 1 .. N
            PROVE  f[i] = IF i = 1 THEN ss[i] ELSE F[i - 1] \o ss[i]
        <4>1. CASE i = 1
          <5>1. f[1] = f[0] \o ss[1]
            <6>1. 1 - 1 = 0 /\ 1 \in 1 .. N
              BY <1>1, <1>10
            <6>2. QED
              BY <1>7, <6>1
          <5>2. <<>> \o ss[1] = ss[1]
            <6>1. ss[1] \in Seq(U)
              BY <1>1, <4>1
            <6>2. QED
              BY <6>1, ConcatEmptySeq
          <5>3. QED
            BY <1>6, <4>1, <5>1, <5>2
        <4>2. CASE i # 1
          <5>1. i - 1 \in 1 .. N
            BY <1>1, <4>2
          <5>2. F[i - 1] = f[i - 1]
            BY <5>1
          <5>3. QED
            BY <1>7, <4>2, <5>2
        <4>3. QED
          BY <4>1, <4>2
      <3>2. F = [i \in 1 .. N |-> IF i = 1 THEN ss[i] ELSE F[i - 1] \o ss[i]]
        BY <3>1
      <3>3. QED
        BY <3>2
    <2> DEFINE g == CHOOSE g : g = Body(g)
    <2>2. g = Body(g)
      <3> HIDE DEF Body, F
      <3>1. QED
        BY <2>1
    <2>3. FlattenSeq(ss) = g[N]
      BY <1>10 DEF FlattenSeq
    <2>4. ASSUME NEW i \in 1 .. N PROVE g[i] = IF i = 1 THEN ss[i] ELSE g[i - 1] \o ss[i]
      <3> HIDE DEF g
      <3>1. Body(g)[i] = IF i = 1 THEN ss[i] ELSE g[i - 1] \o ss[i]
        OBVIOUS
      <3> HIDE DEF Body
      <3>2. QED
        BY <2>2, <3>1
    <2> HIDE DEF g
    <2>5. F[1] = ss[1] /\ \A i \in 1 .. N : i # 1 => F[i] = F[i - 1] \o ss[i]
      <3>1. ASSUME NEW i \in 1 .. N PROVE F[i] = IF i = 1 THEN ss[i] ELSE F[i - 1] \o ss[i]
        <4>1. Body(F)[i] = IF i = 1 THEN ss[i] ELSE F[i - 1] \o ss[i]
          <5> HIDE DEF F
          <5>1. QED
            OBVIOUS
        <4> HIDE DEF F, Body
        <4>2. QED
          BY <2>1, <4>1
      <3>2. 1 \in 1 .. N
        BY <1>1, <1>10
      <3> HIDE DEF F
      <3>3. QED
        BY <3>1, <3>2
    <2> DEFINE P == {k \in 0 .. N : k # 0 => g[k] = F[k]}
    <2>6. 0 \in P
      BY <1>1
    <2>7. ASSUME NEW k \in 1 .. N, k - 1 \in P PROVE k \in P
      <3>1. CASE k = 1
        BY <2>4, <2>5, <3>1
      <3>2. CASE k # 1
        <4>1. g[k - 1] = F[k - 1]
          BY <2>7, <3>2
        <4> HIDE DEF F
        <4>2. g[k] = F[k]
          BY <2>4, <2>5, <3>2, <4>1
        <4>3. QED
          BY <4>2
      <3>3. QED
        BY <3>1, <3>2
    <2>8. 0 .. N \subseteq P
      <3> HIDE DEF P
      <3>1. QED
        BY <1>1, <2>6, <2>7, BoundedInduction
    <2>9. g[N] = F[N] /\ F[N] = f[N]
      <3>1. N \in 0 .. N /\ N \in 1 .. N
        BY <1>1, <1>10
      <3>2. N \in P
        BY <2>8, <3>1
      <3> HIDE DEF F
      <3>3. g[N] = F[N]
        BY <1>10, <3>2
      <3> USE DEF F
      <3>4. F[N] = f[N]
        BY <3>1
      <3>5. QED
        BY <3>3, <3>4
    <2>10. QED
      BY <1>8, <2>3, <2>9
  <1>11. QED
    BY <1>9, <1>10

\* Sequences that begin alike are flattened alike up to there.
LEMMA ConcatsAlike ==
  ASSUME NEW U, NEW ss \in Seq(Seq(U)), NEW tt \in Seq(Seq(U)), Begins(ss, tt),
         NEW f, NEW g, ConcatsBy(ss, f), ConcatsBy(tt, g)
  PROVE  f[Len(ss)] = g[Len(ss)]
  <1> DEFINE N == Len(ss)
             P == {k \in 0 .. N : f[k] = g[k]}
  <1>1. N \in Nat /\ Len(tt) \in Nat
    OBVIOUS
  <1>2. 0 \in P
    BY <1>1 DEF ConcatsBy
  <1>3. ASSUME NEW k \in 1 .. N, k - 1 \in P PROVE k \in P
    <2>1. k \in 1 .. Len(ss) /\ k \in 1 .. Len(tt) /\ ss[k] = tt[k] /\ f[k - 1] = g[k - 1]
      BY <1>1, <1>3 DEF Begins
    <2>2. f[k] = f[k - 1] \o ss[k] /\ g[k] = g[k - 1] \o tt[k]
      BY <2>1 DEF ConcatsBy
    <2>3. f[k] = g[k]
      BY <2>1, <2>2
    <2>4. QED
      BY <2>3
  <1>4. 0 .. N \subseteq P
    <2> HIDE DEF P, N
    <2>1. QED
      BY <1>1, <1>2, <1>3, BoundedInduction
  <1>5. N \in P
    <2>1. N \in 0 .. N
      BY <1>1
    <2> HIDE DEF P
    <2>2. QED
      BY <1>4, <2>1
  <1>6. QED
    BY <1>5

LEMMA FlattenType ==
  ASSUME NEW U, NEW ss \in Seq(Seq(U))
  PROVE  FlattenSeq(ss) \in Seq(U)
  <1>1. PICK f \in [0 .. Len(ss) -> Seq(U)] : FlattenSeq(ss) = f[Len(ss)]
    BY FlattenIsDefined
  <1>2. Len(ss) \in 0 .. Len(ss)
    OBVIOUS
  <1>3. QED
    BY <1>1, <1>2

\* One sequence more.
LEMMA FlattenAppend ==
  ASSUME NEW U, NEW ss \in Seq(Seq(U)), NEW x \in Seq(U)
  PROVE  FlattenSeq(Append(ss, x)) = FlattenSeq(ss) \o x
  <1> DEFINE tt == Append(ss, x)
             N == Len(ss)
  <1>1. /\ tt \in Seq(Seq(U)) /\ Len(tt) = N + 1 /\ N \in Nat /\ tt[N + 1] = x
        /\ \A k \in 1 .. N : ss[k] = tt[k]
    BY AppendProperties
  <1>2. PICK f \in [0 .. Len(ss) -> Seq(U)] : ConcatsBy(ss, f) /\ FlattenSeq(ss) = f[Len(ss)]
    BY FlattenIsDefined
  <1> HIDE DEF tt
  <1>3. PICK g \in [0 .. Len(tt) -> Seq(U)] : ConcatsBy(tt, g) /\ FlattenSeq(tt) = g[Len(tt)]
    BY <1>1, FlattenIsDefined
  <1>4. g[N] = f[N]
    <2>1. Begins(ss, tt) /\ tt \in Seq(Seq(U))
      BY <1>1 DEF Begins
    <2>2. f[Len(ss)] = g[Len(ss)]
      BY <1>2, <1>3, <2>1, ConcatsAlike
    <2>3. QED
      BY <2>2
  <1>5. N + 1 \in 1 .. Len(tt) /\ (N + 1) - 1 = N
    BY <1>1
  <1>6. g[N + 1] = g[(N + 1) - 1] \o tt[N + 1]
    BY <1>3, <1>5 DEF ConcatsBy
  <1>7. FlattenSeq(tt) = f[N] \o x
    BY <1>1, <1>3, <1>4, <1>5, <1>6
  <1>8. QED
    BY <1>2, <1>7 DEF tt

\* How often one more element is selected
One(e, T) == IF e \in T THEN 1 ELSE 0

\* SelectedAppend, counted.
LEMMA SelectsOneMore ==
  ASSUME NEW U, NEW T, NEW x \in Seq(U), NEW e \in U
  PROVE  Len(Selected(Append(x, e), T)) = Len(Selected(x, T)) + One(e, T)
  <1>1. Selected(Append(x, e), T) = IF e \in T THEN Append(Selected(x, T), e) ELSE Selected(x, T)
    BY SelectedAppend
  <1>2. Selected(x, T) \in Seq(U \cap T)
    BY SelectedType
  <1>3. CASE e \in T
    <2>1. e \in U \cap T
      BY <1>3
    <2>2. Len(Append(Selected(x, T), e)) = Len(Selected(x, T)) + 1
      BY <1>2, <2>1, AppendProperties
    <2>3. QED
      BY <1>1, <1>3, <2>2 DEF One
  <1>4. CASE e \notin T
    <2>1. Len(Selected(x, T)) \in Nat
      BY <1>2
    <2>2. QED
      BY <1>1, <1>4, <2>1 DEF One
  <1>5. QED
    BY <1>3, <1>4

\* One of the sequences is longer by an element.
Grown(ss, c, e) == [ss EXCEPT ![c] = Append(ss[c], e)]

LEMMA FlattenGrows ==
  ASSUME NEW U, NEW ss \in Seq(Seq(U)), NEW c \in 1 .. Len(ss), NEW e \in U,
         NEW T
  PROVE  /\ Len(FlattenSeq(Grown(ss, c, e))) = Len(FlattenSeq(ss)) + 1
         /\ Len(Selected(FlattenSeq(Grown(ss, c, e)), T))
              = Len(Selected(FlattenSeq(ss), T)) + One(e, T)
  <1> DEFINE N == Len(ss)
             tt == [ss EXCEPT ![c] = Append(ss[c], e)]
  <1>1. /\ N \in Nat /\ Len(tt) = N /\ tt \in Seq(Seq(U)) /\ tt[c] = Append(ss[c], e)
        /\ \A k \in 1 .. N : k # c => tt[k] = ss[k]
        /\ \A k \in 1 .. N : ss[k] \in Seq(U) /\ tt[k] \in Seq(U)
    <2>1. N \in Nat /\ \A k \in 1 .. N : ss[k] \in Seq(U)
      OBVIOUS
    <2>2. Append(ss[c], e) \in Seq(U)
      <3>1. ss[c] \in Seq(U)
        BY <2>1
      <3>2. QED
        BY <3>1, AppendProperties
    <2>3. Len(tt) = N /\ tt \in Seq(Seq(U)) /\ tt[c] = Append(ss[c], e)
      BY <2>2
    <2>4. \A k \in 1 .. N : k # c => tt[k] = ss[k]
      OBVIOUS
    <2> HIDE DEF tt
    <2>5. \A k \in 1 .. N : tt[k] \in Seq(U)
      BY <2>3
    <2>6. QED
      BY <2>1, <2>3, <2>4, <2>5
  <1> HIDE DEF tt
  <1>2. PICK f \in [0 .. Len(ss) -> Seq(U)] : ConcatsBy(ss, f) /\ FlattenSeq(ss) = f[Len(ss)]
    BY FlattenIsDefined
  <1>3. PICK g \in [0 .. Len(tt) -> Seq(U)] : ConcatsBy(tt, g) /\ FlattenSeq(tt) = g[Len(tt)]
    BY <1>1, FlattenIsDefined
  <1> DEFINE Longer(y, x) == /\ Len(y) = Len(x) + 1
                             /\ Len(Selected(y, T)) = Len(Selected(x, T)) + One(e, T)
             P == {k \in 0 .. N : (k < c => g[k] = f[k]) /\ (k >= c => Longer(g[k], f[k]))}
  <1>4. ASSUME NEW x \in Seq(U) PROVE Longer(Append(x, e), x)
    BY AppendProperties, SelectsOneMore
  <1>5. ASSUME NEW x \in Seq(U), NEW y \in Seq(U), NEW z \in Seq(U), Longer(y, x)
        PROVE  Longer(y \o z, x \o z) /\ Longer(z \o y, z \o x)
    <2>1. /\ Len(Selected(x \o z, T)) = Len(Selected(x, T)) + Len(Selected(z, T))
          /\ Len(Selected(y \o z, T)) = Len(Selected(y, T)) + Len(Selected(z, T))
          /\ Len(Selected(z \o x, T)) = Len(Selected(z, T)) + Len(Selected(x, T))
          /\ Len(Selected(z \o y, T)) = Len(Selected(z, T)) + Len(Selected(y, T))
      <3>1. ASSUME NEW u \in Seq(U), NEW v \in Seq(U)
            PROVE  Len(Selected(u \o v, T)) = Len(Selected(u, T)) + Len(Selected(v, T))
        BY ONLY SelectedConcat, u \in Seq(U), v \in Seq(U)
      <3>2. QED
        BY <3>1
    <2>2. /\ Len(x \o z) = Len(x) + Len(z) /\ Len(y \o z) = Len(y) + Len(z)
          /\ Len(z \o x) = Len(z) + Len(x) /\ Len(z \o y) = Len(z) + Len(y)
      OBVIOUS
    <2>3. /\ Len(x) \in Nat /\ Len(y) \in Nat /\ Len(z) \in Nat /\ One(e, T) \in Nat
      BY DEF One
    <2>4. Len(Selected(x, T)) \in Nat /\ Len(Selected(z, T)) \in Nat
      <3>1. Selected(x, T) \in Seq(U \cap T) /\ Selected(z, T) \in Seq(U \cap T)
        BY SelectedType
      <3>2. QED
        BY <3>1
    <2>5. Len(y) = Len(x) + 1 /\ Len(Selected(y, T)) = Len(Selected(x, T)) + One(e, T)
      BY <1>5
    <2>6. Len(y \o z) = Len(x \o z) + 1 /\ Len(z \o y) = Len(z \o x) + 1
      BY ONLY <2>2, <2>3, <2>5
    <2>7. Len(Selected(y \o z, T)) = Len(Selected(x \o z, T)) + One(e, T)
      BY ONLY <2>1, <2>3, <2>4, <2>5
    <2>8. Len(Selected(z \o y, T)) = Len(Selected(z \o x, T)) + One(e, T)
      BY ONLY <2>1, <2>3, <2>4, <2>5
    <2>9. QED
      BY <2>6, <2>7, <2>8
  <1> HIDE DEF Longer
  <1>6. 0 \in P
    BY <1>1, <1>2, <1>3 DEF ConcatsBy
  <1>7. ASSUME NEW k \in 1 .. N, k - 1 \in P PROVE k \in P
    <2>1. /\ f[k] = f[k - 1] \o ss[k] /\ g[k] = g[k - 1] \o tt[k]
          /\ f[k - 1] \in Seq(U) /\ g[k - 1] \in Seq(U)
          /\ ss[k] \in Seq(U) /\ tt[k] \in Seq(U)
      <3>1. k \in 1 .. Len(ss) /\ k \in 1 .. Len(tt) /\ k - 1 \in 0 .. Len(ss) /\ k - 1 \in 0 .. Len(tt)
        BY <1>1
      <3>2. f[k] = f[k - 1] \o ss[k] /\ g[k] = g[k - 1] \o tt[k]
        BY <1>2, <1>3, <3>1 DEF ConcatsBy
      <3>3. QED
        BY <1>1, <3>1, <3>2
    <2>2. CASE k < c
      <3>1. k - 1 < c /\ k # c
        BY <1>1, <2>2
      <3>2. g[k] = f[k]
        BY <1>1, <1>7, <2>1, <3>1
      <3>3. QED
        BY <1>1, <2>2, <3>2
    <2>3. CASE k = c
      <3>1. g[k - 1] = f[k - 1] /\ tt[k] = Append(ss[k], e)
        BY <1>1, <1>7, <2>3
      <3>2. Longer(Append(ss[k], e), ss[k])
        BY <1>4, <2>1
      <3>3. Longer(g[k], f[k])
        BY <1>5, <2>1, <3>1, <3>2
      <3>4. QED
        BY <1>1, <2>3, <3>3
    <2>4. CASE k > c
      <3>1. k - 1 >= c /\ k # c
        BY <1>1, <2>4
      <3>2. Longer(g[k - 1], f[k - 1]) /\ tt[k] = ss[k]
        BY <1>1, <1>7, <3>1
      <3>3. Longer(g[k], f[k])
        BY <1>5, <2>1, <3>2
      <3>4. QED
        BY <1>1, <2>4, <3>3
    <2>5. QED
      BY <1>1, <2>2, <2>3, <2>4
  <1>8. 0 .. N \subseteq P
    <2> HIDE DEF P, N
    <2>1. QED
      BY <1>1, <1>6, <1>7, BoundedInduction
  <1>9. Longer(g[N], f[N])
    <2>1. N \in 0 .. N /\ N >= c
      BY <1>1
    <2>2. QED
      BY <1>8, <2>1
  <1>10. QED
    BY <1>1, <1>2, <1>3, <1>9 DEF Longer, Grown, tt

\* Sections with names of their own lie one after the other.
LEMMA FlattenedInOrder ==
  ASSUME NEW ss \in Seq(Seq(Sources)), NEW names, IsInjective(names), DOMAIN names = 1 .. Len(ss),
         \A c \in 1 .. Len(ss) : \A i \in 1 .. Len(ss[c]) : ss[c][i].category = names[c],
         NEW i \in 1 .. Len(FlattenSeq(ss)), NEW j \in 1 .. Len(FlattenSeq(ss)),
         NEW k \in 1 .. Len(FlattenSeq(ss)), i < j, j < k,
         FlattenSeq(ss)[i].category = FlattenSeq(ss)[k].category
  PROVE  FlattenSeq(ss)[i].category = FlattenSeq(ss)[j].category
  <1> DEFINE N == Len(ss)
             \* the elements of r are from the first n sections, section by section
             Named(r, n) == \A p \in 1 .. Len(r) : \E c \in 1 .. n : r[p].category = names[c]
             InOrder(r) == \A p, q \in 1 .. Len(r) : \A c, d \in 1 .. N :
               p < q /\ r[p].category = names[c] /\ r[q].category = names[d] => c <= d
  <1>1. N \in Nat /\ \A c \in 1 .. N : ss[c] \in Seq(Sources)
    OBVIOUS
  <1>2. \A c, d \in 1 .. N : names[c] = names[d] => c = d
    BY DEF IsInjective
  <1>3. PICK f \in [0 .. Len(ss) -> Seq(Sources)] : ConcatsBy(ss, f) /\ FlattenSeq(ss) = f[Len(ss)]
    BY FlattenIsDefined
  <1> DEFINE P == {n \in 0 .. N : Named(f[n], n) /\ InOrder(f[n])}
  <1>4. 0 \in P
    BY <1>1, <1>3 DEF ConcatsBy
  <1>5. ASSUME NEW n \in 1 .. N, n - 1 \in P PROVE n \in P
    <2> DEFINE x == f[n - 1]
               y == ss[n]
               r == f[n]
    <2>1. x \in Seq(Sources) /\ y \in Seq(Sources) /\ r = x \o y
      <3>1. n - 1 \in 0 .. Len(ss)
        BY <1>1
      <3>2. QED
        BY <1>1, <1>3, <3>1 DEF ConcatsBy
    <2>2. Named(x, n - 1) /\ InOrder(x)
      BY <1>5
    <2>3. \A p \in 1 .. Len(y) : y[p].category = names[n]
      OBVIOUS
    <2> HIDE DEF x, y, r
    <2>4. ASSUME NEW p \in 1 .. Len(r)
          PROVE  \/ p \in 1 .. Len(x) /\ r[p] = x[p]
                 \/ p > Len(x) /\ r[p].category = names[n]
      <3>1. Len(r) = Len(x) + Len(y) /\ Len(x) \in Nat /\ Len(y) \in Nat
        BY <2>1
      <3>2. CASE p <= Len(x)
        BY <2>1, <3>1, <3>2
      <3>3. CASE p > Len(x)
        <4>1. p \in 1 .. Len(x) + Len(y) /\ p - Len(x) \in 1 .. Len(y)
          BY <3>1, <3>3
        <4>2. r[p] = y[p - Len(x)]
          BY ONLY <2>1, <3>1, <3>3, <4>1
        <4>3. QED
          BY <2>3, <3>3, <4>1, <4>2
      <3>4. QED
        BY <3>1, <3>2, <3>3
    <2>5. Named(r, n)
      <3>1. ASSUME NEW p \in 1 .. Len(r) PROVE \E c \in 1 .. n : r[p].category = names[c]
        <4>1. CASE p \in 1 .. Len(x) /\ r[p] = x[p]
          <5>1. PICK c \in 1 .. n - 1 : x[p].category = names[c]
            BY <2>2, <4>1
          <5>2. c \in 1 .. n
            BY <1>1
          <5>3. QED
            BY <4>1, <5>1, <5>2
        <4>2. CASE r[p].category = names[n]
          <5>1. n \in 1 .. n
            BY <1>1
          <5>2. QED
            BY <4>2, <5>1
        <4>3. QED
          BY <2>4, <4>1, <4>2
      <3>2. QED
        BY <3>1
    <2>6. InOrder(r)
      <3>1. ASSUME NEW p \in 1 .. Len(r), NEW q \in 1 .. Len(r), NEW c \in 1 .. N, NEW d \in 1 .. N,
                   p < q, r[p].category = names[c], r[q].category = names[d]
            PROVE  c <= d
        <4>1. CASE q \in 1 .. Len(x) /\ r[q] = x[q]
          <5>1. Len(x) \in Nat
            BY <2>1
          <5>2. p \in 1 .. Len(x) /\ r[p] = x[p]
            <6>1. Len(r) \in Nat
              BY <2>1
            <6>2. ~ (p > Len(x))
              BY <3>1, <4>1, <5>1, <6>1
            <6>3. QED
              BY <2>4, <6>2
          <5>3. QED
            BY <2>2, <3>1, <4>1, <5>2
        <4>2. CASE r[q].category = names[n]
          <5>1. d = n
            BY <1>2, <3>1, <4>2
          <5>2. c \in 1 .. n
            <6>1. PICK b \in 1 .. n : r[p].category = names[b]
              BY <2>5
            <6>2. b \in 1 .. N
              BY <1>1
            <6>3. b = c
              BY <1>2, <3>1, <6>1, <6>2
            <6>4. QED
              BY <6>1, <6>3
          <5>3. QED
            BY <1>1, <5>1, <5>2
        <4>3. QED
          BY <2>4, <4>1, <4>2
      <3>2. QED
        BY <3>1
    <2>7. QED
      BY <1>1, <2>5, <2>6 DEF r
  <1>6. 0 .. N \subseteq P
    <2> HIDE DEF P, N
    <2>1. QED
      BY <1>1, <1>4, <1>5, BoundedInduction
  <1>7. N \in P
    <2>1. N \in 0 .. N
      BY <1>1
    <2> HIDE DEF P
    <2>2. QED
      BY <1>6, <2>1
  <1> DEFINE r == FlattenSeq(ss)
  <1>8. Named(r, N) /\ InOrder(r)
    BY <1>3, <1>7
  <1> HIDE DEF r, Named, InOrder, P
  <1>9. PICK c \in 1 .. N : r[i].category = names[c]
    BY <1>8 DEF Named, r
  <1>10. PICK d \in 1 .. N : r[j].category = names[d]
    BY <1>8 DEF Named, r
  <1>11. c <= d
    BY <1>8, <1>9, <1>10 DEF InOrder, r
  <1>12. d <= c
    <2>1. r[k].category = names[c]
      BY <1>9 DEF r
    <2>2. QED
      BY <1>8, <1>10, <2>1 DEF InOrder, r
  <1>13. c = d
    BY <1>1, <1>11, <1>12
  <1>14. QED
    BY <1>9, <1>10, <1>13 DEF r
-----------------------------------------------------------------------------
(* The grouping of sources.                                                *)

\* What has been handled is grouped and nothing is lost or doubled.
SourcesInv ==
  /\ input \in Seq(Sources) /\ next \in 1 .. Len(input) + 1
  /\ categories \in Seq(Categories) /\ details \in Seq(Seq(Sources))
  /\ Grouped
  /\ Len(Flatten) = next - 1
  /\ \A s \in Sources : Len(Selected(Flatten, {s})) = Len(Selected(Handled, {s}))

LEMMA SourcesInitInv == Init => SourcesInv
  <1> SUFFICES ASSUME Init PROVE SourcesInv
    OBVIOUS
  <1>1. next = 1 /\ categories = <<>> /\ details = <<>>
    BY DEF Init
  <1>2. input \in Seq(Sources)
    <2>1. PICK m \in 0 .. MaxSources : input \in [1 .. m -> Sources]
      BY DEF Init, BoundedSeq, SeqOf
    <2>2. m \in Nat
      BY MaxSourcesAssumption
    <2>3. QED
      BY <2>1, <2>2, IsASeq
  <1>3. Handled = <<>>
    BY <1>1, <1>2 DEF Handled
  <1>4. FlattenSeq(<<>>) = <<>>
    BY DEF FlattenSeq
  <1>5. Flatten = <<>>
    BY <1>1, <1>4 DEF Flatten
  <1>6. Grouped
    <2>1. Len(categories) = 0 /\ Len(details) = 0 /\ DOMAIN categories = {} /\ DOMAIN Handled = {}
      BY <1>1, <1>3
    <2>2. IsInjective(categories)
      BY <2>1 DEF IsInjective
    <2>3. Range(categories) = {} /\ Range(Handled) = {}
      BY <2>1 DEF Range
    <2>4. QED
      BY <2>1, <2>2, <2>3 DEF Grouped
  <1>7. QED
    BY <1>1, <1>2, <1>3, <1>5, <1>6 DEF SourcesInv

\* What one turn of the loop adds to what has been handled.
LEMMA HandlesNext ==
  ASSUME SourcesInv, Populate
  PROVE  /\ input[next] \in Sources /\ Handled \in Seq(Sources) /\ Len(Handled) = next - 1
         /\ Handled' = Append(Handled, input[next])
         /\ input' = input /\ next' = next + 1 /\ next' \in 1 .. Len(input) + 1
  <1>1. /\ input \in Seq(Sources) /\ next \in 1 .. Len(input) + 1 /\ next <= Len(input)
        /\ input' = input /\ next' = next + 1 /\ Len(input) \in Nat
    BY DEF SourcesInv, Populate
  <1>2. next \in 1 .. Len(input) /\ next \in Nat
    BY <1>1
  <1>3. input[next] \in Sources
    BY <1>1, <1>2
  <1>4. Handled \in Seq(Sources) /\ Len(Handled) = next - 1
    BY <1>1, <1>2 DEF Handled
  <1>5. Handled' = SubSeq(input, 1, next)
    BY <1>1, <1>2 DEF Handled
  <1>6. SubSeq(input, 1, next) = Append(SubSeq(input, 1, next - 1), input[next])
    BY <1>1, <1>2
  <1>7. QED
    BY <1>1, <1>2, <1>3, <1>4, <1>5, <1>6 DEF Handled

\* The section that firstIndex finds is that of the category.
LEMMA FirstIndexFinds ==
  ASSUME IsInjective(categories), categories \in Seq(Categories),
         NEW category, category \in Range(categories)
  PROVE  /\ FirstIndex(category) \in 1 .. Len(categories)
         /\ categories[FirstIndex(category)] = category
  <1>1. Len(categories) \in Nat /\ DOMAIN categories = 1 .. Len(categories)
    OBVIOUS
  <1>2. PICK i \in 1 .. Len(categories) : categories[i] = category
    BY <1>1 DEF Range
  <1>3. ASSUME NEW j \in 1 .. i - 1 PROVE categories[j] # category
    <2>1. j \in 1 .. Len(categories) /\ j # i
      BY <1>1
    <2>2. QED
      BY <1>1, <1>2, <2>1 DEF IsInjective
  <1>4. QED
    BY <1>2, <1>3 DEF FirstIndex

\* How the sections and what was handled come together again after a turn.
LEMMA TurnKeepsGroups ==
  ASSUME SourcesInv, Populate,
         Len(categories') = Len(details'), IsInjective(categories'),
         Range(categories') = Range(categories) \cup {input[next].category},
         \A c \in 1 .. Len(categories') :
           details'[c] = IF input[next].category = categories'[c]
                         THEN Append(Selected(Handled, OfCategory(categories'[c])), input[next])
                         ELSE Selected(Handled, OfCategory(categories'[c])),
         \A c, d \in 1 .. Len(categories') : c < d =>
           \E i \in 1 .. Len(Handled) :
             /\ Handled[i].category = categories'[c]
             /\ \A j \in 1 .. i : Handled[j].category # categories'[d]
  PROVE  Grouped'
  <1> DEFINE e == input[next]
             hs == Handled
             hs2 == Append(Handled, e)
  <1>1. /\ e \in Sources /\ hs \in Seq(Sources) /\ Handled' = hs2
    BY HandlesNext
  <1>2. /\ Len(hs) \in Nat /\ Len(hs2) = Len(hs) + 1 /\ hs2[Len(hs) + 1] = e
        /\ \A i \in 1 .. Len(hs) : hs2[i] = hs[i]
    BY <1>1, AppendProperties
  <1>3. {s.category : s \in Range(hs2)} = {s.category : s \in Range(hs)} \cup {e.category}
    <2>1. Range(hs2) = Range(hs) \cup {e}
      <3>1. DOMAIN hs = 1 .. Len(hs) /\ DOMAIN hs2 = 1 .. Len(hs) + 1
        BY <1>1, <1>2
      <3> HIDE DEF hs, hs2, e
      <3>2. ASSUME NEW i \in 1 .. Len(hs) + 1 PROVE hs2[i] \in Range(hs) \cup {e}
        <4>1. i \in 1 .. Len(hs) \/ i = Len(hs) + 1
          BY <1>2
        <4>2. QED
          BY <1>2, <3>1, <4>1 DEF Range
      <3>3. Range(hs2) \subseteq Range(hs) \cup {e}
        BY <3>1, <3>2 DEF Range
      <3>4. ASSUME NEW i \in 1 .. Len(hs) PROVE hs[i] \in Range(hs2)
        <4>1. i \in 1 .. Len(hs) + 1
          BY <1>2
        <4>2. QED
          BY <1>2, <3>1, <4>1 DEF Range
      <3>5. e \in Range(hs2)
        <4>1. Len(hs) + 1 \in 1 .. Len(hs) + 1
          BY <1>2
        <4>2. QED
          BY <1>2, <3>1, <4>1 DEF Range
      <3>6. Range(hs) \subseteq Range(hs2)
        BY <3>1, <3>4 DEF Range
      <3>7. QED
        BY <3>3, <3>5, <3>6
    <2> HIDE DEF hs, hs2, e
    <2>2. QED
      BY <2>1
  <1>4. Range(categories') = {s.category : s \in Range(hs2)}
    <2>1. Range(categories) = {s.category : s \in Range(hs)}
      BY DEF SourcesInv, Grouped
    <2>2. QED
      BY <1>3, <2>1
  <1>5. ASSUME NEW c \in 1 .. Len(categories')
        PROVE  details'[c] = Selected(hs2, OfCategory(categories'[c]))
    <2> DEFINE T == OfCategory(categories'[c])
    <2>1. Selected(hs2, T) = IF e \in T THEN Append(Selected(hs, T), e) ELSE Selected(hs, T)
      <3> HIDE DEF T, e, hs
      <3>1. QED
        BY <1>1, SelectedAppend DEF hs
    <2>2. e \in T <=> e.category = categories'[c]
      BY <1>1 DEF OfCategory
    <2>3. QED
      BY <2>1, <2>2
  <1>6. ASSUME NEW c \in 1 .. Len(categories'), NEW d \in 1 .. Len(categories'), c < d
        PROVE  \E i \in 1 .. Len(hs2) :
                 /\ hs2[i].category = categories'[c]
                 /\ \A j \in 1 .. i : hs2[j].category # categories'[d]
    <2>1. PICK i \in 1 .. Len(hs) : /\ hs[i].category = categories'[c]
                                    /\ \A j \in 1 .. i : hs[j].category # categories'[d]
      BY <1>6
    <2>2. i \in 1 .. Len(hs2) /\ \A j \in 1 .. i : j \in 1 .. Len(hs)
      BY <1>2
    <2>3. QED
      BY <1>2, <2>1, <2>2
  <1> HIDE DEF hs2
  <1>7. Range(categories') = {s.category : s \in Range(Handled')}
    BY <1>1, <1>4
  <1>8. \A c \in 1 .. Len(categories') :
          details'[c] = Selected(Handled', OfCategory(categories'[c]))
    BY <1>1, <1>5
  <1>9. \A c, d \in 1 .. Len(categories') : c < d =>
          \E i \in 1 .. Len(Handled') :
            /\ Handled'[i].category = categories'[c]
            /\ \A j \in 1 .. i : Handled'[j].category # categories'[d]
    BY <1>1, <1>6
  <1>10. QED
    BY <1>7, <1>8, <1>9 DEF Grouped, OfCategory

\* What was handled and what is flattened grow alike.
LEMMA TurnKeepsCounts ==
  ASSUME SourcesInv, Populate, Grouped',
         categories' \in Seq(Categories), details' \in Seq(Seq(Sources)),
         Len(Flatten') = Len(Flatten) + 1,
         \A s \in Sources :
           Len(Selected(Flatten', {s})) = Len(Selected(Flatten, {s})) + One(input[next], {s})
  PROVE  SourcesInv'
  <1> DEFINE e == input[next]
  <1>1. /\ e \in Sources /\ Handled \in Seq(Sources) /\ Len(Handled) = next - 1
        /\ Handled' = Append(Handled, e) /\ input' = input /\ next' = next + 1
        /\ next' \in 1 .. Len(input) + 1
    BY HandlesNext
  <1>2. input \in Seq(Sources) /\ next \in Nat /\ Len(Flatten) = next - 1
    BY DEF SourcesInv
  <1>3. ASSUME NEW s \in Sources
        PROVE  Len(Selected(Flatten', {s})) = Len(Selected(Handled', {s}))
    <2>1. Len(Selected(Flatten, {s})) = Len(Selected(Handled, {s}))
      BY DEF SourcesInv
    <2>2. Len(Selected(Append(Handled, e), {s})) = Len(Selected(Handled, {s})) + One(e, {s})
      <3> HIDE DEF e
      <3>1. QED
        BY <1>1, SelectsOneMore
    <2>3. QED
      BY <1>1, <2>1, <2>2
  <1>4. Len(Flatten') = next' - 1
    BY <1>1, <1>2
  <1>5. QED
    BY <1>1, <1>2, <1>3, <1>4 DEF SourcesInv

\* A source whose category is there.
LEMMA OldSectionInv ==
  ASSUME SourcesInv, Populate, input[next].category \in Range(categories), OldSection(input[next])
  PROVE  SourcesInv'
  <1> DEFINE e == input[next]
             c0 == FirstIndex(e.category)
             N == Len(categories)
  <1>1. /\ e \in Sources /\ Handled \in Seq(Sources) /\ Len(Handled) = next - 1
        /\ Handled' = Append(Handled, e) /\ input' = input /\ next' = next + 1
        /\ next' \in 1 .. Len(input) + 1
    BY HandlesNext
  <1>2. /\ input \in Seq(Sources) /\ next \in 1 .. Len(input) + 1
        /\ categories \in Seq(Categories) /\ details \in Seq(Seq(Sources)) /\ Grouped
    BY DEF SourcesInv
  <1>3. c0 \in 1 .. N /\ categories[c0] = e.category
    <2>1. IsInjective(categories)
      BY <1>2 DEF Grouped
    <2>2. QED
      BY <1>2, <2>1, FirstIndexFinds
  <1>4. /\ categories' = categories /\ Len(details) = N /\ N \in Nat
        /\ details' = [details EXCEPT ![c0] = Append(details[c0], e)]
    BY <1>2 DEF OldSection, Grouped
  <1> HIDE DEF c0
  <1>5. /\ Len(details') = N /\ details' \in Seq(Seq(Sources))
        /\ details'[c0] = Append(details[c0], e)
        /\ \A c \in 1 .. N : c # c0 => details'[c] = details[c]
    <2>1. details[c0] \in Seq(Sources)
      BY <1>2, <1>3, <1>4
    <2>2. Append(details[c0], e) \in Seq(Sources)
      <3> HIDE DEF e
      <3>1. QED
        BY <1>1, <2>1, AppendProperties
    <2>3. QED
      BY <1>2, <1>3, <1>4, <2>2
  <1>6. Grouped'
    <2>1. /\ IsInjective(categories') /\ Len(categories') = Len(details')
          /\ Range(categories') = Range(categories) \cup {e.category}
      BY <1>2, <1>4, <1>5 DEF Grouped
    <2>2. ASSUME NEW c \in 1 .. Len(categories')
          PROVE  details'[c] = IF e.category = categories'[c]
                               THEN Append(Selected(Handled, OfCategory(categories'[c])), e)
                               ELSE Selected(Handled, OfCategory(categories'[c]))
      <3>1. c \in 1 .. N /\ categories'[c] = categories[c]
        BY <1>4
      <3>2. details[c] = Selected(Handled, OfCategory(categories[c]))
        BY <1>2, <3>1 DEF Grouped
      <3>3. c = c0 <=> e.category = categories[c]
        BY <1>2, <1>3, <3>1 DEF Grouped, IsInjective
      <3>4. QED
        BY <1>5, <3>1, <3>2, <3>3
    <2>3. \A c, d \in 1 .. Len(categories') : c < d =>
            \E i \in 1 .. Len(Handled) :
              /\ Handled[i].category = categories'[c]
              /\ \A j \in 1 .. i : Handled[j].category # categories'[d]
      BY <1>2, <1>4 DEF Grouped
    <2>4. QED
      BY <2>1, <2>2, <2>3, TurnKeepsGroups
  <1>7. ASSUME NEW T
        PROVE  /\ Len(Flatten') = Len(Flatten) + 1
               /\ Len(Selected(Flatten', T)) = Len(Selected(Flatten, T)) + One(e, T)
    <2>1. c0 \in 1 .. Len(details) /\ e \in Sources /\ details \in Seq(Seq(Sources))
      BY <1>1, <1>2, <1>3, <1>4
    <2>2. details' = Grown(details, c0, e)
      BY <1>4 DEF Grown
    <2>3. /\ Len(FlattenSeq(Grown(details, c0, e))) = Len(FlattenSeq(details)) + 1
          /\ Len(Selected(FlattenSeq(Grown(details, c0, e)), T))
               = Len(Selected(FlattenSeq(details), T)) + One(e, T)
      <3> HIDE DEF e
      <3>1. QED
        BY <2>1, FlattenGrows
    <2>4. QED
      BY <2>2, <2>3 DEF Flatten
  <1>8. QED
    BY <1>2, <1>4, <1>5, <1>6, <1>7, TurnKeepsCounts

\* A source whose category is new.
LEMMA NewSectionInv ==
  ASSUME SourcesInv, Populate, input[next].category \notin Range(categories), NewSection(input[next])
  PROVE  SourcesInv'
  <1> DEFINE e == input[next]
             N == Len(categories)
  <1>1. e \in Sources /\ Handled \in Seq(Sources) /\ e.category \in Categories
    BY HandlesNext DEF Sources
  <1>2. /\ categories \in Seq(Categories) /\ details \in Seq(Seq(Sources)) /\ Grouped
        /\ N \in Nat /\ Len(details) = N
    <2>1. categories \in Seq(Categories) /\ details \in Seq(Seq(Sources)) /\ Grouped
      BY DEF SourcesInv
    <2>2. Len(details) = N
      BY <2>1 DEF Grouped
    <2>3. N \in Nat
      BY <2>1
    <2>4. QED
      BY <2>1, <2>2, <2>3
  <1>3. categories' = Append(categories, e.category) /\ details' = Append(details, <<e>>)
    BY DEF NewSection
  <1>4. <<e>> \in Seq(Sources)
    BY <1>1
  <1>5. /\ categories' \in Seq(Categories) /\ Len(categories') = N + 1
        /\ categories'[N + 1] = e.category
        /\ \A c \in 1 .. N : categories'[c] = categories[c]
    <2> DEFINE name == e.category
    <2> HIDE DEF name
    <2>1. name \in Categories /\ categories' = Append(categories, name)
      BY <1>1, <1>3 DEF name
    <2>2. /\ categories' \in Seq(Categories) /\ Len(categories') = N + 1
          /\ categories'[N + 1] = name
          /\ \A c \in 1 .. N : categories'[c] = categories[c]
      BY <1>2, <2>1, AppendProperties
    <2>3. QED
      BY <2>2 DEF name
  <1>6. /\ details' \in Seq(Seq(Sources)) /\ Len(details') = N + 1
        /\ details'[N + 1] = <<e>>
        /\ \A c \in 1 .. N : details'[c] = details[c]
    <2> DEFINE section == <<e>>
    <2> HIDE DEF section
    <2>1. section \in Seq(Sources) /\ details' = Append(details, section)
      BY <1>3, <1>4 DEF section
    <2>2. /\ details' \in Seq(Seq(Sources)) /\ Len(details') = N + 1
          /\ details'[N + 1] = section
          /\ \A c \in 1 .. N : details'[c] = details[c]
      BY <1>2, <2>1, AppendProperties
    <2>3. QED
      BY <2>2 DEF section
  <1>7. ASSUME NEW c \in 1 .. N PROVE categories[c] # e.category
    <2>1. DOMAIN categories = 1 .. N
      BY <1>2
    <2>2. categories[c] \in Range(categories)
      BY <2>1 DEF Range
    <2>3. QED
      BY <2>2
  <1>8. ASSUME NEW c \in 1 .. N + 1 PROVE c \in 1 .. N \/ c = N + 1
    BY <1>2
  <1>9. IsInjective(categories')
    <2>1. DOMAIN categories' = 1 .. N + 1 /\ DOMAIN categories = 1 .. N
      BY <1>2, <1>5
    <2>2. IsInjective(categories)
      BY <1>2 DEF Grouped
    <2>3. ASSUME NEW c \in 1 .. N + 1, NEW d \in 1 .. N + 1, categories'[c] = categories'[d]
          PROVE  c = d
      <3>1. CASE c \in 1 .. N /\ d \in 1 .. N
        BY <1>5, <2>1, <2>2, <2>3, <3>1 DEF IsInjective
      <3>2. CASE c = N + 1 /\ d \in 1 .. N
        BY <1>5, <1>7, <2>3, <3>2
      <3>3. CASE d = N + 1 /\ c \in 1 .. N
        BY <1>5, <1>7, <2>3, <3>3
      <3>4. QED
        BY <1>8, <3>1, <3>2, <3>3
    <2>4. QED
      BY <2>1, <2>3 DEF IsInjective
  <1>10. Range(categories') = Range(categories) \cup {e.category}
    <2>1. DOMAIN categories' = 1 .. N + 1 /\ DOMAIN categories = 1 .. N
      BY <1>2, <1>5
    <2>2. ASSUME NEW c \in 1 .. N + 1 PROVE categories'[c] \in Range(categories) \cup {e.category}
      BY <1>5, <1>8, <2>1 DEF Range
    <2>3. N + 1 \in 1 .. N + 1 /\ \A c \in 1 .. N : c \in 1 .. N + 1
      BY <1>2
    <2>4. Range(categories') \subseteq Range(categories) \cup {e.category}
      BY <2>1, <2>2 DEF Range
    <2>5. e.category \in Range(categories')
      BY <1>5, <2>1, <2>3 DEF Range
    <2>6. Range(categories) \subseteq Range(categories')
      BY <1>5, <2>1, <2>3 DEF Range
    <2>7. QED
      BY <2>4, <2>5, <2>6
  <1>11. ASSUME NEW i \in 1 .. Len(Handled) PROVE Handled[i].category \in Range(categories)
    <2>1. Handled[i] \in Range(Handled)
      BY <1>1 DEF Range
    <2>2. Range(categories) = {s.category : s \in Range(Handled)}
      BY <1>2 DEF Grouped
    <2>3. QED
      BY <2>1, <2>2
  <1>12. Grouped'
    <2>1. ASSUME NEW c \in 1 .. Len(categories')
          PROVE  details'[c] = IF e.category = categories'[c]
                               THEN Append(Selected(Handled, OfCategory(categories'[c])), e)
                               ELSE Selected(Handled, OfCategory(categories'[c]))
      <3>1. CASE c \in 1 .. N
        <4>1. details[c] = Selected(Handled, OfCategory(categories[c]))
          BY <1>2, <3>1 DEF Grouped
        <4>2. QED
          BY <1>5, <1>6, <1>7, <3>1, <4>1
      <3>2. CASE c = N + 1
        <4> DEFINE T == OfCategory(e.category)
        <4>1. \A i \in 1 .. Len(Handled) : Handled[i] \notin T
          BY <1>11 DEF OfCategory
        <4>2. Selected(Handled, T) = <<>>
          <5> HIDE DEF T
          <5>1. QED
            BY <1>1, <4>1, SelectedNone
        <4>3. Append(<<>>, e) = <<e>>
          OBVIOUS
        <4>4. QED
          BY <1>5, <1>6, <3>2, <4>2, <4>3
      <3>3. QED
        BY <1>5, <1>8, <3>1, <3>2
    <2>2. ASSUME NEW c \in 1 .. Len(categories'), NEW d \in 1 .. Len(categories'), c < d
          PROVE  \E i \in 1 .. Len(Handled) :
                   /\ Handled[i].category = categories'[c]
                   /\ \A j \in 1 .. i : Handled[j].category # categories'[d]
      <3>1. c \in 1 .. N
        BY <1>2, <1>5, <2>2
      <3>2. CASE d \in 1 .. N
        <4>1. PICK i \in 1 .. Len(Handled) : /\ Handled[i].category = categories[c]
                                              /\ \A j \in 1 .. i : Handled[j].category # categories[d]
          BY <1>2, <2>2, <3>1, <3>2 DEF Grouped
        <4>2. QED
          BY <1>5, <3>1, <3>2, <4>1
      <3>3. CASE d = N + 1
        <4>1. categories[c] \in {s.category : s \in Range(Handled)}
          <5>1. DOMAIN categories = 1 .. N
            BY <1>2
          <5>2. categories[c] \in Range(categories)
            BY <3>1, <5>1 DEF Range
          <5>3. QED
            BY <1>2, <5>2 DEF Grouped
        <4>2. PICK i \in 1 .. Len(Handled) : Handled[i].category = categories[c]
          <5>1. DOMAIN Handled = 1 .. Len(Handled)
            BY <1>1
          <5>2. QED
            BY <4>1, <5>1 DEF Range
        <4>3. ASSUME NEW j \in 1 .. i PROVE Handled[j].category # e.category
          <5>1. j \in 1 .. Len(Handled)
            BY <1>1, <4>2
          <5>2. QED
            BY <1>11, <5>1
        <4>4. QED
          BY <1>5, <3>1, <3>3, <4>2, <4>3
      <3>4. QED
        BY <1>5, <1>8, <3>2, <3>3
    <2>3. Len(categories') = Len(details')
      BY <1>5, <1>6
    <2>4. QED
      BY <1>9, <1>10, <2>1, <2>2, <2>3, TurnKeepsGroups
  <1>13. Flatten' = Append(Flatten, e) /\ Flatten \in Seq(Sources)
    <2> DEFINE section == <<e>>
    <2>1. FlattenSeq(Append(details, section)) = FlattenSeq(details) \o section
      <3> HIDE DEF section
      <3>1. section \in Seq(Sources)
        BY <1>4 DEF section
      <3>2. QED
        BY <1>2, <3>1, FlattenAppend
    <2>2. FlattenSeq(details) \in Seq(Sources)
      BY <1>2, FlattenType
    <2>3. FlattenSeq(details) \o <<e>> = Append(FlattenSeq(details), e)
      BY <1>1, <2>2, AppendIsConcat
    <2>4. QED
      BY <1>3, <2>1, <2>2, <2>3 DEF Flatten
  <1>14. Len(Flatten') = Len(Flatten) + 1
    BY <1>1, <1>13, AppendProperties
  <1>15. ASSUME NEW T PROVE Len(Selected(Flatten', T)) = Len(Selected(Flatten, T)) + One(e, T)
    <2>1. Len(Selected(Append(Flatten, e), T)) = Len(Selected(Flatten, T)) + One(e, T)
      <3> HIDE DEF e
      <3>1. QED
        BY <1>1, <1>13, SelectsOneMore
    <2>2. QED
      BY <1>13, <2>1
  <1>16. QED
    BY <1>5, <1>6, <1>12, <1>14, <1>15, TurnKeepsCounts

LEMMA SourcesNextInv == SourcesInv /\ [Next]_vars => SourcesInv'
  <1>1. SourcesInv /\ UNCHANGED vars => SourcesInv'
    <2> SUFFICES ASSUME SourcesInv, UNCHANGED vars PROVE SourcesInv'
      OBVIOUS
    <2>1. input' = input /\ next' = next /\ categories' = categories /\ details' = details
      BY DEF vars
    <2>2. Handled' = Handled /\ Flatten' = Flatten
      BY <2>1 DEF Handled, Flatten
    <2>3. Grouped'
      BY <2>1, <2>2 DEF SourcesInv, Grouped
    <2>4. QED
      BY <2>1, <2>2, <2>3 DEF SourcesInv
  <1>2. SourcesInv /\ Populate => SourcesInv'
    <2> SUFFICES ASSUME SourcesInv, Populate PROVE SourcesInv'
      OBVIOUS
    <2>1. \/ input[next].category \in Range(categories) /\ OldSection(input[next])
          \/ input[next].category \notin Range(categories) /\ NewSection(input[next])
      BY DEF Populate
    <2>2. QED
      BY <2>1, OldSectionInv, NewSectionInv
  <1>3. QED
    BY <1>1, <1>2 DEF Next

\* populate groups every list, whatever the order of its categories: one
\* section for each, in the order in which they first come up, with exactly
\* its sources in their order.
THEOREM GroupsAll == Spec => []Grouped
  <1>1. SourcesInv => Grouped
    BY DEF SourcesInv
  <1>2. QED
    BY SourcesInitInv, SourcesNextInv, <1>1, PTL DEF Spec

\* flatten has every source as often as the list, section after section.
THEOREM FlattensAll == Spec => []FlatIsComplete
  <1>1. SourcesInv => FlatIsComplete
    <2> SUFFICES ASSUME SourcesInv PROVE FlatIsComplete
      OBVIOUS
    <2>1. /\ categories \in Seq(Categories) /\ details \in Seq(Seq(Sources)) /\ Grouped
          /\ Len(details) = Len(categories)
      BY DEF SourcesInv, Grouped
    <2>2. DOMAIN categories = 1 .. Len(details) /\ IsInjective(categories)
      BY <2>1 DEF Grouped
    <2>3. ASSUME NEW c \in 1 .. Len(details), NEW i \in 1 .. Len(details[c])
          PROVE  details[c][i].category = categories[c]
      <3> DEFINE T == OfCategory(categories[c])
      <3>1. Handled \in Seq(Sources)
        BY DEF SourcesInv, Handled
      <3>2. details[c] = Selected(Handled, T)
        BY <2>1 DEF Grouped
      <3>3. Selected(Handled, T) \in Seq(Sources \cap T)
        <4> HIDE DEF T
        <4>1. QED
          BY <3>1, SelectedType
      <3>4. details[c][i] \in T
        <4> HIDE DEF T
        <4>1. QED
          BY <3>2, <3>3
      <3>5. QED
        BY <3>4 DEF OfCategory
    <2>4. ASSUME NEW i \in 1 .. Len(Flatten), NEW j \in 1 .. Len(Flatten), NEW k \in 1 .. Len(Flatten),
                 i < j, j < k, Flatten[i].category = Flatten[k].category
          PROVE  Flatten[i].category = Flatten[j].category
      BY <2>1, <2>2, <2>3, <2>4, FlattenedInOrder DEF Flatten
    <2>5. QED
      BY <2>4 DEF SourcesInv, FlatIsComplete
  <1>2. QED
    BY SourcesInitInv, SourcesNextInv, <1>1, PTL DEF Spec

\* What init(coder:) reads is what encode(with:) wrote, section by section.
THEOREM ArchivesAll == Spec => []ArchiveIsFaithful
  <1>1. SourcesInv => ArchiveIsFaithful
    <2> SUFFICES ASSUME SourcesInv PROVE ArchiveIsFaithful
      OBVIOUS
    <2> DEFINE N == Len(details)
               read == [i \in 1 .. N |-> Encode.detail[i - 1]]
    <2>1. N \in Nat /\ details = [i \in 1 .. N |-> details[i]]
      BY DEF SourcesInv
    <2>2. /\ Encode.categories = categories /\ Encode.detailCount = N
          /\ Encode.detail = [index \in 0 .. N - 1 |-> details[index + 1]]
      BY DEF Encode
    <2>3. ASSUME NEW i \in 1 .. N PROVE Encode.detail[i - 1] = details[i]
      <3>1. i - 1 \in 0 .. N - 1 /\ (i - 1) + 1 = i
        BY <2>1
      <3>2. QED
        BY <2>2, <3>1
    <2>4. read = details
      <3>1. read = [i \in 1 .. N |-> details[i]]
        BY <2>3
      <3>2. QED
        BY <2>1, <3>1
    <2>5. Decode(Encode) = [categories |-> categories, details |-> read]
      BY <2>2 DEF Decode
    <2>6. QED
      BY <2>4, <2>5 DEF ArchiveIsFaithful
  <1>2. QED
    BY SourcesInitInv, SourcesNextInv, <1>1, PTL DEF Spec

-----------------------------------------------------------------------------
(* The size of an image.                                                   *)

\* A factor may be taken from both sides, and put on both.
LEMMA TimesMonotone ==
  ASSUME NEW a \in Nat, NEW b \in Nat, NEW c \in Nat, a <= b
  PROVE  a * c <= b * c
  <1>1. PICK d \in Nat : b = a + d
    <2>1. b - a \in Nat /\ b = a + (b - a)
      OBVIOUS
    <2>2. QED
      BY <2>1
  <1>2. b * c = a * c + d * c
    BY <1>1
  <1>3. d * c \in Nat /\ a * c \in Nat
    OBVIOUS
  <1>4. QED
    BY <1>2, <1>3

LEMMA TimesAssociative ==
  ASSUME NEW a \in Nat, NEW b \in Nat, NEW c \in Nat
  PROVE  (a * b) * c = a * (b * c) /\ a * b = b * a /\ a * b \in Nat
  OBVIOUS

\* A size with sides that are fractions.
IsSize(s) == s \in [width : Nat, height : Nat, den : Nat \ {0}]

\* A size with the proportions of the image and no larger than it.
Fits(s) ==
  /\ IsSize(s)
  /\ s.width * image.height = s.height * image.width
  /\ s.width <= image.width * s.den
  /\ s.height <= image.height * s.den

\* After each statement: how far the size already fits.
ResizeInv ==
  /\ IsSize(image) /\ image.den = 1
  /\ step \in {"fits?", "narrow", "shorten", "done"}
  /\ Fits(outputSize)
  /\ step \in {"fits?", "narrow"} => outputSize = image
  /\ step = "shorten" => /\ ~TooWide(outputSize)
                         /\ outputSize = image \/ outputSize.width = MaxWidth * outputSize.den
  /\ BestFit

LEMMA ResizeInitInv == ResizeInit => ResizeInv
  <1> SUFFICES ASSUME ResizeInit PROVE ResizeInv
    OBVIOUS
  <1>1. PICK w, h \in 0 .. MaxSide : image = Size(w, h, 1)
    BY DEF ResizeInit
  <1>2. w \in Nat /\ h \in Nat
    BY MaxSideAssumption
  <1>3. image = [width |-> w, height |-> h, den |-> 1] /\ outputSize = image /\ step = "fits?"
    BY <1>1 DEF ResizeInit, Size
  <1>4. IsSize(image) /\ image.den = 1
    BY <1>2, <1>3 DEF IsSize
  <1>5. image.width = w /\ image.height = h /\ w * h = h * w /\ w <= w * 1 /\ h <= h * 1
    BY <1>2, <1>3
  <1>6. Fits(outputSize)
    BY <1>3, <1>4, <1>5 DEF Fits
  <1>7. QED
    BY <1>3, <1>4, <1>6 DEF ResizeInv, BestFit

\* Scaling by a number that is no more than 1 keeps the proportions and makes
\* no side longer.
LEMMA ScaledFits ==
  ASSUME IsSize(image), NEW s, Fits(s),
         NEW num \in Nat, NEW den \in Nat \ {0}, num <= den
  PROVE  /\ Fits(Scaled(s, num, den))
         /\ ~TooWide(s) => ~TooWide(Scaled(s, num, den))
  <1> DEFINE t == Scaled(s, num, den)
             iw == image.width
             ih == image.height
  <1>1. /\ s.width \in Nat /\ s.height \in Nat /\ s.den \in Nat \ {0}
        /\ iw \in Nat /\ ih \in Nat
    BY DEF Fits, IsSize
  <1>2. t = [width |-> s.width * num, height |-> s.height * num, den |-> s.den * den]
    BY DEF Scaled, Size
  <1>3. /\ t.width = s.width * num /\ t.height = s.height * num /\ t.den = s.den * den
    BY <1>2
  <1>4. /\ s.width * num \in Nat /\ s.height * num \in Nat /\ s.den * den \in Nat \ {0}
    <2>1. s.width * num \in Nat /\ s.height * num \in Nat
      BY <1>1, TimesAssociative
    <2>2. ASSUME NEW a \in Nat \ {0}, NEW b \in Nat \ {0} PROVE a * b \in Nat \ {0}
      <3>1. 1 * b <= a * b
        BY TimesMonotone
      <3>2. a * b \in Nat /\ b <= a * b
        BY <3>1
      <3>3. QED
        BY <3>2
    <2>3. QED
      BY <1>1, <2>1, <2>2
  <1>5. IsSize(t)
    BY <1>2, <1>4 DEF IsSize
  <1>6. t.width * ih = t.height * iw
    <2>1. s.width * ih = s.height * iw
      BY DEF Fits
    <2>2. (s.width * num) * ih = (s.width * ih) * num
      BY ONLY <1>1, num \in Nat
    <2>3. (s.height * num) * iw = (s.height * iw) * num
      BY ONLY <1>1, num \in Nat
    <2>4. QED
      BY <1>3, <2>1, <2>2, <2>3
  <1>7. ASSUME NEW a \in Nat, NEW b \in Nat, NEW c \in Nat, a <= b * c
        PROVE  a * num <= b * (c * den)
    <2>1. b * c \in Nat /\ (b * c) * den = b * (c * den)
      BY TimesAssociative
    <2>2. a * num <= a * den
      <3>1. num * a <= den * a
        BY TimesMonotone
      <3>2. num * a = a * num /\ den * a = a * den
        BY TimesAssociative
      <3>3. QED
        BY <3>1, <3>2
    <2>3. a * den <= (b * c) * den
      BY <1>7, <2>1, TimesMonotone
    <2>4. a * num \in Nat /\ a * den \in Nat /\ (b * c) * den \in Nat
      BY <2>1, TimesAssociative
    <2>5. QED
      BY <2>1, <2>2, <2>3, <2>4
  <1>8. s.width <= iw * s.den /\ s.height <= ih * s.den
    BY DEF Fits
  <1>9. t.width <= iw * t.den /\ t.height <= ih * t.den
    BY <1>1, <1>3, <1>7, <1>8
  <1>10. ~TooWide(s) => ~TooWide(t)
    <2>1. SUFFICES ASSUME ~ (s.width > MaxWidth * s.den) PROVE ~ (t.width > MaxWidth * t.den)
      BY DEF TooWide
    <2>2. MaxWidth \in Nat /\ MaxWidth * s.den \in Nat
      BY <1>1, MaxSizeAssumption, TimesAssociative
    <2>3. s.width <= MaxWidth * s.den
      BY <1>1, <2>1, <2>2
    <2>4. s.width * num <= MaxWidth * (s.den * den)
      BY <1>1, <1>7, <2>2, <2>3
    <2>5. MaxWidth * (s.den * den) \in Nat
      BY <1>4, <2>2, TimesAssociative
    <2>6. QED
      BY <1>3, <1>4, <2>4, <2>5
  <1>11. QED
    BY <1>5, <1>6, <1>9, <1>10 DEF Fits

LEMMA SkipResizeInv == ResizeInv /\ SkipResize => ResizeInv'
  <1> SUFFICES ASSUME ResizeInv, SkipResize PROVE ResizeInv'
    OBVIOUS
  <1>1. step = "fits?" /\ image' = image /\ outputSize' = outputSize /\ outputSize = image
    BY DEF SkipResize, ResizeInv
  <1>2. step' \in {"narrow", "done"}
    BY DEF SkipResize
  <1>3. step' = "done" => ~TooWide(outputSize) /\ ~TooTall(outputSize)
    BY DEF SkipResize
  <1>4. Fits(outputSize)' /\ IsSize(image)' /\ image'.den = 1
    BY <1>1 DEF ResizeInv, Fits
  <1>5. BestFit'
    BY <1>1, <1>3, <1>4 DEF BestFit, Fits, TooWide, TooTall
  <1>6. QED
    BY <1>1, <1>2, <1>4, <1>5 DEF ResizeInv

LEMMA NarrowInv == ResizeInv /\ Narrow => ResizeInv'
  <1> SUFFICES ASSUME ResizeInv, Narrow PROVE ResizeInv'
    OBVIOUS
  <1>1. /\ step = "narrow" /\ step' = "shorten" /\ image' = image
        /\ outputSize = image /\ image.den = 1 /\ IsSize(image) /\ Fits(image)
    BY DEF Narrow, ResizeInv
  <1>2. BestFit'
    BY <1>1 DEF BestFit
  <1>3. CASE ~TooWide(outputSize)
    <2>1. outputSize' = outputSize
      BY <1>3 DEF Narrow
    <2>2. Fits(outputSize)' /\ ~TooWide(outputSize)' /\ IsSize(image)'
      BY <1>1, <1>3, <2>1 DEF Fits, TooWide
    <2>3. QED
      BY <1>1, <1>2, <2>1, <2>2 DEF ResizeInv
  <1>4. CASE TooWide(outputSize)
    <2> DEFINE num == MaxWidth * image.den
               t == Scaled(image, num, image.width)
    <2>1. outputSize' = t
      BY <1>1, <1>4 DEF Narrow
    <2>2. image.width \in Nat /\ image.height \in Nat /\ MaxWidth \in Nat
      BY <1>1, MaxSizeAssumption DEF IsSize
    <2>3. num = MaxWidth /\ num \in Nat /\ image.width > num
      BY <1>1, <1>4, <2>2 DEF TooWide
    <2>4. image.width \in Nat \ {0} /\ num <= image.width
      BY <2>2, <2>3
    <2>5. Fits(t)
      <3> HIDE DEF num
      <3>1. QED
        BY <1>1, <2>3, <2>4, ScaledFits
    <2>6. t.width = image.width * MaxWidth /\ t.den = 1 * image.width
      BY <1>1, <2>3 DEF Scaled, Size
    <2>7. t.den = image.width /\ t.width = MaxWidth * t.den
      BY <2>2, <2>6, TimesAssociative
    <2>8. ~TooWide(t)
      <3>1. MaxWidth * t.den \in Nat
        BY <2>2, <2>7, TimesAssociative
      <3>2. QED
        BY <2>7, <3>1 DEF TooWide
    <2>9. Fits(outputSize)' /\ ~TooWide(outputSize)' /\ IsSize(image)'
      <3> HIDE DEF t
      <3>1. QED
        BY <1>1, <2>1, <2>5, <2>8 DEF Fits, TooWide
    <2>10. outputSize'.width = MaxWidth * outputSize'.den
      BY <2>1, <2>7
    <2>11. QED
      BY <1>1, <1>2, <2>9, <2>10 DEF ResizeInv
  <1>5. QED
    BY <1>3, <1>4

LEMMA ShortenInv == ResizeInv /\ Shorten => ResizeInv'
  <1> SUFFICES ASSUME ResizeInv, Shorten PROVE ResizeInv'
    OBVIOUS
  <1>1. /\ step = "shorten" /\ step' = "done" /\ image' = image
        /\ image.den = 1 /\ IsSize(image) /\ Fits(outputSize) /\ ~TooWide(outputSize)
        /\ outputSize = image \/ outputSize.width = MaxWidth * outputSize.den
    BY DEF Shorten, ResizeInv
  <1>2. CASE ~TooTall(outputSize)
    <2>1. outputSize' = outputSize
      BY <1>2 DEF Shorten
    <2>2. Fits(outputSize)' /\ IsSize(image)'
      BY <1>1, <2>1 DEF Fits
    <2>3. BestFit'
      BY <1>1, <1>2, <2>1 DEF BestFit, Fits, TooWide, TooTall
    <2>4. QED
      BY <1>1, <2>2, <2>3 DEF ResizeInv
  <1>3. CASE TooTall(outputSize)
    <2> DEFINE s == outputSize
               num == MaxHeight * s.den
               t == Scaled(s, num, s.height)
    <2>1. outputSize' = t
      BY <1>3 DEF Shorten
    <2>2. s.width \in Nat /\ s.height \in Nat /\ s.den \in Nat \ {0} /\ MaxHeight \in Nat
      BY <1>1, MaxSizeAssumption DEF Fits, IsSize
    <2>3. num \in Nat /\ s.height > num
      BY <1>3, <2>2, TimesAssociative DEF TooTall
    <2>4. s.height \in Nat \ {0} /\ num <= s.height
      BY <2>2, <2>3
    <2>5. Fits(t) /\ ~TooWide(t)
      <3> HIDE DEF num, s
      <3>1. Fits(s) /\ ~TooWide(s)
        BY <1>1 DEF s
      <3>2. QED
        BY <1>1, <2>3, <2>4, <3>1, ScaledFits
    <2>6. t.height = s.height * num /\ t.den = s.den * s.height
      BY DEF Scaled, Size
    <2>7. t.height = MaxHeight * t.den
      <3>1. s.height * (MaxHeight * s.den) = MaxHeight * (s.den * s.height)
        BY ONLY <2>2
      <3>2. QED
        BY <2>6, <3>1
    <2>8. ~TooTall(t)
      <3>1. MaxHeight * t.den \in Nat
        BY <2>2, <2>5, TimesAssociative DEF Fits, IsSize
      <3>2. QED
        BY <2>7, <3>1 DEF TooTall
    <2>9. Fits(outputSize)' /\ ~TooWide(outputSize)' /\ ~TooTall(outputSize)' /\ IsSize(image)'
      <3> HIDE DEF t
      <3>1. QED
        BY <1>1, <2>1, <2>5, <2>8 DEF Fits, TooWide, TooTall
    <2>10. outputSize'.height = MaxHeight * outputSize'.den
      BY <2>1, <2>7
    <2>11. BestFit'
      BY <2>9, <2>10 DEF BestFit, Fits
    <2>12. QED
      BY <1>1, <2>9, <2>11 DEF ResizeInv
  <1>4. QED
    BY <1>2, <1>3

LEMMA ResizeNextInv == ResizeInv /\ [ResizeNext]_resizeVars => ResizeInv'
  <1>1. ResizeInv /\ UNCHANGED resizeVars => ResizeInv'
    BY DEF ResizeInv, resizeVars, Fits, BestFit, TooWide, TooTall
  <1>2. QED
    BY <1>1, SkipResizeInv, NarrowInv, ShortenInv DEF ResizeNext

\* resizeImage finds the best fit for every image and every screen: scaling
\* for the width and then, from what that left, for the height neither
\* distorts the image nor makes it smaller than it need be.
THEOREM BestFitFound == ResizeSpec => []BestFit
  <1>1. ResizeInv => BestFit
    BY DEF ResizeInv
  <1>2. QED
    BY ResizeInitInv, ResizeNextInv, <1>1, PTL DEF ResizeSpec
=============================================================================
