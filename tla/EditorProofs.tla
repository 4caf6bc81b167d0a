--------------------------- MODULE EditorProofs ---------------------------
(***************************************************************************)
(* Proofs about EditorActions: LinkUnderOwnRoot and SubstitutedOnce, for   *)
(* any issues, stack traces, roots, templates, names and tabs.             *)
(***************************************************************************)
EXTENDS EditorActions, FiniteSetTheorems, SequenceTheorems, TLAPS

----------------------------------------------------------------------------
(* Induction, stated with sets.                                            *)

LEMMA LeastElement ==
  ASSUME NEW T \in SUBSET Nat, T # {}
  PROVE  \E m \in T : \A k \in T : m <= k
<1>1. PICK n \in T : TRUE
  OBVIOUS
<1> DEFINE Below == {0 .. k : k \in {k \in T : k <= n}}
           R == StrictSubsetOrdering(0 .. n)
<1>2. IsWellFoundedOn(R, FiniteSubsetsOf(0 .. n))
  BY FS_StrictSubsetOrderingWellFounded
<1>3. IsFiniteSet(0 .. n)
  BY <1>1, FS_Interval
<1>4. FiniteSubsetsOf(0 .. n) = SUBSET (0 .. n)
  BY <1>3, FS_FiniteSubsetsOfFinite
<1>5. Below \subseteq SUBSET (0 .. n) /\ Below # {}
  BY <1>1
<1>6. \E x \in Below : \A y \in Below : ~ (<<y, x>> \in R)
  <2> DEFINE S == SUBSET (0 .. n)
  <2>1. IsWellFoundedOn(R, S)
    BY <1>2, <1>4
  <2>2. Below \subseteq S /\ Below # {}
    BY <1>5
  <2> HIDE DEF Below, R, S
  <2> QED BY <2>1, <2>2, WFMin, Zenon
<1>7. PICK m \in T : m <= n /\ \A y \in Below : ~ (<<y, 0 .. m>> \in R)
  BY <1>6
<1>8. ASSUME NEW k \in T, k < m
      PROVE  FALSE
  <2>1. 0 .. k \in Below
    BY <1>7, <1>8
  <2>2. 0 .. k \subseteq 0 .. m /\ 0 .. k # 0 .. m
    <3>1. m \in 0 .. m /\ m \notin 0 .. k
      BY <1>8
    <3> QED BY <1>8, <3>1
  <2>3. 0 .. k \in SUBSET (0 .. n) /\ 0 .. m \in SUBSET (0 .. n)
    BY <1>1, <1>7, <1>8
  <2> QED BY <1>7, <2>1, <2>2, <2>3 DEF StrictSubsetOrdering
<1> QED BY <1>8

LEMMA Induction ==
  ASSUME NEW n \in Nat, NEW T, 0 \in T, \A i \in 1 .. n : i - 1 \in T => i \in T
  PROVE  \A i \in 0 .. n : i \in T
<1>1. SUFFICES ASSUME (0 .. n) \ T # {} PROVE FALSE
  OBVIOUS
<1>2. PICK m \in (0 .. n) \ T : \A k \in (0 .. n) \ T : m <= k
  <2> DEFINE U == (0 .. n) \ T
  <2>1. U \in SUBSET Nat /\ U # {}
    BY <1>1
  <2> HIDE DEF U
  <2>2. \E m \in U : \A k \in U : m <= k
    BY <2>1, LeastElement
  <2> QED BY <2>2 DEF U
<1>3. m # 0 /\ m - 1 \in 0 .. n
  BY <1>2
<1> QED BY <1>2, <1>3

\* The functions that begin with base and go on with step.
Iterations(n, S, base, step) ==
  {f \in [0 .. n -> S] : f[0] = base /\ \A i \in 1 .. n : f[i] = step[i][f[i - 1]]}

\* There is one: a definition by recursion defines something.
LEMMA Recursion ==
  ASSUME NEW n \in Nat, NEW S, NEW base \in S, NEW step \in [1 .. n -> [S -> S]]
  PROVE  Iterations(n, S, base, step) # {}
<1> DEFINE Upto(k) == \E f \in [0 .. k -> S] :
                        f[0] = base /\ \A i \in 1 .. k : f[i] = step[i][f[i - 1]]
           T == {k \in 0 .. n : Upto(k)}
<1>1. 0 \in T
  <2> DEFINE g == [i \in 0 .. 0 |-> base]
  <2>1. g \in [0 .. 0 -> S] /\ g[0] = base /\ 1 .. 0 = {}
    OBVIOUS
  <2> HIDE DEF g
  <2>2. Upto(0)
    BY <2>1
  <2> HIDE DEF Upto
  <2> QED BY <2>2
<1>2. ASSUME NEW k \in 1 .. n, k - 1 \in T
      PROVE  k \in T
  <2>0. k \in 0 .. n /\ k - 1 \in 0 .. n
    OBVIOUS
  <2>1. PICK f \in [0 .. k - 1 -> S] :
          f[0] = base /\ \A i \in 1 .. k - 1 : f[i] = step[i][f[i - 1]]
    BY <1>2
  <2> DEFINE g == [i \in 0 .. k |-> IF i = k THEN step[k][f[k - 1]] ELSE f[i]]
  <2>2. step[k][f[k - 1]] \in S
    BY <2>1
  <2>3. g \in [0 .. k -> S]
    BY <2>1, <2>2
  <2>4. g[0] = base
    BY <2>1
  <2>5. ASSUME NEW i \in 1 .. k PROVE g[i] = step[i][g[i - 1]]
    <3>1. g[i - 1] = f[i - 1]
      OBVIOUS
    <3>2. CASE i = k
      <4>1. g[k] = step[k][f[k - 1]]
        OBVIOUS
      <4> HIDE DEF g
      <4> QED BY <3>1, <3>2, <4>1
    <3>3. CASE i # k
      <4>1. g[i] = f[i] /\ i \in 1 .. k - 1
        BY <3>3
      <4> QED BY <2>1, <3>1, <4>1
    <3> QED BY <3>2, <3>3
  <2> HIDE DEF g
  <2>6. Upto(k)
    BY <2>3, <2>4, <2>5
  <2> HIDE DEF Upto
  <2> QED BY <2>0, <2>6
<1>3. \A i \in 0 .. n : i \in T
  <2> HIDE DEF T
  <2> QED BY <1>1, <1>2, Induction
<1> QED BY <1>3 DEF Iterations

----------------------------------------------------------------------------
(* FlattenSeq.                                                             *)

\* f[i] is the first i members of s, one after the other.
Flattens(s, f) ==
  f[1] = s[1] /\ \A i \in 2 .. Len(s) : f[i] = f[i - 1] \o s[i]

LEMMA FlattenedBy ==
  ASSUME NEW P, NEW s \in Seq(Seq(P)), Len(s) > 0,
         NEW f \in [1 .. Len(s) -> Seq(P)], Flattens(s, f)
  PROVE  FlattenSeq(s) = f[Len(s)]
<1> DEFINE n == Len(s)
           Is(g) == g = [i \in 1 .. n |-> IF i = 1 THEN s[i] ELSE g[i - 1] \o s[i]]
           g == CHOOSE h : Is(h)
<1>1. n \in Nat /\ n > 0
  OBVIOUS
<1>2. Is(f)
  <2>1. \A i \in 1 .. n : f[i] = IF i = 1 THEN s[i] ELSE f[i - 1] \o s[i]
    <3>1. \A i \in 1 .. n : i = 1 \/ i \in 2 .. n
      BY <1>1
    <3> QED BY <3>1 DEF Flattens
  <2>2. f = [i \in 1 .. n |-> f[i]]
    OBVIOUS
  <2> HIDE DEF n
  <2> QED BY <2>1, <2>2
<1>3. Is(g)
  <2> HIDE DEF Is
  <2> QED BY <1>2
<1>4. \A i \in 1 .. n : g[i] = IF i = 1 THEN s[i] ELSE g[i - 1] \o s[i]
  <2> HIDE DEF g, n
  <2> QED BY <1>3
<1> DEFINE T == {i \in 0 .. n - 1 : g[i + 1] = f[i + 1]}
<1>5. 0 \in T
  <2> HIDE DEF g, n
  <2>1. 1 \in 1 .. n
    BY <1>1
  <2>2. g[1] = f[1]
    BY <1>4, <2>1 DEF Flattens
  <2> QED BY <1>1, <2>2
<1>6. ASSUME NEW i \in 1 .. n - 1, i - 1 \in T
      PROVE  i \in T
  <2> HIDE DEF g
  <2>1. /\ i + 1 \in 2 .. n /\ i + 1 \in 1 .. n /\ i + 1 # 1 /\ (i + 1) - 1 = i /\ (i - 1) + 1 = i
        /\ i \in 0 .. n - 1
    BY <1>1
  <2>2. g[i] = f[i]
    BY <1>6, <2>1
  <2>3. g[i + 1] = g[i] \o s[i + 1]
    <3> HIDE DEF n, T
    <3> QED BY <1>4, <2>1
  <2>4. f[i + 1] = f[i] \o s[i + 1]
    <3> HIDE DEF T
    <3> QED BY <2>1 DEF Flattens
  <2>5. g[i + 1] = f[i + 1]
    BY <2>2, <2>3, <2>4
  <2> HIDE DEF n
  <2> QED BY <2>1, <2>5
<1>7. \A i \in 0 .. n - 1 : i \in T
  <2>1. n - 1 \in Nat
    BY <1>1
  <2> HIDE DEF T, n
  <2> QED BY <1>5, <1>6, <2>1, Induction
<1>8. g[n] = f[n]
  <2>1. n - 1 \in 0 .. n - 1 /\ (n - 1) + 1 = n
    BY <1>1
  <2> HIDE DEF g, n
  <2> QED BY <1>7, <2>1
<1>9. FlattenSeq(s) = g[n]
  BY <1>1 DEF FlattenSeq
<1> QED BY <1>8, <1>9

LEMMA FlatteningExists ==
  ASSUME NEW P, NEW s \in Seq(Seq(P)), Len(s) > 0
  PROVE  \E f \in [1 .. Len(s) -> Seq(P)] : Flattens(s, f)
<1> DEFINE n == Len(s)
           S == Seq(P)
           step == [i \in 1 .. n - 1 |-> [v \in S |-> v \o s[i + 1]]]
           base == s[1]
<1>1. n \in Nat /\ n - 1 \in Nat /\ \A i \in 1 .. n : s[i] \in S
  OBVIOUS
<1>2. base \in S
  BY <1>1
<1>3. step \in [1 .. n - 1 -> [S -> S]]
  <2>1. \A i \in 1 .. n - 1, v \in S : v \o s[i + 1] \in S
    BY <1>1
  <2> HIDE DEF S, n
  <2> QED BY <2>1
<1>4. PICK h : h \in Iterations(n - 1, S, base, step)
  <2> HIDE DEF n, S, step, base
  <2> QED BY <1>1, <1>2, <1>3, Recursion
<1> DEFINE f == [i \in 1 .. n |-> h[i - 1]]
<1>5. /\ h \in [0 .. n - 1 -> S] /\ h[0] = base
      /\ \A i \in 1 .. n - 1 : h[i] = step[i][h[i - 1]]
  BY <1>4 DEF Iterations
<1>6. f \in [1 .. n -> S]
  <2> HIDE DEF S, n
  <2> QED BY <1>1, <1>5
<1>7. f[1] = s[1]
  BY <1>1, <1>5
<1>8. ASSUME NEW i \in 2 .. n
      PROVE  f[i] = f[i - 1] \o s[i]
  <2>1. /\ i - 1 \in 1 .. n - 1 /\ i \in 1 .. n /\ i - 1 \in 1 .. n
        /\ (i - 1) - 1 \in 0 .. n - 1 /\ (i - 1) + 1 = i
    BY <1>1
  <2>2. h[(i - 1) - 1] \in S
    <3> HIDE DEF S, n, step, base
    <3> QED BY <1>5, <2>1
  <2>3. h[i - 1] = step[i - 1][h[(i - 1) - 1]]
    <3> HIDE DEF S, n, step, base
    <3> QED BY <1>5, <2>1
  <2>4. step[i - 1][h[(i - 1) - 1]] = h[(i - 1) - 1] \o s[i]
    <3> HIDE DEF S, n
    <3> QED BY <2>1, <2>2
  <2>5. f[i] = h[i - 1] /\ f[i - 1] = h[(i - 1) - 1]
    <3> HIDE DEF n
    <3> QED BY <2>1
  <2> HIDE DEF f, step
  <2> QED BY <2>3, <2>4, <2>5
<1> HIDE DEF f
<1> QED BY <1>6, <1>7, <1>8 DEF Flattens

LEMMA FlattenNothing == FlattenSeq(<<>>) = <<>>
BY DEF FlattenSeq

LEMMA FlattenType ==
  ASSUME NEW P, NEW s \in Seq(Seq(P))
  PROVE  FlattenSeq(s) \in Seq(P)
<1>1. CASE Len(s) > 0
  <2>1. PICK f \in [1 .. Len(s) -> Seq(P)] : Flattens(s, f)
    BY <1>1, FlatteningExists
  <2>2. FlattenSeq(s) = f[Len(s)]
    BY <1>1, <2>1, FlattenedBy
  <2>3. Len(s) \in 1 .. Len(s)
    BY <1>1
  <2>4. f[Len(s)] \in Seq(P)
    BY <2>1, <2>3
  <2> QED BY <2>2, <2>4
<1>2. CASE ~(Len(s) > 0)
  <2>1. s = <<>>
    BY <1>2
  <2>2. <<>> \in Seq(P)
    OBVIOUS
  <2> QED BY <2>1, <2>2, FlattenNothing
<1> QED BY <1>1, <1>2

LEMMA Associative ==
  ASSUME NEW P, NEW a \in Seq(P), NEW b \in Seq(P), NEW c \in Seq(P)
  PROVE  a \o (b \o c) = (a \o b) \o c
BY ConcatAssociative

LEMMA FlattenConcat ==
  ASSUME NEW P, NEW s \in Seq(Seq(P)), NEW t \in Seq(Seq(P))
  PROVE  FlattenSeq(s \o t) = FlattenSeq(s) \o FlattenSeq(t)
<1>1. FlattenSeq(s) \in Seq(P) /\ FlattenSeq(t) \in Seq(P)
  BY FlattenType
<1>2. CASE s = <<>>
  <2>1. s \o t = t
    BY <1>2
  <2>2. FlattenSeq(s) = <<>>
    BY <1>2, FlattenNothing
  <2> QED BY <1>1, <2>1, <2>2
<1>3. CASE t = <<>>
  <2>1. s \o t = s
    BY <1>3
  <2>2. FlattenSeq(t) = <<>>
    BY <1>3, FlattenNothing
  <2> QED BY <1>1, <2>1, <2>2
<1>4. CASE s # <<>> /\ t # <<>>
  <2> DEFINE m == Len(s)
             n == Len(t)
             both == s \o t
  <2>1. /\ m \in Nat /\ m > 0 /\ n \in Nat /\ n > 0 /\ Len(both) = m + n
        /\ \A i \in 1 .. m : both[i] = s[i]
        /\ \A i \in m + 1 .. m + n : both[i] = t[i - m]
        /\ both \in Seq(Seq(P))
        /\ \A i \in 1 .. n : t[i] \in Seq(P)
    BY <1>4
  <2>2. PICK f \in [1 .. m -> Seq(P)] : Flattens(s, f)
    BY <2>1, FlatteningExists
  <2>3. PICK g \in [1 .. n -> Seq(P)] : Flattens(t, g)
    BY <2>1, FlatteningExists
  <2>4. FlattenSeq(s) = f[m] /\ FlattenSeq(t) = g[n]
    BY <2>1, <2>2, <2>3, FlattenedBy
  <2> DEFINE h == [i \in 1 .. m + n |-> IF i <= m THEN f[i] ELSE f[m] \o g[i - m]]
  <2> HIDE DEF m, n, both
  <2>5. f[m] \in Seq(P)
    BY <2>1, <2>2
  <2>6. h \in [1 .. m + n -> Seq(P)]
    <3>1. ASSUME NEW i \in 1 .. m + n
          PROVE  (IF i <= m THEN f[i] ELSE f[m] \o g[i - m]) \in Seq(P)
      <4>1. CASE i <= m
        BY <2>1, <2>2, <4>1
      <4>2. CASE ~(i <= m)
        <5>1. i - m \in 1 .. n
          BY <2>1, <4>2
        <5>2. g[i - m] \in Seq(P)
          BY <2>3, <5>1
        <5> QED BY <2>5, <4>2, <5>2
      <4> QED BY <4>1, <4>2
    <3> QED BY <3>1
  <2>7. h[1] = both[1]
    BY <2>1, <2>2 DEF Flattens, m
  <2>8. ASSUME NEW i \in 2 .. m + n
        PROVE  h[i] = h[i - 1] \o both[i]
    <3>1. CASE i <= m
      <4>1. h[i] = f[i] /\ h[i - 1] = f[i - 1] /\ both[i] = s[i] /\ i \in 2 .. m
        BY <2>1, <3>1
      <4> QED BY <2>2, <4>1 DEF Flattens, m
    <3>2. CASE i = m + 1
      <4>1. h[i] = f[m] \o g[1] /\ h[i - 1] = f[m] /\ both[i] = t[1]
        <5>1. ~(i <= m) /\ i - m = 1 /\ i - 1 = m /\ m \in 1 .. m + n /\ i \in m + 1 .. m + n
              /\ i \in 1 .. m + n
          BY <2>1, <3>2
        <5>2. h[i] = f[m] \o g[i - m]
          BY <5>1
        <5>3. h[i - 1] = f[m]
          BY <5>1, <2>1
        <5>4. both[i] = t[i - m]
          BY <2>1, <5>1
        <5> HIDE DEF h
        <5> QED BY <5>1, <5>2, <5>3, <5>4
      <4> HIDE DEF h
      <4> QED BY <2>3, <4>1 DEF Flattens
    <3>3. CASE i > m + 1
      <4>1. /\ i - m \in 2 .. n /\ (i - 1) - m = (i - m) - 1 /\ ~(i <= m) /\ ~(i - 1 <= m)
            /\ i \in m + 1 .. m + n /\ i \in 1 .. m + n /\ i - 1 \in 1 .. m + n
            /\ (i - m) - 1 \in 1 .. n /\ i - m \in 1 .. n
        BY <2>1, <3>3
      <4>2. h[i] = f[m] \o g[i - m] /\ h[i - 1] = f[m] \o g[(i - m) - 1] /\ both[i] = t[i - m]
        BY <2>1, <4>1
      <4>3. g[i - m] = g[(i - m) - 1] \o t[i - m]
        BY <2>3, <4>1 DEF Flattens, n
      <4>4. g[(i - m) - 1] \in Seq(P) /\ t[i - m] \in Seq(P)
        BY <2>1, <2>3, <4>1
      <4> DEFINE a == f[m]
                 b == g[(i - m) - 1]
                 c == t[i - m]
      <4>5. a \o (b \o c) = (a \o b) \o c
        <5>1. a \in Seq(P) /\ b \in Seq(P) /\ c \in Seq(P)
          BY <2>5, <4>4
        <5> HIDE DEF a, b, c
        <5> QED BY <5>1, Associative
      <4> HIDE DEF h
      <4> QED BY <4>2, <4>3, <4>5
    <3>4. i <= m \/ i = m + 1 \/ i > m + 1
      <4>1. i \in Int /\ m \in Int
        BY <2>1
      <4> QED BY <4>1
    <3> HIDE DEF h
    <3> QED BY <3>1, <3>2, <3>3, <3>4
  <2>9. Flattens(both, h)
    <3> HIDE DEF h
    <3> QED BY <2>1, <2>7, <2>8 DEF Flattens
  <2>10. FlattenSeq(both) = h[m + n]
    <3> HIDE DEF h
    <3>1. Len(both) > 0
      BY <2>1
    <3> QED BY <2>1, <2>6, <2>9, <3>1, FlattenedBy
  <2>11. h[m + n] = f[m] \o g[n]
    <3>1. m + n \in 1 .. m + n /\ ~(m + n <= m) /\ (m + n) - m = n
      BY <2>1
    <3> QED BY <3>1
  <2> QED BY <2>4, <2>10, <2>11 DEF both
<1> QED BY <1>2, <1>3, <1>4

----------------------------------------------------------------------------
(* Replace.                                                                *)

\* What is put together by Replace.
Parts(pieces, hole, value) ==
  [i \in 1 .. Len(pieces) |-> IF pieces[i] = Hole(hole) THEN value ELSE <<pieces[i]>>]

LEMMA PartsType ==
  ASSUME NEW P, NEW pieces \in Seq(P), NEW hole, NEW value \in Seq(P)
  PROVE  /\ Parts(pieces, hole, value) \in Seq(Seq(P))
         /\ Len(Parts(pieces, hole, value)) = Len(pieces)
         /\ \A i \in 1 .. Len(pieces) :
              Parts(pieces, hole, value)[i]
                = IF pieces[i] = Hole(hole) THEN value ELSE <<pieces[i]>>
<1> DEFINE n == Len(pieces)
           part(i) == IF pieces[i] = Hole(hole) THEN value ELSE <<pieces[i]>>
<1>1. ASSUME NEW i \in 1 .. n PROVE part(i) \in Seq(P)
  <2>1. <<pieces[i]>> \in Seq(P)
    OBVIOUS
  <2> QED BY <2>1
<1>2. Parts(pieces, hole, value) = [i \in 1 .. n |-> part(i)]
  BY DEF Parts
<1>3. n \in Nat
  OBVIOUS
<1> HIDE DEF n, part
<1>4. [i \in 1 .. n |-> part(i)] \in Seq(Seq(P)) /\ Len([i \in 1 .. n |-> part(i)]) = n
  BY <1>1, <1>3
<1> QED BY <1>2, <1>4 DEF n, part

LEMMA ReplaceIs ==
  ASSUME NEW pieces, NEW hole, NEW value
  PROVE  Replace(pieces, hole, value) = FlattenSeq(Parts(pieces, hole, value))
BY DEF Replace, Parts

LEMMA ReplaceType ==
  ASSUME NEW P, NEW pieces \in Seq(P), NEW hole, NEW value \in Seq(P)
  PROVE  Replace(pieces, hole, value) \in Seq(P)
BY PartsType, FlattenType, ReplaceIs

LEMMA ConcatIs ==
  ASSUME NEW S, NEW x \in Seq(S), NEW y \in Seq(S), NEW z \in Seq(S),
         Len(z) = Len(x) + Len(y),
         \A i \in 1 .. Len(x) : z[i] = x[i],
         \A i \in 1 .. Len(y) : z[Len(x) + i] = y[i]
  PROVE  z = x \o y
<1>1. /\ x \o y \in Seq(S) /\ Len(x \o y) = Len(x) + Len(y)
      /\ \A i \in 1 .. Len(x) : (x \o y)[i] = x[i]
      /\ \A i \in 1 .. Len(y) : (x \o y)[Len(x) + i] = y[i]
  OBVIOUS
<1>2. \A i \in 1 .. Len(z) : z[i] = (x \o y)[i]
  <2>1. ASSUME NEW i \in 1 .. Len(z)
        PROVE  i \in 1 .. Len(x) \/ \E j \in 1 .. Len(y) : i = Len(x) + j
    <3>1. CASE ~(i <= Len(x))
      <4>1. i - Len(x) \in 1 .. Len(y) /\ i = Len(x) + (i - Len(x))
        BY <3>1
      <4> QED BY <4>1
    <3> QED BY <3>1
  <2> DEFINE w == x \o y
  <2> HIDE DEF w
  <2> QED BY <1>1, <2>1 DEF w
<1>3. Len(z) = Len(x \o y)
  BY <1>1
<1> DEFINE w == x \o y
<1> HIDE DEF w
<1>4. w \in Seq(S) /\ Len(z) = Len(w) /\ \A i \in 1 .. Len(z) : z[i] = w[i]
  BY <1>1, <1>2, <1>3 DEF w
<1>5. z = w
  BY <1>4, SeqEqual
<1> QED BY <1>5 DEF w

LEMMA ReplaceConcat ==
  ASSUME NEW P, NEW a \in Seq(P), NEW b \in Seq(P), NEW hole, NEW value \in Seq(P)
  PROVE  Replace(a \o b, hole, value) = Replace(a, hole, value) \o Replace(b, hole, value)
<1> DEFINE M(x) == Parts(x, hole, value)
<1>1. M(a \o b) = M(a) \o M(b)
  <2> DEFINE part(e) == IF e = Hole(hole) THEN value ELSE <<e>>
             c == a \o b
             x == M(a)
             y == M(b)
             z == M(c)
  <2>1. x \in Seq(Seq(P)) /\ Len(x) = Len(a) /\ \A i \in 1 .. Len(a) : x[i] = part(a[i])
    BY PartsType
  <2>2. y \in Seq(Seq(P)) /\ Len(y) = Len(b) /\ \A i \in 1 .. Len(b) : y[i] = part(b[i])
    BY PartsType
  <2>3. c \in Seq(P)
    OBVIOUS
  <2>4. z \in Seq(Seq(P)) /\ Len(z) = Len(c) /\ \A i \in 1 .. Len(c) : z[i] = part(c[i])
    <3> HIDE DEF c
    <3> QED BY <2>3, PartsType
  <2>5. /\ Len(a) \in Nat /\ Len(b) \in Nat /\ Len(c) = Len(a) + Len(b)
        /\ \A i \in 1 .. Len(a) : c[i] = a[i]
        /\ \A i \in 1 .. Len(b) : c[Len(a) + i] = b[i]
    OBVIOUS
  <2> HIDE DEF part, c, x, y, z
  <2>6. \A i \in 1 .. Len(x) : z[i] = x[i]
    <3>1. \A i \in 1 .. Len(a) : i \in 1 .. Len(c)
      BY <2>5
    <3> QED BY <2>1, <2>4, <2>5, <3>1
  <2>7. \A i \in 1 .. Len(y) : z[Len(x) + i] = y[i]
    <3>1. \A i \in 1 .. Len(b) : Len(a) + i \in 1 .. Len(c)
      BY <2>5
    <3> QED BY <2>1, <2>2, <2>4, <2>5, <3>1
  <2>8. Len(z) = Len(x) + Len(y)
    BY <2>1, <2>2, <2>4, <2>5
  <2>9. z = x \o y
    BY <2>1, <2>2, <2>4, <2>6, <2>7, <2>8, ConcatIs
  <2> QED BY <2>9 DEF x, y, z, c
<1>2. M(a) \in Seq(Seq(P)) /\ M(b) \in Seq(Seq(P))
  BY PartsType
<1>3. FlattenSeq(M(a) \o M(b)) = FlattenSeq(M(a)) \o FlattenSeq(M(b))
  <2> HIDE DEF M
  <2> QED BY <1>2, FlattenConcat
<1> QED BY <1>1, <1>3, ReplaceIs

\* Each piece for itself, and all together again.
LEMMA Singles ==
  ASSUME NEW P, NEW pieces \in Seq(P), NEW M \in Seq(Seq(P)), Len(M) = Len(pieces),
         \A i \in 1 .. Len(pieces) : M[i] = <<pieces[i]>>
  PROVE  FlattenSeq(M) = pieces
<1> DEFINE n == Len(pieces)
<1>1. M \in Seq(Seq(P)) /\ Len(M) = n /\ \A i \in 1 .. n : M[i] = <<pieces[i]>>
  OBVIOUS
<1>2. CASE n = 0
  <2>1. M = <<>> /\ pieces = <<>>
    BY <1>1, <1>2
  <2> QED BY <2>1, FlattenNothing
<1>3. CASE n # 0
  <2> DEFINE f == [i \in 1 .. n |-> SubSeq(pieces, 1, i)]
  <2>1. n \in Nat /\ n > 0 /\ \A i \in 1 .. n : pieces[i] \in P
    BY <1>3
  <2>2. f \in [1 .. n -> Seq(P)]
    <3>1. ASSUME NEW i \in 1 .. n PROVE SubSeq(pieces, 1, i) \in Seq(P)
      OBVIOUS
    <3> HIDE DEF n
    <3> QED BY <3>1
  <2>3. f[1] = M[1]
    <3>1. 1 \in 1 .. n
      BY <2>1
    <3>2. SubSeq(pieces, 1, 1) = <<pieces[1]>>
      <4> DEFINE a == SubSeq(pieces, 1, 1)
                 b == <<pieces[1]>>
      <4>1. a \in Seq(P) /\ Len(a) = 1 /\ a[1] = pieces[1]
        BY <2>1
      <4>2. b \in Seq(P) /\ Len(b) = 1 /\ b[1] = pieces[1]
        BY <2>1, <3>1
      <4> HIDE DEF a, b
      <4>3. \A i \in 1 .. Len(a) : a[i] = b[i]
        <5>1. \A i \in 1 .. 1 : i = 1
          OBVIOUS
        <5> QED BY <4>1, <4>2, <5>1
      <4>4. a = b
        BY <4>1, <4>2, <4>3, SeqEqual
      <4> QED BY <4>4 DEF a, b
    <3> QED BY <1>1, <3>1, <3>2
  <2>4. ASSUME NEW i \in 2 .. n
        PROVE  f[i] = f[i - 1] \o M[i]
    <3>1. i \in 1 .. n /\ i - 1 \in 1 .. n
      BY <2>1
    <3>2. SubSeq(pieces, 1, i) = SubSeq(pieces, 1, i - 1) \o <<pieces[i]>>
      BY <2>1, <3>1
    <3> HIDE DEF n
    <3> QED BY <1>1, <3>1, <3>2
  <2> HIDE DEF n
  <2>5. Flattens(M, f)
    <3> HIDE DEF f
    <3> QED BY <1>1, <2>1, <2>3, <2>4 DEF Flattens
  <2>6. FlattenSeq(M) = f[n]
    <3> HIDE DEF f
    <3> QED BY <1>1, <2>1, <2>2, <2>5, FlattenedBy
  <2>7. f[n] = pieces
    <3>1. n \in 1 .. n
      BY <2>1
    <3>2. SubSeq(pieces, 1, n) = pieces
      BY DEF n
    <3> QED BY <3>1, <3>2
  <2> QED BY <2>6, <2>7
<1> QED BY <1>2, <1>3

\* A text in which the placeholder does not occur stays as it is.
LEMMA ReplaceNothing ==
  ASSUME NEW P, NEW pieces \in Seq(P), NEW hole, NEW value \in Seq(P),
         \A i \in 1 .. Len(pieces) : pieces[i] # Hole(hole)
  PROVE  Replace(pieces, hole, value) = pieces
<1> DEFINE M == Parts(pieces, hole, value)
<1>1. /\ M \in Seq(Seq(P)) /\ Len(M) = Len(pieces)
      /\ \A i \in 1 .. Len(pieces) : M[i] = IF pieces[i] = Hole(hole) THEN value ELSE <<pieces[i]>>
  BY PartsType
<1> HIDE DEF M
<1>2. FlattenSeq(M) = pieces
  BY <1>1, Singles
<1> QED BY <1>2, ReplaceIs DEF M

\* A text that is flattened may be replaced in part by part.
ReplaceEach(s, hole, value) == [i \in 1 .. Len(s) |-> Replace(s[i], hole, value)]

LEMMA ReplaceFlattened ==
  ASSUME NEW P, NEW s \in Seq(Seq(P)), NEW hole, NEW value \in Seq(P)
  PROVE  Replace(FlattenSeq(s), hole, value) = FlattenSeq(ReplaceEach(s, hole, value))
<1> DEFINE n == Len(s)
           R(x) == Replace(x, hole, value)
           t == [i \in 1 .. n |-> R(s[i])]
<1>1. n \in Nat /\ \A i \in 1 .. n : s[i] \in Seq(P)
  OBVIOUS
<1>2. \A x \in Seq(P) : R(x) \in Seq(P)
  BY ReplaceType
<1>3. \A x, y \in Seq(P) : R(x \o y) = R(x) \o R(y)
  BY ReplaceConcat
<1> HIDE DEF R
<1>4. t \in Seq(Seq(P)) /\ Len(t) = n
  <2> HIDE DEF n
  <2>1. t \in [1 .. n -> Seq(P)]
    BY <1>1, <1>2
  <2> QED BY <1>1, <2>1
<1>5. \A i \in 1 .. n : t[i] = R(s[i])
  OBVIOUS
<1> HIDE DEF t
<1>6. CASE n = 0
  <2>1. s = <<>> /\ t = <<>>
    BY <1>4, <1>6
  <2>2. R(<<>>) = <<>>
    <3> DEFINE e == <<>>
    <3>1. e \in Seq(P)
      OBVIOUS
    <3>2. Len(e) = 0
      OBVIOUS
    <3> HIDE DEF e
    <3>3. \A i \in 1 .. Len(e) : e[i] # Hole(hole)
      BY <3>2
    <3>4. Replace(e, hole, value) = e
      BY <3>1, <3>3, ReplaceNothing
    <3> QED BY <3>4 DEF e, R
  <2>3. R(FlattenSeq(s)) = FlattenSeq(t)
    BY <2>1, <2>2, FlattenNothing
  <2> QED BY <2>3 DEF t, R, ReplaceEach
<1>7. CASE n # 0
  <2>1. n > 0 /\ Len(s) > 0 /\ Len(t) > 0
    BY <1>1, <1>4, <1>7
  <2>2. PICK f \in [1 .. n -> Seq(P)] : Flattens(s, f)
    BY <2>1, FlatteningExists
  <2>3. FlattenSeq(s) = f[n]
    BY <2>1, <2>2, FlattenedBy
  <2> DEFINE g == [i \in 1 .. n |-> R(f[i])]
  <2>4. g \in [1 .. n -> Seq(P)]
    <3> HIDE DEF n
    <3> QED BY <1>2, <2>2
  <2>5. g[1] = t[1]
    <3>1. 1 \in 1 .. n
      BY <1>1, <2>1
    <3>2. f[1] = s[1]
      BY <2>2 DEF Flattens
    <3> HIDE DEF n
    <3> QED BY <1>5, <3>1, <3>2
  <2>6. ASSUME NEW i \in 2 .. n
        PROVE  g[i] = g[i - 1] \o t[i]
    <3>1. i \in 1 .. n /\ i - 1 \in 1 .. n
      BY <1>1
    <3>2. f[i] = f[i - 1] \o s[i]
      BY <2>2 DEF Flattens
    <3>3. f[i - 1] \in Seq(P) /\ s[i] \in Seq(P)
      BY <1>1, <2>2, <3>1
    <3>4. R(f[i]) = R(f[i - 1]) \o R(s[i])
      BY <1>3, <3>2, <3>3
    <3> HIDE DEF n
    <3> QED BY <1>5, <3>1, <3>4
  <2>7. Flattens(t, g)
    <3> HIDE DEF g, n
    <3> QED BY <1>4, <2>5, <2>6 DEF Flattens
  <2>8. FlattenSeq(t) = g[n]
    <3> HIDE DEF g, n
    <3> QED BY <1>4, <2>1, <2>4, <2>7, FlattenedBy
  <2>9. g[n] = R(f[n])
    <3>1. n \in 1 .. n
      BY <1>1, <2>1
    <3> HIDE DEF n
    <3> QED BY <3>1
  <2>10. R(FlattenSeq(s)) = FlattenSeq(t)
    BY <2>3, <2>8, <2>9
  <2> QED BY <2>10 DEF t, R, ReplaceEach
<1> QED BY <1>6, <1>7

----------------------------------------------------------------------------
(* Replaced.                                                               *)

Piece(X) == [hole : BOOLEAN, text : X]

LEMMA PieceIs ==
  ASSUME NEW X, NEW p \in Piece(X), NEW h
  PROVE  (p.hole /\ p.text = h) <=> (p = Hole(h))
<1>1. p = Hole(h) => p.hole /\ p.text = h
  BY DEF Hole
<1>2. p.hole /\ p.text = h => p = Hole(h)
  BY DEF Piece, Hole
<1> QED BY <1>1, <1>2

\* No piece of s reads as a placeholder.
Plain(s, P) == s \in Seq(P) /\ \A i \in 1 .. Len(s) : ~s[i].hole

IsValue(value, P) ==
  /\ DOMAIN value = ToSet(Placeholders)
  /\ \A h \in ToSet(Placeholders) : Plain(value[h], P)

Braced == {"{path}", "{pathEncoded}", "{pathNoLeadingSlash}", "{project}",
           "{projectEncoded}", "{line}", "{column}"}

LEMMA PlaceholderSequence == Placeholders \in Seq(Braced)
BY DEF Placeholders, Braced

\* The first k placeholders.
Earlier(k) == {Placeholders[j] : j \in 1 .. k}

LEMMA PlaceholderNames ==
  /\ Len(Placeholders) \in Nat
  /\ ToSet(Placeholders) = Earlier(Len(Placeholders))
<1>1. Len(Placeholders) \in Nat /\ DOMAIN Placeholders = 1 .. Len(Placeholders)
  BY PlaceholderSequence, LenProperties
<1> QED BY <1>1 DEF ToSet, Earlier

\* These replaced at once.
Sub(k, piece, value) ==
  IF piece.hole /\ piece.text \in Earlier(k) THEN value[piece.text] ELSE <<piece>>

SubAll(k, pieces, value) == [i \in 1 .. Len(pieces) |-> Sub(k, pieces[i], value)]

LEMMA SubType ==
  ASSUME NEW X, NEW value, IsValue(value, Piece(X)), NEW piece \in Piece(X),
         NEW k \in 0 .. Len(Placeholders)
  PROVE  Sub(k, piece, value) \in Seq(Piece(X))
<1>1. Earlier(k) \subseteq ToSet(Placeholders)
  <2>1. \A j \in 1 .. k : j \in 1 .. Len(Placeholders)
    BY PlaceholderNames
  <2> QED BY <2>1, PlaceholderNames DEF Earlier
<1>2. <<piece>> \in Seq(Piece(X))
  OBVIOUS
<1> QED BY <1>1, <1>2 DEF Sub, IsValue, Plain

\* To replace the k-th in what the earlier ones have left is to replace the first k at once.
LEMMA SubNext ==
  ASSUME NEW X, NEW value, IsValue(value, Piece(X)), NEW piece \in Piece(X),
         NEW k \in 1 .. Len(Placeholders)
  PROVE  Replace(Sub(k - 1, piece, value), Placeholders[k], value[Placeholders[k]])
           = Sub(k, piece, value)
<1> DEFINE h == Placeholders[k]
           v == value[h]
           P == Piece(X)
<1>1. Earlier(k) = Earlier(k - 1) \cup {h}
  <2>1. \A j : j \in 1 .. k <=> j \in 1 .. k - 1 \/ j = k
    BY PlaceholderNames
  <2> QED BY <2>1 DEF Earlier
<1>2. Earlier(k) \subseteq ToSet(Placeholders)
  <2>1. \A j \in 1 .. k : j \in 1 .. Len(Placeholders)
    BY PlaceholderNames
  <2> QED BY <2>1, PlaceholderNames DEF Earlier
<1>3. v \in Seq(P)
  BY <1>1, <1>2 DEF IsValue, Plain
<1> HIDE DEF h, v, P
<1>4. CASE piece.hole /\ piece.text \in Earlier(k - 1)
  <2> DEFINE x == value[piece.text]
  <2>1. Sub(k - 1, piece, value) = x /\ Sub(k, piece, value) = x
    BY <1>1, <1>4 DEF Sub
  <2>2. x \in Seq(P) /\ \A i \in 1 .. Len(x) : ~x[i].hole
    BY <1>1, <1>2, <1>4 DEF IsValue, Plain, P
  <2> HIDE DEF x
  <2>3. \A i \in 1 .. Len(x) : x[i] # Hole(h)
    BY <2>2 DEF Hole
  <2>4. Replace(x, h, v) = x
    BY <1>3, <2>2, <2>3, ReplaceNothing
  <2> QED BY <2>1, <2>4 DEF h, v
<1>5. CASE ~(piece.hole /\ piece.text \in Earlier(k - 1))
  <2> DEFINE x == <<piece>>
  <2>1. Sub(k - 1, piece, value) = x
    BY <1>5 DEF Sub
  <2>2. x \in Seq(P) /\ Len(x) = 1 /\ x[1] = piece
    BY DEF P
  <2>3. CASE piece = Hole(h)
    <3>1. piece.hole /\ piece.text = h
      BY <2>3 DEF Hole
    <3>2. Sub(k, piece, value) = v
      BY <1>1, <3>1 DEF Sub, v
    <3> DEFINE M == Parts(x, h, v)
    <3>3. /\ M \in Seq(Seq(P)) /\ Len(M) = Len(x)
          /\ \A i \in 1 .. Len(x) : M[i] = IF x[i] = Hole(h) THEN v ELSE <<x[i]>>
      <4>1. x \in Seq(P)
        BY <2>2
      <4> HIDE DEF x
      <4> QED BY <1>3, <4>1, PartsType
    <3> HIDE DEF M, x
    <3>4. M[1] = v /\ Len(M) = 1
      BY <2>2, <2>3, <3>3
    <3>5. FlattenSeq(M) = v
      <4> DEFINE f == [i \in 1 .. 1 |-> v]
      <4>1. f \in [1 .. Len(M) -> Seq(P)] /\ f[1] = v /\ f[Len(M)] = v
        BY <1>3, <3>4
      <4>2. 2 .. Len(M) = {}
        BY <3>4
      <4> HIDE DEF f
      <4>3. Flattens(M, f)
        BY <3>4, <4>1, <4>2 DEF Flattens
      <4>4. Len(M) > 0
        BY <3>4
      <4>5. FlattenSeq(M) = f[Len(M)]
        BY <3>3, <4>1, <4>3, <4>4, FlattenedBy
      <4> QED BY <4>1, <4>5
    <3> QED BY <2>1, <3>2, <3>5, ReplaceIs DEF M, h, v
  <2>4. CASE piece # Hole(h)
    <3>1. Sub(k, piece, value) = x
      BY <1>1, <1>5, <2>4, PieceIs DEF Sub
    <3> HIDE DEF x
    <3>2. \A i \in 1 .. Len(x) : x[i] # Hole(h)
      <4>1. \A i \in 1 .. 1 : i = 1
        OBVIOUS
      <4> QED BY <2>2, <2>4, <4>1
    <3>3. Replace(x, h, v) = x
      BY <1>3, <2>2, <3>2, ReplaceNothing
    <3> QED BY <2>1, <3>1, <3>3 DEF h, v
  <2> QED BY <2>3, <2>4
<1> QED BY <1>4, <1>5

LEMMA SubAllIs ==
  ASSUME NEW X, NEW value, IsValue(value, Piece(X)), NEW pieces \in Seq(Piece(X)),
         NEW k \in 0 .. Len(Placeholders)
  PROVE  /\ SubAll(k, pieces, value) \in Seq(Seq(Piece(X)))
         /\ Len(SubAll(k, pieces, value)) = Len(pieces)
         /\ \A i \in 1 .. Len(pieces) : SubAll(k, pieces, value)[i] = Sub(k, pieces[i], value)
<1> DEFINE n == Len(pieces)
           sub(i) == Sub(k, pieces[i], value)
<1>1. n \in Nat /\ \A i \in 1 .. n : pieces[i] \in Piece(X)
  OBVIOUS
<1>2. \A i \in 1 .. n : sub(i) \in Seq(Piece(X))
  BY <1>1, SubType
<1>3. SubAll(k, pieces, value) = [i \in 1 .. n |-> sub(i)]
  BY DEF SubAll
<1> HIDE DEF n, sub
<1>4. [i \in 1 .. n |-> sub(i)] \in Seq(Seq(Piece(X))) /\ Len([i \in 1 .. n |-> sub(i)]) = n
  BY <1>1, <1>2
<1> QED BY <1>3, <1>4 DEF n, sub

\* To replace the placeholders in their order is to replace them at once.
LEMMA ReplacedAtOnce ==
  ASSUME NEW X, NEW value, IsValue(value, Piece(X)), NEW pieces \in Seq(Piece(X))
  PROVE  Replaced(pieces, value) = FlattenSeq(SubAll(Len(Placeholders), pieces, value))
<1> DEFINE m == Len(Placeholders)
           n == Len(pieces)
           P == Piece(X)
           At(k) == SubAll(k, pieces, value)
           next(k, u) == Replace(u, Placeholders[k], value[Placeholders[k]])
           Is(u) == u = [k \in 0 .. m |->
                          IF k = 0 THEN pieces
                          ELSE Replace(u[k - 1], Placeholders[k], value[Placeholders[k]])]
           g == CHOOSE u : Is(u)
           f == [k \in 0 .. m |-> FlattenSeq(At(k))]
<1>1. m \in Nat /\ n \in Nat /\ \A i \in 1 .. n : pieces[i] \in P
  BY PlaceholderNames
<1>2. \A k \in 0 .. m : /\ At(k) \in Seq(Seq(P)) /\ Len(At(k)) = n
                        /\ \A i \in 1 .. n : At(k)[i] = Sub(k, pieces[i], value)
  BY SubAllIs
<1>3. f[0] = pieces
  <2>1. 0 \in 0 .. m
    BY <1>1
  <2>2. \A i \in 1 .. n : Sub(0, pieces[i], value) = <<pieces[i]>>
    <3>1. Earlier(0) = {}
      BY DEF Earlier
    <3> QED BY <3>1 DEF Sub
  <2> DEFINE M == At(0)
  <2>3. M \in Seq(Seq(P)) /\ Len(M) = n /\ \A i \in 1 .. n : M[i] = <<pieces[i]>>
    <3> HIDE DEF At, n, P, m
    <3> QED BY <1>2, <2>1, <2>2
  <2> HIDE DEF At, M
  <2>4. FlattenSeq(M) = pieces
    BY <2>3, Singles
  <2> QED BY <2>1, <2>4 DEF M
<1>4. ASSUME NEW k \in 1 .. m
      PROVE  f[k] = next(k, f[k - 1])
  <2> DEFINE h == Placeholders[k]
             v == value[h]
             s == At(k - 1)
             t == At(k)
             r == ReplaceEach(s, h, v)
  <2>1. k \in 0 .. m /\ k - 1 \in 0 .. m
    BY <1>1
  <2>2. v \in Seq(P)
    <3>1. h \in ToSet(Placeholders)
      BY PlaceholderNames DEF Earlier
    <3> QED BY <3>1 DEF IsValue, Plain
  <2>3. s \in Seq(Seq(P)) /\ Len(s) = n /\ \A i \in 1 .. n : s[i] = Sub(k - 1, pieces[i], value)
    <3> HIDE DEF At, n, P, m
    <3> QED BY <1>2, <2>1
  <2>4. t \in Seq(Seq(P)) /\ Len(t) = n /\ \A i \in 1 .. n : t[i] = Sub(k, pieces[i], value)
    <3> HIDE DEF At, n, P, m
    <3> QED BY <1>2, <2>1
  <2>5. \A i \in 1 .. n : Replace(Sub(k - 1, pieces[i], value), h, v) = Sub(k, pieces[i], value)
    BY <1>1, SubNext
  <2> HIDE DEF h, v, s, t
  <2>6. Replace(FlattenSeq(s), h, v) = FlattenSeq(r)
    <3>1. s \in Seq(Seq(P)) /\ v \in Seq(P)
      BY <2>2, <2>3
    <3> HIDE DEF P
    <3> QED BY <3>1, ReplaceFlattened
  <2>7. r = t
    <3> HIDE DEF n, P
    <3>1. t = [i \in 1 .. n |-> t[i]]
      BY <1>1, <2>4
    <3>2. \A i \in 1 .. n : r[i] = t[i]
      BY <2>3, <2>4, <2>5 DEF ReplaceEach
    <3>3. r = [i \in 1 .. n |-> r[i]]
      BY <2>3 DEF ReplaceEach
    <3> HIDE DEF r
    <3> QED BY <3>1, <3>2, <3>3
  <2>8. f[k] = FlattenSeq(t) /\ f[k - 1] = FlattenSeq(s)
    <3> HIDE DEF At, m
    <3> QED BY <2>1 DEF s, t
  <2> HIDE DEF f, r
  <2> QED BY <2>6, <2>7, <2>8 DEF h, v
<1>5. Is(f)
  <2>1. \A k \in 0 .. m : k = 0 \/ k \in 1 .. m
    BY <1>1
  <2>2. \A k \in 0 .. m : f[k] = IF k = 0 THEN pieces
                                 ELSE Replace(f[k - 1], Placeholders[k], value[Placeholders[k]])
    <3> HIDE DEF f, m
    <3> QED BY <1>3, <1>4, <2>1
  <2>3. f = [k \in 0 .. m |-> f[k]]
    OBVIOUS
  <2> HIDE DEF f, m
  <2> QED BY <2>2, <2>3
<1>6. Is(g)
  <2> HIDE DEF Is, f
  <2> QED BY <1>5
<1>7. \A k \in 0 .. m : g[k] = IF k = 0 THEN pieces
                               ELSE Replace(g[k - 1], Placeholders[k], value[Placeholders[k]])
  <2> HIDE DEF g, m
  <2> QED BY <1>6
<1> DEFINE T == {k \in 0 .. m : g[k] = f[k]}
<1>8. 0 \in T
  <2>1. 0 \in 0 .. m
    BY <1>1
  <2> HIDE DEF g, f, m
  <2> QED BY <1>3, <1>7, <2>1
<1>9. \A k \in 1 .. m : k - 1 \in T => k \in T
  <2> SUFFICES ASSUME NEW k \in 1 .. m, k - 1 \in T PROVE k \in T
    OBVIOUS
  <2>1. k \in 0 .. m /\ k # 0
    BY <1>1
  <2> HIDE DEF g, f, m
  <2>2. g[k - 1] = f[k - 1]
    OBVIOUS
  <2>3. g[k] = next(k, g[k - 1])
    BY <1>7, <2>1
  <2> QED BY <1>4, <2>1, <2>2, <2>3
<1>10. \A k \in 0 .. m : k \in T
  <2> HIDE DEF T, m
  <2> QED BY <1>1, <1>8, <1>9, Induction
<1>11. g[m] = f[m] /\ f[m] = FlattenSeq(At(m))
  <2>1. m \in 0 .. m
    BY <1>1
  <2>2. f[m] = FlattenSeq(At(m))
    <3> HIDE DEF m, At
    <3> QED BY <2>1
  <2> HIDE DEF g, f, m
  <2> QED BY <1>10, <2>1, <2>2
<1>12. Replaced(pieces, value) = g[m]
  BY DEF Replaced
<1> QED BY <1>11, <1>12

LEMMA ReplacedIsSubstituted ==
  ASSUME NEW X, NEW value, IsValue(value, Piece(X)), NEW template, template.body \in Seq(Piece(X))
  PROVE  Replaced(template.body, value) = Substituted(template, value)
<1>1. Replaced(template.body, value) = FlattenSeq(SubAll(Len(Placeholders), template.body, value))
  BY ReplacedAtOnce
<1>2. DOMAIN value = Earlier(Len(Placeholders))
  BY PlaceholderNames DEF IsValue
<1> QED BY <1>1, <1>2 DEF SubAll, Sub, Substituted

----------------------------------------------------------------------------
(* What the functions of editor.ts return.                                 *)

\* (The provers do not know the empty string for a member of STRING.)
Segment == STRING \cup {""}
Path == Seq(Segment)

Frame == [form : STRING, path : Path, line : Int, column : Int]

LEMMA SourcePath ==
  ASSUME NEW i \in Issue
  PROVE  Source(i).path \in Path
<1> DEFINE trace == TraceOf[i]
           frames == {k \in 1 .. Len(trace) :
                        trace[k].form \in {"python", "parenthesized", "bare"}}
<1>1. trace \in Seq(Frame)
  <2> DEFINE Declared == [form : STRING, path : Seq(STRING), line : Int, column : Int]
  <2>1. trace \in Seq(Declared)
    BY TraceAssumption
  <2>2. Seq(STRING) \subseteq Path
    BY SeqMonotonic DEF Segment, Path
  <2>3. Declared \subseteq Frame
    BY <2>2 DEF Frame
  <2> HIDE DEF Declared, trace
  <2>4. Seq(Declared) \subseteq Seq(Frame)
    BY <2>3, SeqMonotonic
  <2> QED BY <2>1, <2>4
<1>2. CASE frames = {}
  <2>1. Source(i) = NoSource
    BY <1>2 DEF Source, SourceLocationFromStacktrace
  <2> QED BY <2>1 DEF NoSource, NoPath, Path
<1>3. CASE frames # {}
  <2>1. frames \in SUBSET Nat
    BY <1>1
  <2>2. \E m \in frames : \A k \in frames : m <= k
    <3> HIDE DEF frames
    <3> QED BY <1>3, <2>1, LeastElement
  <2>3. Min(frames) \in frames
    <3> HIDE DEF frames
    <3> QED BY <2>2 DEF Min
  <2>4. Source(i) = Location(trace[Min(frames)])
    BY <1>3 DEF Source, SourceLocationFromStacktrace
  <2>5. trace[Min(frames)] \in Frame
    <3>1. Min(frames) \in 1 .. Len(trace)
      BY <2>3
    <3> HIDE DEF frames, trace
    <3> QED BY <1>1, <3>1
  <2> HIDE DEF frames, trace
  <2> QED BY <2>4, <2>5 DEF Location, Frame
<1> QED BY <1>2, <1>3

\* The recursive function of Clean is what its definition says.
CleanStep(path, f) ==
  f = [i \in 0 .. Len(path) |->
         IF i = 0 THEN <<>>
         ELSE IF path[i] \in {"", "."} THEN f[i - 1] ELSE Append(f[i - 1], path[i])]

LEMMA CleanFunction ==
  ASSUME NEW path \in Path
  PROVE  \E f \in [0 .. Len(path) -> Path] : CleanStep(path, f) /\ Clean(path) = f[Len(path)]
<1> DEFINE n == Len(path)
           Dropped(i) == path[i] \in {"", "."}
           Next(i, v) == IF Dropped(i) THEN v ELSE Append(v, path[i])
           step == [i \in 1 .. n |-> [v \in Path |-> Next(i, v)]]
<1>1. n \in Nat /\ \A i \in 1 .. n : path[i] \in Segment
  BY DEF Path
<1>2. \A i \in 1 .. n : \A v \in Path : Next(i, v) \in Path
  <2>1. ASSUME NEW i \in 1 .. n, NEW v \in Path PROVE Append(v, path[i]) \in Path
    BY <1>1 DEF Path
  <2> HIDE DEF n, Dropped
  <2> QED BY <2>1
<1>3. /\ step \in [1 .. n -> [Path -> Path]]
      /\ \A i \in 1 .. n : \A v \in Path : step[i][v] = Next(i, v)
  <2> HIDE DEF Next, n
  <2> QED BY <1>2
<1>4. <<>> \in Path
  BY DEF Path
<1>5. \E f \in [0 .. n -> Path] : f[0] = <<>> /\ \A i \in 1 .. n : f[i] = step[i][f[i - 1]]
  <2> DEFINE base == <<>>
  <2>1. n \in Nat /\ base \in Path /\ step \in [1 .. n -> [Path -> Path]]
    BY <1>1, <1>3, <1>4
  <2> HIDE DEF n, step, base
  <2>2. Iterations(n, Path, base, step) # {}
    BY <2>1, Recursion
  <2> QED BY <2>2 DEF base, Iterations
<1>6. PICK f \in [0 .. n -> Path] : f[0] = <<>> /\ \A i \in 1 .. n : f[i] = step[i][f[i - 1]]
  <2> HIDE DEF n, step
  <2> QED BY <1>5
<1>7. \A i \in 1 .. n : f[i] = Next(i, f[i - 1])
  <2>1. ASSUME NEW i \in 1 .. n PROVE f[i - 1] \in Path
    <3>1. i - 1 \in 0 .. n
      BY <1>1
    <3> HIDE DEF n
    <3> QED BY <1>6, <3>1
  <2> HIDE DEF Next, n, step
  <2> QED BY <1>3, <1>6, <2>1
<1>8. CleanStep(path, f)
  <2>1. f = [i \in 0 .. n |-> f[i]]
    <3> HIDE DEF n
    <3> QED BY <1>6
  <2>2. \A i \in 0 .. n : i = 0 \/ i \in 1 .. n
    BY <1>1
  <2>3. \A i \in 0 .. n : f[i] = IF i = 0 THEN <<>> ELSE Next(i, f[i - 1])
    <3> HIDE DEF Next, n
    <3> QED BY <1>6, <1>7, <2>2
  <2>4. f = [i \in 0 .. n |-> IF i = 0 THEN <<>> ELSE Next(i, f[i - 1])]
    <3> HIDE DEF Next, n
    <3> QED BY <2>1, <2>3
  <2> QED BY <2>4 DEF CleanStep
<1> DEFINE g == CHOOSE h : CleanStep(path, h)
<1>9. CleanStep(path, g)
  <2> HIDE DEF n
  <2> QED BY <1>8
<1>10. \A i \in 0 .. n : g[i] = f[i]
  <2> DEFINE T == {i \in 0 .. n : g[i] = f[i]}
  <2>1. g[0] = <<>> /\ \A i \in 1 .. n : g[i] = Next(i, g[i - 1])
    <3> HIDE DEF g
    <3>1. \A i \in 0 .. n : g[i] = IF i = 0 THEN <<>> ELSE Next(i, g[i - 1])
      BY <1>9 DEF CleanStep
    <3>2. 0 \in 0 .. n /\ \A i \in 1 .. n : i \in 0 .. n /\ i # 0
      BY <1>1
    <3> HIDE DEF Next, n
    <3> QED BY <3>1, <3>2
  <2> HIDE DEF Next, g, n
  <2>2. 0 \in T
    BY <1>1, <1>6, <2>1
  <2>3. ASSUME NEW i \in 1 .. n, i - 1 \in T
        PROVE  i \in T
    BY <1>1, <1>7, <2>1, <2>3
  <2>4. \A i \in 0 .. n : i \in T
    <3> HIDE DEF T
    <3> QED BY <1>1, <2>2, <2>3, Induction
  <2> QED BY <2>4
<1>11. Clean(path) = g[n]
  BY DEF Clean, CleanStep
<1>12. Clean(path) = f[n]
  <2>1. n \in 0 .. n
    BY <1>1
  <2> HIDE DEF g, n
  <2> QED BY <1>10, <1>11, <2>1
<1> QED BY <1>6, <1>8, <1>12

\* What is left of a path are segments of it.
LEMMA CleanSegments ==
  ASSUME NEW path \in Path
  PROVE  /\ Clean(path) \in Path
         /\ \A k \in 1 .. Len(Clean(path)) : \E j \in 1 .. Len(path) : Clean(path)[k] = path[j]
<1> DEFINE n == Len(path)
           Own(s) == \A k \in 1 .. Len(s) : \E j \in 1 .. n : s[k] = path[j]
<1>1. n \in Nat /\ \A i \in 1 .. n : path[i] \in Segment
  BY DEF Path
<1>2. PICK f \in [0 .. n -> Path] : CleanStep(path, f) /\ Clean(path) = f[n]
  BY CleanFunction
<1> DEFINE T == {i \in 0 .. n : Own(f[i])}
<1>3. 0 \in T
  <2>1. f[0] = <<>>
    <3>1. 0 \in 0 .. n
      BY <1>1
    <3>2. f = [j \in 0 .. n |->
                 IF j = 0 THEN <<>>
                 ELSE IF path[j] \in {"", "."} THEN f[j - 1] ELSE Append(f[j - 1], path[j])]
      BY <1>2 DEF CleanStep
    <3> HIDE DEF n
    <3> QED BY <3>1, <3>2
  <2>2. Own(<<>>)
    OBVIOUS
  <2> HIDE DEF Own
  <2> QED BY <1>1, <2>1, <2>2
<1>4. ASSUME NEW i \in 1 .. n, i - 1 \in T
      PROVE  i \in T
  <2>1. f[i] = IF path[i] \in {"", "."} THEN f[i - 1] ELSE Append(f[i - 1], path[i])
    <3>1. i \in 0 .. n /\ i # 0
      BY <1>1
    <3>2. f = [j \in 0 .. n |->
                 IF j = 0 THEN <<>>
                 ELSE IF path[j] \in {"", "."} THEN f[j - 1] ELSE Append(f[j - 1], path[j])]
      BY <1>2 DEF CleanStep
    <3> HIDE DEF n
    <3> QED BY <3>1, <3>2
  <2>2. f[i - 1] \in Seq(Segment) /\ path[i] \in Segment /\ Own(f[i - 1])
    BY <1>1, <1>2, <1>4 DEF Path
  <2> DEFINE longer == Append(f[i - 1], path[i])
  <2>3. Own(longer)
    <3>1. ASSUME NEW k \in 1 .. Len(longer)
          PROVE  longer[k] = path[i] \/ (k \in 1 .. Len(f[i - 1]) /\ longer[k] = f[i - 1][k])
      BY <2>2
    <3> HIDE DEF longer
    <3> QED BY <2>2, <3>1
  <2> HIDE DEF longer
  <2>4. Own(f[i])
    BY <2>1, <2>2, <2>3 DEF longer
  <2> HIDE DEF Own
  <2> QED BY <1>1, <2>4
<1>5. \A i \in 0 .. n : i \in T
  <2> HIDE DEF T, n
  <2> QED BY <1>1, <1>3, <1>4, Induction
<1>6. Own(f[n]) /\ f[n] \in Path
  <2>1. n \in 0 .. n
    BY <1>1
  <2> HIDE DEF n
  <2> QED BY <1>2, <1>5, <2>1
<1> QED BY <1>2, <1>6

LEMMA NoRoot ==
  /\ <<"">> \in Path /\ Len(<<"">>) = 1
  /\ \A k \in 1 .. Len(<<"">>) : <<"">>[k] = ""
<1>1. Len(<<"">>) = 1 /\ <<"">>[1] = ""
  OBVIOUS
<1>2. <<"">> \in Path
  <2> DEFINE e == ""
  <2>1. e \in Segment
    BY DEF Segment
  <2> HIDE DEF e
  <2>2. <<e>> \in Seq(Segment)
    BY <2>1
  <2> QED BY <2>2 DEF Path, e
<1>3. \A k \in 1 .. 1 : k = 1
  OBVIOUS
<1> QED BY <1>1, <1>2, <1>3

\* full is below root, and no part of it leads up from there.
Below(root, full) ==
  LET n == Len(WithoutSlash(root))
  IN /\ IsPrefix(WithoutSlash(root), full) /\ n < Len(full)
     /\ \A i \in n + 1 .. Len(full) : full[i] # ".."

LEMMA ResolvedBelow ==
  ASSUME NEW path \in Path, NEW root \in Path, ResolveSourcePath(path, root) # NoPath
  PROVE  /\ ResolveSourcePath(path, root) \in Path
         /\ \/ ResolveSourcePath(path, root) = path
            \/ root # <<"">> /\ Below(root, ResolveSourcePath(path, root))
<1> DEFINE top == WithoutSlash(root)
           below == IF Clean(path) = <<>> THEN <<"">> ELSE Clean(path)
           full == ResolveSourcePath(path, root)
<1>1. SUFFICES ASSUME full # path
               PROVE  full \in Path /\ root # <<"">> /\ Below(root, full)
  OBVIOUS
<1>2. /\ \A i \in 1 .. Len(path) : path[i] # ".."
      /\ IsAbsolutePath(top)
      /\ full = top \o below
  BY <1>1 DEF ResolveSourcePath
<1>3. top \in Path
  <2>1. CASE top = root
    BY <2>1
  <2>2. CASE top # root
    <3>1. top = SubSeq(root, 1, Len(root) - 1) /\ Len(root) > 1
      BY <2>2 DEF WithoutSlash, Front
    <3> HIDE DEF top
    <3> QED BY <3>1 DEF Path
  <2> QED BY <2>1, <2>2
<1>4. root # <<"">>
  <2> DEFINE none == <<"">>
  <2>1. Len(none) = 1
    BY NoRoot
  <2> HIDE DEF none
  <2>2. WithoutSlash(none) = none
    BY <2>1 DEF WithoutSlash
  <2>3. ~IsAbsolutePath(none)
    BY <2>1 DEF IsAbsolutePath
  <2>4. root # none
    BY <1>2, <2>2, <2>3
  <2> QED BY <2>4 DEF none
<1>5. below \in Path /\ Len(below) > 0 /\ \A k \in 1 .. Len(below) : below[k] # ".."
  <2>1. CASE Clean(path) = <<>>
    <3>1. below = <<"">>
      BY <2>1
    <3> DEFINE none == <<"">>
    <3>2. none \in Path /\ Len(none) = 1 /\ \A k \in 1 .. Len(none) : none[k] = ""
      BY NoRoot
    <3>3. below = none
      BY <3>1
    <3>4. "" # ".."
      OBVIOUS
    <3> HIDE DEF below, none
    <3>5. below \in Path /\ \A k \in 1 .. Len(below) : below[k] # ".."
      BY <3>2, <3>3, <3>4, Zenon
    <3>6. Len(below) = 1
      BY <3>2, <3>3, Zenon
    <3>7. Len(below) > 0
      BY <3>6
    <3> QED BY <3>5, <3>7, Zenon
  <2>2. CASE Clean(path) # <<>>
    <3>1. below = Clean(path)
      BY <2>2
    <3>2. Clean(path) \in Seq(Segment) /\ Len(Clean(path)) > 0
      BY <2>2, CleanSegments DEF Path
    <3>3. \A k \in 1 .. Len(Clean(path)) : Clean(path)[k] # ".."
      <4>1. \A k \in 1 .. Len(Clean(path)) : \E j \in 1 .. Len(path) : Clean(path)[k] = path[j]
        BY CleanSegments
      <4> QED BY <1>2, <4>1
    <3> HIDE DEF below
    <3> QED BY <3>1, <3>2, <3>3 DEF Path
  <2> QED BY <2>1, <2>2
<1> HIDE DEF top, below, full
<1>6. /\ Len(full) = Len(top) + Len(below)
      /\ \A i \in 1 .. Len(top) : full[i] = top[i]
      /\ \A i \in Len(top) + 1 .. Len(full) : full[i] = below[i - Len(top)]
      /\ full \in Path
  BY <1>2, <1>3, <1>5 DEF Path
<1>7. IsPrefix(top, full)
  <2>1. SubSeq(top, 1, Len(top)) = SubSeq(full, 1, Len(top))
    BY <1>3, <1>5, <1>6 DEF Path
  <2> QED BY <1>3, <1>5, <1>6, <2>1 DEF IsPrefix, Path
<1>8. ASSUME NEW i \in Len(top) + 1 .. Len(full)
      PROVE  full[i] # ".."
  <2>1. i - Len(top) \in 1 .. Len(below)
    BY <1>3, <1>5, <1>6 DEF Path
  <2> QED BY <1>5, <1>6, <2>1
<1>9. Len(top) < Len(full)
  BY <1>3, <1>5, <1>6 DEF Path
<1> QED BY <1>4, <1>6, <1>7, <1>8, <1>9 DEF Below, top

----------------------------------------------------------------------------
(* Templates, and what stands for their placeholders.                      *)

\* The texts of templates and settings, and the templates of them.
Texts ==
  STRING \cup {FolderName(r) : r \in Path}
  \cup {"", ":", "&path=", "/", "%2F", "{path}", "{pathEncoded}", "{pathNoLeadingSlash}",
        "{project}", "{projectEncoded}", "{line}", "{column}"}
Body == Seq(Piece(Texts))

LEMMA FiveOf ==
  ASSUME NEW S, NEW a \in S, NEW b \in S, NEW c \in S, NEW d \in S
  PROVE  <<a, b, c, b, d>> \in Seq(S)
OBVIOUS

LEMMA AtLineBody ==
  ASSUME NEW hole \in {"{path}", "{pathEncoded}", "{pathNoLeadingSlash}"}
  PROVE AtLine(hole) \in Body
<1> DEFINE P == Piece(Texts)
           a == Hole(hole)
           b == Text(":")
           c == Hole("{line}")
           d == Hole("{column}")
<1>1. a \in P /\ b \in P /\ c \in P /\ d \in P
  BY DEF Hole, Text, Piece, Texts
<1>2. AtLine(hole) = <<a, b, c, b, d>>
  BY DEF AtLine
<1> HIDE DEF a, b, c, d, P
<1>3. <<a, b, c, b, d>> \in Seq(P)
  BY <1>1, FiveOf
<1> QED BY <1>2, <1>3 DEF Body, P
LEMMA PresetBodies ==
  ASSUME NEW preset \in {"vscode", "vscode-insiders", "cursor", "zed"}
  PROVE PresetTemplates[preset].body \in Body
<1> DEFINE hole == IF preset = "zed" THEN "{pathNoLeadingSlash}" ELSE "{path}"
<1>1. hole \in {"{path}", "{pathEncoded}", "{pathNoLeadingSlash}"}
  OBVIOUS
<1>2. PresetTemplates[preset].body = AtLine(hole)
  BY DEF PresetTemplates
<1> HIDE DEF hole
<1> QED BY <1>1, <1>2, AtLineBody

Word == Segment \cup {FolderName(r) : r \in Path}
Settings ==
  [preset : {"vscode", "vscode-insiders", "cursor", "zed", "jetbrains", "custom"},
   customTemplate : [protocol : Segment, body : Body]]
LEMMA TemplateBody ==
  ASSUME NEW settings \in Settings
  PROVE  EditorTemplate(settings).body \in Body
<1>1. CASE settings.preset = "custom"
  BY <1>1 DEF EditorTemplate, Settings
<1>2. CASE settings.preset = "jetbrains"
  <2> DEFINE P == Piece(Texts)
             a == Hole("{projectEncoded}")
             b == Text("&path=")
             rest == AtLine("{pathEncoded}")
  <2>1. a \in P /\ b \in P
    BY DEF Hole, Text, Piece, Texts
  <2>2. rest \in Seq(P)
    BY AtLineBody DEF Body
  <2>3. EditorTemplate(settings) = [protocol |-> "jetbrains", body |-> <<a, b>> \o rest]
    BY <1>2 DEF EditorTemplate
  <2> HIDE DEF a, b, rest, P
  <2>4. <<a, b>> \o rest \in Seq(P)
    BY <2>1, <2>2
  <2> QED BY <2>3, <2>4 DEF Body, P
<1>3. CASE settings.preset \notin {"custom", "jetbrains"}
  <2>1. EditorTemplate(settings) = PresetTemplates[settings.preset]
    BY <1>3 DEF EditorTemplate
  <2>2. settings.preset \in {"vscode", "vscode-insiders", "cursor", "zed"}
    BY <1>3 DEF Settings
  <2> QED BY <2>1, <2>2, PresetBodies
<1> QED BY <1>1, <1>2, <1>3

LEMMA InitialSettings == InitialEditorSettings \in Settings
<1>1. <<>> \in Body
  BY DEF Body
<1>2. "" \in Segment
  BY DEF Segment
<1> QED BY <1>1, <1>2 DEF InitialEditorSettings, Settings

LEMMA TypedTemplates ==
  ASSUME NEW template \in Template
  PROVE  template \in [protocol : Segment, body : Body]
<1> DEFINE Q == [hole : BOOLEAN, text : STRING]
<1>1. template \in [protocol : STRING, body : Seq(Q)]
  BY TemplateAssumption
<1>2. Q \subseteq Piece(Texts)
  BY DEF Piece, Texts
<1> HIDE DEF Q
<1>3. Seq(Q) \subseteq Body
  BY <1>2, SeqMonotonic DEF Body
<1> QED BY <1>1, <1>3 DEF Segment

LEMMA EncodedPlain ==
  ASSUME NEW X, NEW W \in SUBSET X, NEW path \in Seq(W), NEW slash \in X
  PROVE  Plain(Encoded(path, slash), Piece(X))
<1> DEFINE n == Len(path)
           m == 2 * n - 1
           piece(i) == IF i % 2 = 1 THEN Encode(path[(i + 1) \div 2]) ELSE Text(slash)
<1>1. n \in Nat /\ \A i \in 1 .. n : path[i] \in X
  OBVIOUS
<1>2. ASSUME NEW i \in 1 .. m
      PROVE  piece(i) \in Piece(X) /\ ~piece(i).hole
  <2>1. CASE i % 2 = 1
    <3>1. (i + 1) \div 2 \in 1 .. n
      BY <1>1, <2>1
    <3>2. path[(i + 1) \div 2] \in X
      BY <1>1, <3>1
    <3> QED BY <2>1, <3>2 DEF Encode, Text, Piece
  <2>2. CASE i % 2 # 1
    BY <2>2 DEF Text, Piece
  <2> QED BY <2>1, <2>2
<1>3. Encoded(path, slash) = [i \in 1 .. m |-> piece(i)]
  BY DEF Encoded
<1>4. n = 0 => 1 .. m = 1 .. 0
  OBVIOUS
<1>5. n # 0 => m \in Nat
  BY <1>1
<1> HIDE DEF m, piece
<1> DEFINE s == [i \in 1 .. m |-> piece(i)]
<1>6. CASE n = 0
  <2>1. s = <<>>
    BY <1>4, <1>6
  <2>2. Plain(<<>>, Piece(X))
    BY DEF Plain
  <2> QED BY <1>3, <2>1, <2>2
<1>7. CASE n # 0
  <2>1. s \in Seq(Piece(X)) /\ Len(s) = m
    BY <1>2, <1>5, <1>7
  <2>2. \A i \in 1 .. Len(s) : ~s[i].hole
    BY <1>2, <2>1
  <2> HIDE DEF s
  <2> QED BY <1>3, <2>1, <2>2 DEF Plain, s
<1> QED BY <1>6, <1>7

LEMMA RestPlain ==
  ASSUME NEW P, NEW s, Plain(s, P)
  PROVE  Plain(SubSeq(s, 3, Len(s)), P)
<1>1. s \in Seq(P) /\ Len(s) \in Nat /\ \A i \in 1 .. Len(s) : ~s[i].hole
  BY DEF Plain
<1> DEFINE r == SubSeq(s, 3, Len(s))
<1>2. r \in Seq(P)
  BY <1>1
<1>3. ASSUME NEW i \in 1 .. Len(r)
      PROVE  ~r[i].hole
  <2>1. i + 2 \in 1 .. Len(s) /\ r[i] = s[i + 2]
    BY <1>1
  <2> HIDE DEF r
  <2> QED BY <1>1, <2>1
<1> HIDE DEF r
<1> QED BY <1>2, <1>3 DEF Plain, r

LEMMA NumberPlain ==
  ASSUME NEW X, NEW t \in X
  PROVE  Plain(<<Text(t)>>, Piece(X))
<1>1. Text(t) \in Piece(X) /\ ~Text(t).hole
  BY DEF Text, Piece
<1> DEFINE p == Text(t)
<1> HIDE DEF p
<1>2. p \in Piece(X) /\ ~p.hole
  BY <1>1 DEF p
<1>3. <<p>> \in Seq(Piece(X)) /\ Len(<<p>>) = 1 /\ <<p>>[1] = p
  BY <1>2
<1>4. \A i \in 1 .. 1 : i = 1
  OBVIOUS
<1>5. Plain(<<p>>, Piece(X))
  BY <1>2, <1>3, <1>4 DEF Plain
<1> QED BY <1>5 DEF p

LEMMA ValueIs ==
  ASSUME NEW X, NEW W \in SUBSET X, NEW path \in Seq(W), NEW project \in Seq(W), NEW source,
         "/" \in X, "%2F" \in X, ToString(source.line) \in X, ToString(source.column) \in X
  PROVE  IsValue(Value(path, source, project), Piece(X))
<1> DEFINE value == Value(path, source, project)
           P == Piece(X)
<1>1. DOMAIN value = ToSet(Placeholders)
  BY DEF Value
<1>2. /\ Plain(Encoded(path, "/"), P) /\ Plain(Encoded(path, "%2F"), P)
      /\ Plain(Encoded(project, "/"), P) /\ Plain(Encoded(project, "%2F"), P)
  BY EncodedPlain
<1>3. Plain(SubSeq(Encoded(path, "/"), 3, Len(Encoded(path, "/"))), P)
  BY <1>2, RestPlain
<1>4. Plain(<<Text(ToString(source.line))>>, P) /\ Plain(<<Text(ToString(source.column))>>, P)
  BY NumberPlain
<1> HIDE DEF P
<1>5. ASSUME NEW h \in ToSet(Placeholders)
      PROVE  Plain(value[h], P)
  <2>1. h \in {"{path}", "{pathEncoded}", "{pathNoLeadingSlash}", "{project}",
               "{projectEncoded}", "{line}", "{column}"}
    <3>1. \A i \in DOMAIN Placeholders : Placeholders[i] \in Braced
      BY PlaceholderSequence, LenProperties
    <3> QED BY <3>1 DEF ToSet, Braced
  <2>2. CASE h = "{path}"
    BY <1>2, <2>2 DEF Value
  <2>3. CASE h = "{pathEncoded}"
    BY <1>2, <2>3 DEF Value
  <2>4. CASE h = "{pathNoLeadingSlash}"
    BY <1>2, <1>3, <2>4 DEF Value
  <2>5. CASE h = "{project}"
    BY <1>2, <2>5 DEF Value
  <2>6. CASE h = "{projectEncoded}"
    BY <1>2, <2>6 DEF Value
  <2>7. CASE h = "{line}"
    BY <1>4, <2>7 DEF Value
  <2>8. CASE h = "{column}"
    BY <1>4, <2>8 DEF Value
  <2> QED BY <2>1, <2>2, <2>3, <2>4, <2>5, <2>6, <2>7, <2>8
<1> QED BY <1>1, <1>5 DEF IsValue, P

----------------------------------------------------------------------------
(* The inductive invariant: a root in storage, or in a panel, is one that  *)
(* was saved for the same project, or none; settings hold a template, and  *)
(* names are texts.                                                        *)

PanelOf(i, pn) ==
  pn = [issue |-> i, settings |-> pn.settings, root |-> pn.root, name |-> pn.name,
        configuring |-> pn.configuring, problem |-> pn.problem,
        draft |-> [settings |-> pn.draft.settings, root |-> pn.draft.root,
                   name |-> pn.draft.name]]

RootOf(p, given_, root) == root \in given_[p] \cup {<<"">>}

\* Settings and names are of these kinds, in the panel and in its draft.
TypedAs(settings, name) == settings \in Settings /\ name \in Seq(Word)
Typed(pn) ==
  /\ pn.settings \in Settings \cup {None} /\ pn.name \in Seq(Word)
  /\ TypedAs(pn.draft.settings, pn.draft.name)

PanelInv(pn, given_) ==
  \E i \in Issue :
    /\ PanelOf(i, pn)
    /\ RootOf(ProjectOf[i], given_, pn.root)
    /\ pn.draft.root \in Path
    /\ Typed(pn)

EditorInv ==
  /\ kept \in Settings \cup {None}
  /\ names \in [Project -> Seq(Word)]
  /\ roots \in [Project -> Path]
  /\ given \in [Project -> SUBSET Path]
  /\ \A p \in Project : RootOf(p, given, roots[p])
  /\ panel # None => PanelInv(panel, given)

LEMMA PathWords == Path \subseteq Seq(Word)
BY SeqMonotonic DEF Path, Word

LEMMA FolderWord ==
  ASSUME NEW root \in Path
  PROVE  <<FolderName(root)>> \in Seq(Word)
<1> DEFINE name == FolderName(root)
<1>1. name \in Word
  BY DEF Word
<1> HIDE DEF name
<1>2. <<name>> \in Seq(Word)
  BY <1>1
<1> QED BY <1>2 DEF name

LEMMA EditorInvInit == EditorInit => EditorInv
BY NoRoot, PathWords DEF EditorInit, EditorInv, RootOf

DraftOf(d) == d = [settings |-> d.settings, root |-> d.root, name |-> d.name]

WithDraft(pn, d) == [pn EXCEPT !.draft = d]
Saved(pn, v, r, m, c) ==
  [pn EXCEPT !.settings = v, !.root = r, !.name = m, !.configuring = c]
Told(pn, c, t) == [pn EXCEPT !.configuring = c, !.problem = t]

LEMMA PanelWithDraft ==
  ASSUME NEW i, NEW pn, PanelOf(i, pn), NEW d, DraftOf(d)
  PROVE  /\ PanelOf(i, WithDraft(pn, d))
         /\ WithDraft(pn, d).root = pn.root /\ WithDraft(pn, d).draft = d
         /\ WithDraft(pn, d).settings = pn.settings /\ WithDraft(pn, d).name = pn.name
<1>1. PICK new : new = WithDraft(pn, d)
  OBVIOUS
<1>2. new = [issue |-> i, settings |-> pn.settings, root |-> pn.root, name |-> pn.name,
             configuring |-> pn.configuring, problem |-> pn.problem, draft |-> d]
  BY <1>1 DEF PanelOf, WithDraft
<1>3. /\ PanelOf(i, new) /\ new.root = pn.root /\ new.draft = d
      /\ new.settings = pn.settings /\ new.name = pn.name
  BY <1>2 DEF PanelOf, DraftOf
<1> QED BY <1>1, <1>3

Chosen(d, v, m) == [d EXCEPT !.settings = v, !.name = m]

LEMMA DraftChosen ==
  ASSUME NEW d, DraftOf(d), NEW v, NEW m
  PROVE  Chosen(d, v, m) = [settings |-> v, root |-> d.root, name |-> m]
<1>1. PICK v0, r0, m0 : d = [settings |-> v0, root |-> r0, name |-> m0]
  BY DEF DraftOf
<1>2. PICK new : new = Chosen(d, v, m)
  OBVIOUS
<1>3. new = [settings |-> v, root |-> r0, name |-> m]
  BY <1>1, <1>2 DEF Chosen
<1>4. d.root = r0
  BY <1>1
<1> QED BY <1>2, <1>3, <1>4

LEMMA PanelSaved ==
  ASSUME NEW i, NEW pn, PanelOf(i, pn), NEW v, NEW r, NEW m, NEW c
  PROVE  /\ PanelOf(i, Saved(pn, v, r, m, c))
         /\ Saved(pn, v, r, m, c).root = r /\ Saved(pn, v, r, m, c).draft = pn.draft
         /\ Saved(pn, v, r, m, c).settings = v /\ Saved(pn, v, r, m, c).name = m
<1>1. PICK new : new = Saved(pn, v, r, m, c)
  OBVIOUS
<1>2. PICK v0, r0, m0, c0, t, d :
        pn = [issue |-> i, settings |-> v0, root |-> r0, name |-> m0,
              configuring |-> c0, problem |-> t, draft |-> d]
  BY DEF PanelOf
<1>3. new = [issue |-> i, settings |-> v, root |-> r, name |-> m,
             configuring |-> c, problem |-> t, draft |-> d]
  BY <1>1, <1>2 DEF Saved
<1>4. DraftOf(d) /\ pn.draft = d
  BY <1>2 DEF PanelOf, DraftOf
<1>5. /\ PanelOf(i, new) /\ new.root = r /\ new.draft = d
      /\ new.settings = v /\ new.name = m
  BY <1>3, <1>4 DEF PanelOf, DraftOf
<1> QED BY <1>1, <1>4, <1>5

LEMMA PanelTold ==
  ASSUME NEW i, NEW pn, PanelOf(i, pn), NEW c, NEW t
  PROVE  /\ PanelOf(i, Told(pn, c, t))
         /\ Told(pn, c, t).root = pn.root /\ Told(pn, c, t).draft = pn.draft
         /\ Told(pn, c, t).settings = pn.settings /\ Told(pn, c, t).name = pn.name
<1>1. PICK new : new = Told(pn, c, t)
  OBVIOUS
<1>2. PICK v, r, m, c0, t0, d :
        pn = [issue |-> i, settings |-> v, root |-> r, name |-> m,
              configuring |-> c0, problem |-> t0, draft |-> d]
  BY DEF PanelOf
<1>3. new = [issue |-> i, settings |-> v, root |-> r, name |-> m,
             configuring |-> c, problem |-> t, draft |-> d]
  BY <1>1, <1>2 DEF Told
<1>4. DraftOf(d) /\ pn.draft = d /\ pn.root = r /\ pn.settings = v /\ pn.name = m
  BY <1>2 DEF PanelOf, DraftOf
<1>5. /\ PanelOf(i, new) /\ new.root = r /\ new.draft = d
      /\ new.settings = v /\ new.name = m
  BY <1>3, <1>4 DEF PanelOf, DraftOf
<1> QED BY <1>1, <1>4, <1>5

LEMMA NamesAreWords == Name \subseteq Seq(Word)
BY NameAssumption, SeqMonotonic DEF Segment, Word

LEMMA RootsArePaths == Root \subseteq Path
BY RootAssumption, SeqMonotonic DEF Segment, Path

\* Saving a draft's root for p.
LEMMA StoreKeeps ==
  ASSUME EditorInv, NEW p \in Project, NEW draft, draft.root \in Path,
         TypedAs(draft.settings, draft.name), NEW n \in 0 .. 3, Store(p, draft, n)
  PROVE  /\ kept' \in Settings \cup {None} /\ names' \in [Project -> Seq(Word)]
         /\ roots' \in [Project -> Path]
         /\ given' \in [Project -> SUBSET Path]
         /\ \A q \in Project : RootOf(q, given', roots'[q])
         /\ \A q \in Project : \A root : RootOf(q, given, root) => RootOf(q, given', root)
         /\ n = 3 => RootOf(p, given', draft.root)
<1>0. kept' \in Settings \cup {None} /\ names' \in [Project -> Seq(Word)]
  <2>1. kept' \in {kept, draft.settings}
    BY DEF Store
  <2>2. names' = names \/ names' = [names EXCEPT ![p] = draft.name]
    BY DEF Store
  <2> QED BY <2>1, <2>2 DEF EditorInv, TypedAs
<1>1. CASE n > 1
  <2>1. /\ roots' = [roots EXCEPT ![p] = draft.root]
        /\ given' = [given EXCEPT ![p] = @ \cup {draft.root}]
    BY <1>1 DEF Store
  <2> QED BY <1>0, <2>1 DEF EditorInv, RootOf
<1>2. CASE ~(n > 1)
  <2>1. roots' = roots /\ given' = given
    BY <1>2 DEF Store
  <2> QED BY <1>0, <1>2, <2>1 DEF EditorInv
<1> QED BY <1>1, <1>2

\* What is done in the dialog, short of saving.
InDialog ==
  \/ BeginConfiguration \/ Cancel \/ RefuseConfiguration
  \/ \E preset \in Preset : ChoosePreset(preset)
  \/ \E template \in Template : TypeTemplate(template)
  \/ \E root \in Root : TypeRoot(root)
  \/ \E name \in Name : TypeName(name)

LEMMA DialogStep ==
  ASSUME EditorInv, InDialog
  PROVE  UNCHANGED storage /\ PanelInv(panel', given)
<1>1. UNCHANGED storage /\ panel # None
  BY DEF InDialog, BeginConfiguration, Cancel, RefuseConfiguration, ChoosePreset, TypeTemplate,
     TypeRoot, TypeName, Configuring, Usable
<1>2. PICK i \in Issue : /\ PanelOf(i, panel)
                         /\ RootOf(ProjectOf[i], given, panel.root)
                         /\ panel.draft.root \in Path
                         /\ Typed(panel)
  BY <1>1 DEF EditorInv, PanelInv
<1>3. panel.root \in Path
  <2>1. ProjectOf[i] \in Project
    BY ProjectOfIssue
  <2> QED BY <1>2, <2>1, NoRoot DEF RootOf, EditorInv
<1>4. ASSUME PanelOf(i, panel'), panel'.root = panel.root, panel'.draft.root \in Path,
             panel'.settings = panel.settings, panel'.name = panel.name,
             TypedAs(panel'.draft.settings, panel'.draft.name)
      PROVE  PanelInv(panel', given)
  BY <1>2, <1>4 DEF PanelInv, Typed
<1>5. ASSUME BeginConfiguration
      PROVE  PanelInv(panel', given)
  <2> DEFINE draft == [settings |-> SettingsOr(panel.settings, InitialEditorSettings),
                       root |-> panel.root,
                       name |-> IF panel.name = <<"">> THEN <<FolderName(panel.root)>>
                                ELSE panel.name]
  <2>1. panel' = [panel EXCEPT !.configuring = TRUE, !.problem = "none", !.draft = draft]
    BY <1>5 DEF BeginConfiguration
  <2>2. DraftOf(draft) /\ draft.root = panel.root
    BY DEF DraftOf
  <2> DEFINE yes == TRUE
             told == Told(panel, yes, "none")
  <2>3. /\ PanelOf(i, told) /\ told.root = panel.root
        /\ told.settings = panel.settings /\ told.name = panel.name
    <3> HIDE DEF yes
    <3> QED BY <1>2, PanelTold
  <2>4. panel' = WithDraft(told, draft)
    BY <2>1 DEF Told, WithDraft
  <2> DEFINE settings == SettingsOr(panel.settings, InitialEditorSettings)
             name == IF panel.name = <<"">> THEN <<FolderName(panel.root)>> ELSE panel.name
  <2>5. settings \in Settings /\ name \in Seq(Word)
    BY <1>2, <1>3, InitialSettings, FolderWord DEF SettingsOr, Typed
  <2>6. draft.settings = settings /\ draft.name = name
    BY DEF draft
  <2> HIDE DEF draft, told, settings, name
  <2>7. TypedAs(draft.settings, draft.name)
    BY <2>5, <2>6 DEF TypedAs
  <2>8. /\ PanelOf(i, panel') /\ panel'.root = told.root /\ panel'.draft = draft
        /\ panel'.settings = told.settings /\ panel'.name = told.name
    BY <2>2, <2>3, <2>4, PanelWithDraft
  <2> QED BY <1>3, <1>4, <2>2, <2>3, <2>7, <2>8
<1>6. CASE Cancel \/ RefuseConfiguration
  BY <1>2, <1>4, <1>6 DEF Cancel, RefuseConfiguration, PanelOf, Typed
<1>7. ASSUME NEW preset \in Preset, ChoosePreset(preset)
      PROVE  PanelInv(panel', given)
  <2> DEFINE name == IF preset = "jetbrains" /\ panel.draft.name = <<"">>
                     THEN <<FolderName(panel.draft.root)>> ELSE panel.draft.name
  <2> DEFINE settings == [panel.draft.settings EXCEPT !.preset = preset]
             draft == [settings |-> settings, root |-> panel.draft.root, name |-> name]
  <2>1. panel' = [panel EXCEPT !.draft.settings.preset = preset, !.draft.name = name]
    BY <1>2, <1>7 DEF ChoosePreset, PanelOf
  <2>2. panel' = WithDraft(panel, draft)
    <3>1. panel.draft = [settings |-> panel.draft.settings, root |-> panel.draft.root,
                         name |-> panel.draft.name]
      BY <1>2 DEF PanelOf
    <3> HIDE DEF name
    <3>2. [panel.draft EXCEPT !.settings.preset = preset, !.name = name] = draft
      <4>1. DraftOf(panel.draft)
        BY <3>1 DEF DraftOf
      <4>2. [panel.draft EXCEPT !.settings.preset = preset, !.name = name]
              = Chosen(panel.draft, settings, name)
        BY DEF Chosen
      <4> HIDE DEF settings
      <4>3. Chosen(panel.draft, settings, name) = draft
        BY <4>1, DraftChosen
      <4> QED BY <4>2, <4>3
    <3>3. panel' = [panel EXCEPT !.draft =
                      [panel.draft EXCEPT !.settings.preset = preset, !.name = name]]
      BY <1>2, <2>1 DEF PanelOf
    <3> QED BY <3>2, <3>3 DEF WithDraft
  <2>3. DraftOf(draft) /\ draft.root = panel.draft.root
    BY DEF DraftOf
  <2>4. settings \in Settings /\ name \in Seq(Word)
    <3>1. settings \in Settings
      BY <1>2, <1>7, PresetAssumption DEF Typed, TypedAs, Settings
    <3>2. name \in Seq(Word)
      BY <1>2, FolderWord DEF Typed, TypedAs
    <3> QED BY <3>1, <3>2
  <2>5. draft.settings = settings /\ draft.name = name
    BY DEF draft
  <2> HIDE DEF draft, settings, name
  <2>6. TypedAs(draft.settings, draft.name)
    BY <2>4, <2>5 DEF TypedAs
  <2>7. /\ PanelOf(i, panel') /\ panel'.root = panel.root /\ panel'.draft = draft
        /\ panel'.settings = panel.settings /\ panel'.name = panel.name
    BY <1>2, <2>2, <2>3, PanelWithDraft
  <2> QED BY <1>2, <1>4, <2>3, <2>6, <2>7
<1>8. ASSUME NEW template \in Template, TypeTemplate(template)
      PROVE  PanelInv(panel', given)
  <2> DEFINE settings == [panel.draft.settings EXCEPT !.customTemplate = template]
             draft == [settings |-> settings, root |-> panel.draft.root, name |-> panel.draft.name]
  <2>1. panel' = WithDraft(panel, draft)
    BY <1>2, <1>8 DEF TypeTemplate, PanelOf, WithDraft
  <2>2. settings \in Settings
    BY <1>2, <1>8, TypedTemplates DEF Typed, TypedAs, Settings
  <2>3. DraftOf(draft) /\ draft.root = panel.draft.root
    BY DEF DraftOf
  <2>4. draft.settings = settings /\ draft.name = panel.draft.name
    BY DEF draft
  <2> HIDE DEF draft, settings
  <2>5. TypedAs(draft.settings, draft.name)
    BY <1>2, <2>2, <2>4 DEF Typed, TypedAs
  <2>6. /\ PanelOf(i, panel') /\ panel'.root = panel.root /\ panel'.draft = draft
        /\ panel'.settings = panel.settings /\ panel'.name = panel.name
    BY <1>2, <2>1, <2>3, PanelWithDraft
  <2> QED BY <1>2, <1>4, <2>3, <2>5, <2>6
<1>9. ASSUME NEW root \in Root, TypeRoot(root)
      PROVE  PanelInv(panel', given)
  BY <1>2, <1>4, <1>9, RootsArePaths DEF TypeRoot, PanelOf, Typed
<1>10. ASSUME NEW name \in Name, TypeName(name)
       PROVE  PanelInv(panel', given)
  BY <1>2, <1>4, <1>10, NamesAreWords DEF TypeName, PanelOf, Typed, TypedAs
<1> QED BY <1>1, <1>5, <1>6, <1>7, <1>8, <1>9, <1>10 DEF InDialog

LEMMA EditorStep == EditorInv /\ [EditorNext]_editorVars => EditorInv'
<1> SUFFICES ASSUME EditorInv, [EditorNext]_editorVars
             PROVE  EditorInv'
  OBVIOUS
<1>1. ASSUME UNCHANGED storage, panel' # None => PanelInv(panel', given)
      PROVE  EditorInv'
  <2>1. kept' = kept /\ names' = names /\ roots' = roots /\ given' = given
    BY <1>1 DEF storage
  <2> QED BY <1>1, <2>1 DEF EditorInv
<1>2. CASE UNCHANGED editorVars
  BY <1>1, <1>2 DEF editorVars, EditorInv
<1>3. ASSUME NEW i \in Issue, Show(i)
      PROVE  EditorInv'
  <2>1. PanelOf(i, panel') /\ panel'.root = roots[ProjectOf[i]]
        /\ panel'.draft.root = roots[ProjectOf[i]]
    BY <1>3 DEF Show, PanelOf
  <2>2. ProjectOf[i] \in Project
    BY ProjectOfIssue
  <2>3. Typed(panel')
    <3>1. /\ panel'.settings = kept /\ panel'.name = names[ProjectOf[i]]
          /\ panel'.draft.settings = SettingsOr(kept, InitialEditorSettings)
          /\ panel'.draft.name = names[ProjectOf[i]]
      BY <1>3 DEF Show
    <3>2. SettingsOr(kept, InitialEditorSettings) \in Settings
      BY InitialSettings DEF EditorInv, SettingsOr
    <3> QED BY <2>2, <3>1, <3>2 DEF Typed, TypedAs, EditorInv
  <2>4. PanelInv(panel', given)
    BY <2>1, <2>2, <2>3 DEF PanelInv, EditorInv
  <2> QED BY <1>1, <1>3, <2>4 DEF Show
<1>4. CASE Hide
  BY <1>1, <1>4 DEF Hide
<1>5. CASE InDialog
  BY <1>1, <1>5, DialogStep
<1>6. CASE FinishConfiguration
  <2>1. panel # None
    BY <1>6 DEF FinishConfiguration, Configuring
  <2>2. PICK i \in Issue : /\ PanelOf(i, panel)
                           /\ RootOf(ProjectOf[i], given, panel.root)
                           /\ panel.draft.root \in Path
                           /\ Typed(panel)
    BY <2>1 DEF EditorInv, PanelInv
  <2>3. ProjectOf[i] \in Project /\ panel.issue = i
    BY <2>2, ProjectOfIssue DEF PanelOf
  <2>4. PICK n \in 0 .. 3 :
          /\ Store(ProjectOf[i], panel.draft, n)
          /\ panel' = IF n < 3 THEN [panel EXCEPT !.problem = "storage"]
                      ELSE [panel EXCEPT !.settings = panel.draft.settings,
                                         !.root = panel.draft.root,
                                         !.name = panel.draft.name,
                                         !.configuring = FALSE]
    BY <1>6, <2>3 DEF FinishConfiguration
  <2>5. /\ PanelOf(i, panel') /\ panel'.draft = panel.draft
        /\ panel'.root = IF n < 3 THEN panel.root ELSE panel.draft.root
        /\ panel'.settings = IF n < 3 THEN panel.settings ELSE panel.draft.settings
        /\ panel'.name = IF n < 3 THEN panel.name ELSE panel.draft.name
    <3>1. CASE n < 3
      BY <2>2, <2>4, <3>1 DEF PanelOf
    <3>2. CASE ~(n < 3)
      <4> DEFINE d == panel.draft
      <4> DEFINE no == FALSE
      <4>1. panel' = Saved(panel, d.settings, d.root, d.name, no)
        BY <2>4, <3>2 DEF Saved
      <4> HIDE DEF no
      <4> QED BY <2>2, <3>2, <4>1, PanelSaved
    <3> QED BY <3>1, <3>2
  <2>6. TypedAs(panel.draft.settings, panel.draft.name) /\ Typed(panel')
    BY <2>2, <2>5 DEF Typed, TypedAs
  <2>7. PanelInv(panel', given')
    BY <2>2, <2>3, <2>4, <2>5, <2>6, StoreKeeps DEF PanelInv
  <2> QED BY <2>2, <2>3, <2>4, <2>6, <2>7, StoreKeeps DEF EditorInv
<1>7. ASSUME NEW i \in Issue, OtherTab(i)
      PROVE  EditorInv'
  <2>1. PICK draft \in Draft, n \in 0 .. 3 : Store(ProjectOf[i], draft, n)
    BY <1>7 DEF OtherTab
  <2>2. ProjectOf[i] \in Project /\ draft.root \in Path /\ TypedAs(draft.settings, draft.name)
    BY ProjectOfIssue, RootsArePaths, NamesAreWords, TypedTemplates, PresetAssumption
       DEF Draft, TypedAs, Settings
  <2>3. panel' = panel
    BY <1>7 DEF OtherTab
  <2>4. panel' # None => PanelInv(panel', given')
    <3>1. SUFFICES ASSUME panel # None PROVE PanelInv(panel, given')
      BY <2>3
    <3>2. PICK k \in Issue : /\ PanelOf(k, panel)
                             /\ RootOf(ProjectOf[k], given, panel.root)
                             /\ panel.draft.root \in Path
                             /\ Typed(panel)
      BY <3>1 DEF EditorInv, PanelInv
    <3>3. ProjectOf[k] \in Project
      BY ProjectOfIssue
    <3> QED BY <2>1, <2>2, <3>2, <3>3, StoreKeeps DEF PanelInv
  <2> QED BY <2>1, <2>2, <2>4, StoreKeeps DEF EditorInv
<1> QED BY <1>2, <1>3, <1>4, <1>5, <1>6, <1>7 DEF EditorNext, InDialog

\* What storage, panels and drafts hold, in every state.
THEOREM EditorInvariance == EditorSpec => []EditorInv
BY EditorInvInit, EditorStep, PTL DEF EditorSpec

----------------------------------------------------------------------------
(* Theorems.                                                               *)

\* A link leads to the absolute path of the stack trace, or below a source root that
\* was typed for this very project, for any traces, roots and tabs.
THEOREM LinksStayBelow == EditorSpec => []LinkUnderOwnRoot
<1>1. EditorInv => LinkUnderOwnRoot
  <2> SUFFICES ASSUME EditorInv, Linked
               PROVE  \/ FullPath(panel) = Source(panel.issue).path
                      \/ \E root \in given[ProjectOf[panel.issue]] : Below(root, FullPath(panel))
    BY DEF LinkUnderOwnRoot, Below
  <2>1. panel # None /\ FullPath(panel) # NoPath
    BY DEF Linked, Usable, EditorURL
  <2>2. PICK i \in Issue : PanelOf(i, panel) /\ RootOf(ProjectOf[i], given, panel.root)
    BY <2>1 DEF EditorInv, PanelInv
  <2>3. panel.issue = i /\ ProjectOf[i] \in Project
    BY <2>2, ProjectOfIssue DEF PanelOf
  <2>4. panel.root \in Path
    BY <2>2, <2>3, NoRoot DEF RootOf, EditorInv
  <2>5. Source(i).path \in Path
    BY SourcePath
  <2>6. FullPath(panel) = ResolveSourcePath(Source(i).path, panel.root)
    BY <2>3 DEF FullPath
  <2>7. \/ FullPath(panel) = Source(i).path
        \/ panel.root # <<"">> /\ Below(panel.root, FullPath(panel))
    BY <2>1, <2>4, <2>5, <2>6, ResolvedBelow
  <2> QED BY <2>2, <2>3, <2>7 DEF RootOf
<1> QED BY <1>1, EditorInvariance, PTL

\* A link is its template with each placeholder replaced once, whatever the names of
\* files, folders and projects are, for any templates that are typed.
THEOREM PlaceholdersOnce == EditorSpec => []SubstitutedOnce
<1>1. EditorInv => SubstitutedOnce
  <2> SUFFICES ASSUME EditorInv, Linked
               PROVE  EditorURL(panel).body =
                        Substituted(EditorTemplate(panel.settings),
                                    Value(FullPath(panel), Source(panel.issue), panel.name))
    BY DEF SubstitutedOnce
  <2> DEFINE path == FullPath(panel)
             source == Source(panel.issue)
             template == EditorTemplate(panel.settings)
             value == Value(path, source, panel.name)
             X == Texts \cup Word \cup {ToString(source.line), ToString(source.column)}
  <2>1. panel # None /\ panel.settings # None /\ path # NoPath
    BY DEF Linked, Usable, EditorURL
  <2>2. PICK i \in Issue : /\ PanelOf(i, panel) /\ RootOf(ProjectOf[i], given, panel.root)
                           /\ Typed(panel)
    BY <2>1 DEF EditorInv, PanelInv
  <2>3. panel.issue = i /\ ProjectOf[i] \in Project
    BY <2>2, ProjectOfIssue DEF PanelOf
  <2>4. path \in Seq(Word)
    <3>1. panel.root \in Path
      BY <2>2, <2>3, NoRoot DEF RootOf, EditorInv
    <3>2. Source(i).path \in Path
      BY SourcePath
    <3>3. path = ResolveSourcePath(Source(i).path, panel.root)
      BY <2>3 DEF FullPath
    <3> HIDE DEF path
    <3>4. path \in Path
      BY <2>1, <3>1, <3>2, <3>3, ResolvedBelow
    <3> QED BY <3>4, PathWords
  <2>5. panel.name \in Seq(Word) /\ panel.settings \in Settings
    BY <2>1, <2>2 DEF Typed
  <2>6. /\ Word \in SUBSET X /\ Texts \subseteq X /\ "/" \in X /\ "%2F" \in X
        /\ ToString(source.line) \in X /\ ToString(source.column) \in X
    BY DEF Texts
  <2>7. template.body \in Seq(Piece(X))
    <3>1. template.body \in Body
      BY <2>5, TemplateBody
    <3>2. Piece(Texts) \subseteq Piece(X)
      BY <2>6 DEF Piece
    <3> HIDE DEF template, X
    <3> QED BY <3>1, <3>2, SeqMonotonic DEF Body
  <2>8. EditorURL(panel).body = Replaced(template.body, value)
    <3>1. EditorURL(panel) = BuildEditorURL(panel.settings, path, source, panel.name)
      BY <2>1 DEF EditorURL
    <3>2. EditorURL(panel) # NoLink
      BY DEF Linked
    <3>3. EditorURL(panel) = [protocol |-> template.protocol,
                              body |-> Replaced(template.body, value)]
      BY <3>1, <3>2 DEF BuildEditorURL
    <3> QED BY <3>3
  <2> HIDE DEF path, source, template, X
  <2>9. IsValue(value, Piece(X))
    BY <2>4, <2>5, <2>6, ValueIs
  <2> HIDE DEF value
  <2>10. Replaced(template.body, value) = Substituted(template, value)
    BY <2>7, <2>9, ReplacedIsSubstituted
  <2> QED BY <2>8, <2>10 DEF path, source, template, value
<1> QED BY <1>1, EditorInvariance, PTL
=============================================================================
