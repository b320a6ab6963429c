----------------------------- MODULE SumsProofs -----------------------------
(***************************************************************************)
(* What holds of the sums of Sums, by induction over the naturals.  The    *)
(* induction theorems of the library have an operator parameter; here      *)
(* induction is stated for sets, and a property P becomes the set of the   *)
(* numbers that have it.                                                   *)
(***************************************************************************)
EXTENDS Sums, FiniteSetTheorems, NaturalsInduction, WellFoundedInduction, TLAPS

LEMMA SmallestNat ==
  ASSUME NEW T, T \subseteq Nat, T # {}
  PROVE  \E x \in T : \A y \in T : x <= y
<1>1. PICK x \in T : \A y \in T : ~ (<<y, x>> \in OpToRel(<, Nat))
  BY NatLessThanWellFounded, WFMin
<1>2. ASSUME NEW y \in T
      PROVE  x <= y
  <2>1. ~ (y < x)
    BY <1>1 DEF OpToRel
  <2> QED
    BY <2>1
<1> QED
  BY <1>2

\* Induction: a set that holds 0 and the successor of its members holds all.
LEMMA SetInduction ==
  ASSUME NEW S, 0 \in S, \A n \in Nat : n \in S => n + 1 \in S
  PROVE  Nat \subseteq S
<1> SUFFICES ASSUME Nat \ S # {}
             PROVE  FALSE
  OBVIOUS
<1>1. PICK x \in Nat \ S : \A y \in Nat \ S : x <= y
  BY SmallestNat
<1>2. x # 0 /\ x - 1 \in Nat /\ x - 1 \notin Nat \ S
  BY <1>1
<1> QED
  BY <1>1, <1>2

\* The same up to a bound.
LEMMA BoundedInduction ==
  ASSUME NEW m \in Nat, NEW S, 0 \in S, \A n \in 0 .. m - 1 : n \in S => n + 1 \in S
  PROVE  0 .. m \subseteq S
<1> DEFINE R == {n \in Nat : n <= m => n \in S}
<1>1. 0 \in R
  OBVIOUS
<1>2. \A n \in Nat : n \in R => n + 1 \in R
  OBVIOUS
<1> HIDE DEF R
<1>3. Nat \subseteq R
  BY <1>1, <1>2, SetInduction
<1> QED
  BY <1>3 DEF R
-----------------------------------------------------------------------------
\* A recursion over 0 .. n within a set of values has a solution.
Solves(f, n, V, v, step) ==
  f \in [0 .. n -> V] /\ f[0] = v /\ \A k \in 1 .. n : f[k] = step[<<k, f[k - 1]>>]

LEMMA RecursionExists ==
  ASSUME NEW n \in Nat, NEW V, NEW v \in V, NEW step \in [(1 .. n) \X V -> V]
  PROVE  \E f : Solves(f, n, V, v, step)
<1> DEFINE S == {m \in Nat : m <= n => \E f : Solves(f, m, V, v, step)}
<1>1. 0 \in S
  <2>1. Solves([k \in 0 .. 0 |-> v], 0, V, v, step)
    BY DEF Solves
  <2> QED
    BY <2>1
<1>2. ASSUME NEW m \in Nat, m \in S
      PROVE  m + 1 \in S
  <2> SUFFICES ASSUME m + 1 <= n
               PROVE  \E f : Solves(f, m + 1, V, v, step)
    OBVIOUS
  <2>1. PICK f : Solves(f, m, V, v, step)
    BY <1>2
  <2>2. PICK w \in V : w = step[<<m + 1, f[m]>>]
    BY <2>1 DEF Solves
  <2>3. PICK g : g = [k \in 0 .. m + 1 |-> IF k = m + 1 THEN w ELSE f[k]]
    OBVIOUS
  <2>4. g \in [0 .. m + 1 -> V] /\ g[0] = v
    BY <2>1, <2>3 DEF Solves
  <2>5. ASSUME NEW k \in 1 .. m + 1
        PROVE  g[k] = step[<<k, g[k - 1]>>]
    <3>1. CASE k = m + 1
      <4>1. k - 1 = m /\ k \in 0 .. m + 1 /\ k - 1 \in 0 .. m + 1 /\ k - 1 # m + 1
        BY <3>1
      <4>2. g[k] = w /\ g[k - 1] = f[m]
        BY <2>3, <3>1, <4>1
      <4> QED
        BY <2>2, <3>1, <4>2
    <3>2. CASE k # m + 1
      <4>1. k \in 1 .. m /\ k - 1 \in 0 .. m
        BY <3>2
      <4>2. f[k] = step[<<k, f[k - 1]>>]
        BY <2>1, <4>1 DEF Solves
      <4> QED
        BY <2>3, <4>1, <4>2
    <3> QED
      BY <3>1, <3>2
  <2> QED
    BY <2>4, <2>5 DEF Solves
<1> HIDE DEF S
<1>3. Nat \subseteq S
  BY <1>1, <1>2, SetInduction
<1> QED
  BY <1>3 DEF S
-----------------------------------------------------------------------------
\* The sums of the first 0, 1 .. n values of f.
IsSums(s, f, n) ==
  /\ s \in [0 .. n -> Nat] /\ s[0] = 0
  /\ \A k \in 0 .. n - 1 : s[k + 1] = s[k] + f[k]

LEMMA SumsExist ==
  ASSUME NEW n \in Nat, NEW f, \A k \in 0 .. n - 1 : f[k] \in Nat
  PROVE  \E s : IsSums(s, f, n)
<1> DEFINE S == {m \in Nat : m <= n => \E s : IsSums(s, f, m)}
<1>1. 0 \in S
  <2>1. IsSums([k \in 0 .. 0 |-> 0], f, 0)
    BY DEF IsSums
  <2> QED
    BY <2>1
<1>2. ASSUME NEW m \in Nat, m \in S
      PROVE  m + 1 \in S
  <2> SUFFICES ASSUME m + 1 <= n
               PROVE  \E s : IsSums(s, f, m + 1)
    OBVIOUS
  <2>1. PICK s : IsSums(s, f, m)
    BY <1>2
  <2>2. PICK r : r = [k \in 0 .. m + 1 |-> IF k = m + 1 THEN s[m] + f[m] ELSE s[k]]
    OBVIOUS
  <2>3. r \in [0 .. m + 1 -> Nat] /\ r[0] = 0
    BY <2>1, <2>2 DEF IsSums
  <2>4. ASSUME NEW k \in 0 .. m
        PROVE  r[k + 1] = r[k] + f[k]
    BY <2>1, <2>2 DEF IsSums
  <2>5. 0 .. (m + 1) - 1 = 0 .. m
    OBVIOUS
  <2>6. IsSums(r, f, m + 1)
    BY <2>3, <2>4, <2>5 DEF IsSums
  <2> QED
    BY <2>6
<1> HIDE DEF S
<1>3. Nat \subseteq S
  BY <1>1, <1>2, SetInduction
<1> QED
  BY <1>3 DEF S

LEMMA SumsUnique ==
  ASSUME NEW n \in Nat, NEW f, NEW g, NEW s, NEW r, IsSums(s, f, n), IsSums(r, g, n),
         \A k \in 0 .. n - 1 : f[k] = g[k]
  PROVE  \A k \in 0 .. n : s[k] = r[k]
<1> DEFINE S == {k \in 0 .. n : s[k] = r[k]}
<1>1. 0 \in S
  BY DEF IsSums
<1>2. \A k \in 0 .. n - 1 : k \in S => k + 1 \in S
  BY DEF IsSums
<1> HIDE DEF S
<1>3. 0 .. n \subseteq S
  BY <1>1, <1>2, BoundedInduction
<1> QED
  BY <1>3 DEF S

\* SumTo() is one of these sums.
LEMMA SumIsSums ==
  ASSUME NEW n \in Nat, NEW f, \A k \in 0 .. n - 1 : f[k] \in Nat
  PROVE  \E s : IsSums(s, f, n) /\ SumTo(f, n) = s[n]
<1> DEFINE Rec(s) == s = [k \in 0 .. n |-> IF k = 0 THEN 0 ELSE s[k - 1] + f[k - 1]]
           sum    == CHOOSE s : Rec(s)
<1>1. PICK s : IsSums(s, f, n)
  BY SumsExist
<1>2. Rec(s)
  <2>1. \A k \in 0 .. n : s[k] = IF k = 0 THEN 0 ELSE s[k - 1] + f[k - 1]
    <3> SUFFICES ASSUME NEW k \in 0 .. n, k # 0
                 PROVE  s[k] = s[k - 1] + f[k - 1]
      BY <1>1 DEF IsSums
    <3>1. k - 1 \in 0 .. n - 1 /\ (k - 1) + 1 = k
      OBVIOUS
    <3> QED
      BY <1>1, <3>1 DEF IsSums
  <2> QED
    BY <1>1, <2>1 DEF IsSums
<1>3. Rec(sum)
  BY <1>2
<1>4. SumTo(f, n) = sum[n]
  BY DEF SumTo
<1> HIDE DEF sum
<1>5. /\ sum[0] = 0 /\ DOMAIN sum = 0 .. n
      /\ \A k \in 0 .. n - 1 : sum[k + 1] = sum[k] + f[k]
  BY <1>3
<1>6. sum \in [0 .. n -> Nat]
  <2> DEFINE S == {k \in 0 .. n : sum[k] \in Nat}
  <2>1. 0 \in S
    BY <1>5
  <2>2. \A k \in 0 .. n - 1 : k \in S => k + 1 \in S
    BY <1>5
  <2> HIDE DEF S
  <2>3. 0 .. n \subseteq S
    BY <2>1, <2>2, BoundedInduction
  <2> QED
    BY <1>3, <2>3 DEF S
<1> QED
  BY <1>4, <1>5, <1>6 DEF IsSums
-----------------------------------------------------------------------------
LEMMA SumZero ==
  ASSUME NEW f
  PROVE  SumTo(f, 0) = 0
<1>1. PICK s : IsSums(s, f, 0) /\ SumTo(f, 0) = s[0]
  BY SumIsSums
<1> QED
  BY <1>1 DEF IsSums

LEMMA SumNat ==
  ASSUME NEW n \in Nat, NEW f, \A k \in 0 .. n - 1 : f[k] \in Nat
  PROVE  SumTo(f, n) \in Nat
<1>1. PICK s : IsSums(s, f, n) /\ SumTo(f, n) = s[n]
  BY SumIsSums
<1> QED
  BY <1>1 DEF IsSums

LEMMA SumSame ==
  ASSUME NEW n \in Nat, NEW f, NEW g, \A k \in 0 .. n - 1 : f[k] \in Nat /\ g[k] = f[k]
  PROVE  SumTo(g, n) = SumTo(f, n)
<1>1. PICK s : IsSums(s, f, n) /\ SumTo(f, n) = s[n]
  BY SumIsSums
<1>2. PICK r : IsSums(r, g, n) /\ SumTo(g, n) = r[n]
  BY SumIsSums
<1> QED
  BY <1>1, <1>2, SumsUnique

LEMMA SumNext ==
  ASSUME NEW n \in Nat, NEW f, \A k \in 0 .. n : f[k] \in Nat
  PROVE  SumTo(f, n + 1) = SumTo(f, n) + f[n]
<1>1. PICK s : IsSums(s, f, n + 1) /\ SumTo(f, n + 1) = s[n + 1]
  BY SumIsSums
<1>2. PICK r : IsSums(r, f, n) /\ SumTo(f, n) = r[n]
  BY SumIsSums
<1>3. PICK q : q = [k \in 0 .. n |-> s[k]]
  OBVIOUS
<1>4. IsSums(q, f, n)
  BY <1>1, <1>3 DEF IsSums
<1>5. q[n] = r[n]
  BY <1>2, <1>4, SumsUnique
<1> QED
  BY <1>1, <1>2, <1>3, <1>5 DEF IsSums

LEMMA SumAdded ==
  ASSUME NEW n \in Nat, NEW f, NEW g, NEW h,
         \A k \in 0 .. n - 1 : f[k] \in Nat /\ g[k] \in Nat /\ h[k] = f[k] + g[k]
  PROVE  SumTo(h, n) = SumTo(f, n) + SumTo(g, n)
<1>1. PICK s : IsSums(s, f, n) /\ SumTo(f, n) = s[n]
  BY SumIsSums
<1>2. PICK r : IsSums(r, g, n) /\ SumTo(g, n) = r[n]
  BY SumIsSums
<1>3. PICK q : IsSums(q, h, n) /\ SumTo(h, n) = q[n]
  <2>1. \A k \in 0 .. n - 1 : h[k] \in Nat
    OBVIOUS
  <2> QED
    BY <2>1, SumIsSums
<1>4. PICK p : p = [k \in 0 .. n |-> s[k] + r[k]]
  OBVIOUS
<1>5. IsSums(p, h, n)
  <2>1. p \in [0 .. n -> Nat] /\ p[0] = 0
    <3>1. \A k \in 0 .. n : s[k] \in Nat /\ r[k] \in Nat
      BY <1>1, <1>2 DEF IsSums
    <3>2. s[0] = 0 /\ r[0] = 0 /\ 0 \in 0 .. n
      BY <1>1, <1>2 DEF IsSums
    <3>3. \A k \in 0 .. n : s[k] + r[k] \in Nat
      BY <3>1
    <3>4. p \in [0 .. n -> Nat]
      BY <1>4, <3>3
    <3>5. p[0] = s[0] + r[0]
      BY <1>4, <3>2
    <3> QED
      BY <3>2, <3>4, <3>5
  <2>2. ASSUME NEW k \in 0 .. n - 1
        PROVE  p[k + 1] = p[k] + h[k]
    <3>1. k \in 0 .. n /\ k + 1 \in 0 .. n
      OBVIOUS
    <3>2. /\ p[k] = s[k] + r[k] /\ p[k + 1] = s[k + 1] + r[k + 1]
          /\ s[k] \in Nat /\ r[k] \in Nat
      BY <1>1, <1>2, <1>4, <3>1 DEF IsSums
    <3>3. s[k + 1] = s[k] + f[k] /\ r[k + 1] = r[k] + g[k]
      BY <1>1, <1>2 DEF IsSums
    <3>4. f[k] \in Nat /\ g[k] \in Nat /\ h[k] = f[k] + g[k]
      OBVIOUS
    <3>5. p[k + 1] = (s[k] + f[k]) + (r[k] + g[k]) /\ p[k] + h[k] = (s[k] + r[k]) + (f[k] + g[k])
      BY <3>2, <3>3, <3>4
    <3>6. \A a, b, c, d \in Nat : (a + c) + (b + d) = (a + b) + (c + d)
      OBVIOUS
    <3>7. (s[k] + f[k]) + (r[k] + g[k]) = (s[k] + r[k]) + (f[k] + g[k])
      BY <3>2, <3>4, <3>6
    <3> QED
      BY <3>5, <3>7
  <2> QED
    BY <2>1, <2>2 DEF IsSums
<1>6. p[n] = q[n]
  BY <1>3, <1>5, SumsUnique
<1> QED
  BY <1>1, <1>2, <1>3, <1>4, <1>6

\* Counting the members of a set is a sum.
LEMMA SumCounts ==
  ASSUME NEW n \in Nat, NEW S, NEW f, \A k \in 0 .. n - 1 : f[k] = IF k \in S THEN 1 ELSE 0
  PROVE  SumTo(f, n) = Cardinality({k \in 0 .. n - 1 : k \in S})
<1> DEFINE M(m) == {k \in 0 .. m - 1 : k \in S}
           R    == {m \in 0 .. n : SumTo(f, m) = Cardinality(M(m))}
<1>1. 0 \in R
  <2>1. M(0) = {}
    OBVIOUS
  <2> QED
    BY <2>1, SumZero, FS_EmptySet
<1>4. \A m \in 0 .. n : IsFiniteSet(M(m)) /\ Cardinality(M(m)) \in Nat
  <2> SUFFICES ASSUME NEW m \in 0 .. n
               PROVE  IsFiniteSet(M(m)) /\ Cardinality(M(m)) \in Nat
    OBVIOUS
  <2>1. IsFiniteSet(0 .. m - 1) /\ M(m) \subseteq 0 .. m - 1
    BY FS_Interval
  <2>2. IsFiniteSet(M(m))
    BY <2>1, FS_Subset
  <2> QED
    BY <2>2, FS_CardinalityType
<1>5. \A m \in 0 .. n - 1 : /\ m \notin M(m)
                            /\ M(m + 1) = IF m \in S THEN M(m) \cup {m} ELSE M(m)
  OBVIOUS
<1> HIDE DEF M
<1>2. ASSUME NEW m \in 0 .. n - 1, m \in R
      PROVE  m + 1 \in R
  <2>1. SumTo(f, m + 1) = SumTo(f, m) + f[m]
    BY SumNext
  <2>2. Cardinality(M(m + 1)) = IF m \in S THEN Cardinality(M(m)) + 1 ELSE Cardinality(M(m))
    <3>3. m \in 0 .. n
      OBVIOUS
    <3>1. /\ IsFiniteSet(M(m)) /\ m \notin M(m)
          /\ M(m + 1) = IF m \in S THEN M(m) \cup {m} ELSE M(m)
      BY <1>4, <1>5, <3>3
    <3>2. Cardinality(M(m) \cup {m}) = Cardinality(M(m)) + 1
      BY <3>1, FS_AddElement
    <3> QED
      BY <3>1, <3>2
  <2> QED
    BY <1>2, <1>4, <2>1, <2>2
<1> HIDE DEF R
<1>3. 0 .. n \subseteq R
  BY <1>1, <1>2, BoundedInduction
<1> QED
  BY <1>3 DEF R, M

\* One more for each member of a set is as many more as it has members.
LEMMA SumJoined ==
  ASSUME NEW n \in Nat, NEW S \in SUBSET (0 .. n - 1), NEW f, NEW g,
         \A k \in 0 .. n - 1 : f[k] \in Nat /\ g[k] = IF k \in S THEN f[k] + 1 ELSE f[k]
  PROVE  SumTo(g, n) = SumTo(f, n) + Cardinality(S)
<1>1. PICK e : e = [k \in 0 .. n - 1 |-> IF k \in S THEN 1 ELSE 0]
  OBVIOUS
<1>2. SumTo(g, n) = SumTo(f, n) + SumTo(e, n)
  BY <1>1, SumAdded
<1>3. SumTo(e, n) = Cardinality({k \in 0 .. n - 1 : k \in S})
  BY <1>1, SumCounts
<1>4. {k \in 0 .. n - 1 : k \in S} = S
  OBVIOUS
<1> QED
  BY <1>2, <1>3, <1>4
-----------------------------------------------------------------------------
\* The sums of natural numbers grow with every number added.
LEMMA SumGrows ==
  ASSUME NEW n \in Nat, NEW f, \A k \in 0 .. n - 1 : f[k] \in Nat, NEW j \in 0 .. n
  PROVE  SumTo(f, j) \in Nat /\ SumTo(f, j) <= SumTo(f, n)
<1> DEFINE S == {m \in Nat : j + m <= n => SumTo(f, j) <= SumTo(f, j + m)}
<1>1. \A h \in 0 .. n : SumTo(f, h) \in Nat
  BY SumNat
<1>2. 0 \in S
  BY <1>1
<1>3. ASSUME NEW m \in Nat, m \in S
      PROVE  m + 1 \in S
  <2> SUFFICES ASSUME j + (m + 1) <= n
               PROVE  SumTo(f, j) <= SumTo(f, j + (m + 1))
    OBVIOUS
  <2>1. PICK p \in Nat : p = j + m /\ p + 1 = j + (m + 1) /\ p < n
    OBVIOUS
  <2>2. SumTo(f, p + 1) = SumTo(f, p) + f[p]
    BY <2>1, SumNext
  <2>3. SumTo(f, j) <= SumTo(f, p) /\ f[p] \in Nat
    BY <1>3, <2>1
  <2>4. SumTo(f, j) \in Nat /\ SumTo(f, p) \in Nat
    BY <1>1, <2>1
  <2> QED
    BY <2>1, <2>2, <2>3, <2>4
<1> HIDE DEF S
<1>4. Nat \subseteq S
  BY <1>2, <1>3, SetInduction
<1> USE DEF S
<1>5. n - j \in S /\ j + (n - j) = n
  BY <1>4
<1> QED
  BY <1>1, <1>5

\* n times the same number.
LEMMA SumUniform ==
  ASSUME NEW n \in Nat, NEW c \in Nat, NEW f, \A k \in 0 .. n - 1 : f[k] = c
  PROVE  SumTo(f, n) = n * c
<1> DEFINE S == {m \in 0 .. n : SumTo(f, m) = m * c}
<1>1. 0 \in S
  BY SumZero
<1>2. ASSUME NEW m \in 0 .. n - 1, m \in S
      PROVE  m + 1 \in S
  <2>1. SumTo(f, m + 1) = SumTo(f, m) + f[m]
    BY SumNext
  <2>2. (m + 1) * c = m * c + c
    OBVIOUS
  <2> QED
    BY <1>2, <2>1, <2>2
<1> HIDE DEF S
<1>3. 0 .. n \subseteq S
  BY <1>1, <1>2, BoundedInduction
<1> USE DEF S
<1> QED
  BY <1>3

\* n times the same two numbers in turn.
Alternates(f, n, c, d) ==
  \A k \in 0 .. 2 * n - 1 : f[k] = IF k % 2 = 0 THEN c ELSE d

LEMMA SumPairs ==
  ASSUME NEW n \in Nat, NEW c \in Nat, NEW d \in Nat, NEW f, Alternates(f, n, c, d)
  PROVE  SumTo(f, 2 * n) = n * (c + d)
<1> USE DEF Alternates
<1> DEFINE S == {m \in 0 .. n : SumTo(f, 2 * m) = m * (c + d)}
<1>1. 0 \in S
  BY SumZero
<1>2. ASSUME NEW m \in 0 .. n - 1, m \in S
      PROVE  m + 1 \in S
  <2>1. 2 * m \in 0 .. 2 * n - 1 /\ 2 * m + 1 \in 0 .. 2 * n - 1
    OBVIOUS
  <2>2. (2 * m) % 2 = 0 /\ (2 * m + 1) % 2 = 1
    OBVIOUS
  <2>3. f[2 * m] = c /\ f[2 * m + 1] = d
    BY <2>1, <2>2
  <2>4. \A k \in 0 .. 2 * n - 1 : f[k] \in Nat
    OBVIOUS
  <2>5. SumTo(f, 2 * m + 1) = SumTo(f, 2 * m) + c
    BY <2>1, <2>3, <2>4, SumNext
  <2>6. SumTo(f, 2 * m + 1 + 1) = SumTo(f, 2 * m + 1) + d
    BY <2>1, <2>3, <2>4, SumNext
  <2>7. (m + 1) * (c + d) = m * (c + d) + c + d /\ 2 * (m + 1) = 2 * m + 1 + 1
    OBVIOUS
  <2>8. m * (c + d) \in Nat
    OBVIOUS
  <2> QED
    BY <1>2, <2>5, <2>6, <2>7, <2>8
<1> HIDE DEF S
<1>3. 0 .. n \subseteq S
  BY <1>1, <1>2, BoundedInduction
<1> USE DEF S
<1> QED
  BY <1>3

(* One of the values is w larger.                                           *)
LEMMA SumPoint ==
  ASSUME NEW n \in Nat, NEW a \in 0 .. n - 1, NEW w \in Nat, NEW f, NEW g,
         \A k \in 0 .. n - 1 : f[k] \in Nat,
         g[a] = f[a] + w, \A k \in (0 .. n - 1) \ {a} : g[k] = f[k]
  PROVE  SumTo(g, n) = SumTo(f, n) + w
<1>1. PICK d : d = [k \in 0 .. n - 1 |-> IF k = a THEN w ELSE 0]
  OBVIOUS
<1>2. \A k \in 0 .. n - 1 : d[k] = (IF k = a THEN w ELSE 0) /\ d[k] \in Nat
  BY <1>1
<1>3. SumTo(g, n) = SumTo(f, n) + SumTo(d, n)
  BY <1>2, SumAdded
<1> DEFINE S == {m \in 0 .. n : SumTo(d, m) = IF m <= a THEN 0 ELSE w}
<1>4. 0 \in S
  BY SumZero
<1>5. ASSUME NEW m \in 0 .. n - 1, m \in S
      PROVE  m + 1 \in S
  <2>1. \A k \in 0 .. m : d[k] \in Nat
    BY <1>2
  <2>2. SumTo(d, m + 1) = SumTo(d, m) + d[m]
    BY <2>1, SumNext
  <2> QED
    BY <1>2, <1>5, <2>2
<1> HIDE DEF S
<1>6. 0 .. n \subseteq S
  BY <1>4, <1>5, BoundedInduction
<1> USE DEF S
<1>7. SumTo(d, n) = w
  BY <1>6
<1> QED
  BY <1>3, <1>7
=============================================================================
