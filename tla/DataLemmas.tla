------------------------------ MODULE DataLemmas ------------------------------
(***************************************************************************)
(* Facts about naturals and sequences that the other proof modules cite:   *)
(* the least element (the lowest free id, the first free slot, the next    *)
(* victim), a sequence without one of its elements or with one more, and   *)
(* functions defined by iteration.  An argument by induction over naturals *)
(* takes the least one for which the claim fails.                          *)
(***************************************************************************)
EXTENDS Integers, SequencesExt, FiniteSetsExt, SequenceTheorems, WellFoundedInduction, TLAPS

\* x is b times its quotient and a remainder below b.
LEMMA QuotientIs ==
  ASSUME NEW x \in Nat, NEW b \in Nat \ {0}
  PROVE  x \div b \in Nat /\ x % b \in 0 .. (b - 1) /\ x = b * (x \div b) + (x % b)
OBVIOUS

\* ... which are the only ones.
LEMMA QuotientOnly ==
  ASSUME NEW b \in Nat \ {0}, NEW p \in Nat, NEW q \in Nat, NEW r \in 0 .. (b - 1), NEW s \in 0 .. (b - 1)
  PROVE  b * p + r < b * q + s <=> p < q \/ (p = q /\ r < s)
<1>1. ASSUME NEW u \in Nat, NEW v \in Nat, u < v PROVE b * u + b <= b * v
  <2>1. PICK d \in Nat : v = (u + 1) + d
    <3>1. v - (u + 1) \in Nat /\ v = (u + 1) + (v - (u + 1))
      BY <1>1
    <3> QED BY <3>1
  <2>2. b * v = (b * u + b) + b * d
    BY <2>1
  <2>3. b * d \in Nat /\ b * u \in Nat
    OBVIOUS
  <2> QED BY <2>2, <2>3
<1>2. b * p \in Nat /\ b * q \in Nat
  OBVIOUS
<1>3. CASE p < q
  <2>1. b * p + b <= b * q
    BY <1>1, <1>3
  <2> QED BY <1>2, <1>3, <2>1
<1>4. CASE q < p
  <2>1. b * q + b <= b * p
    BY <1>1, <1>4
  <2> QED BY <1>2, <1>4, <2>1
<1>5. CASE p = q
  BY <1>2, <1>5
<1> QED BY <1>3, <1>4, <1>5

\* A set of naturals that is not empty has a least element.
LEMMA LeastNat ==
  ASSUME NEW T, T \subseteq Nat, T # {}
  PROVE  Min(T) \in T /\ \A y \in T : Min(T) <= y
<1> DEFINE R == OpToRel(<, Nat)
<1>1. \E x \in T : \A y \in T : ~ (<<y, x>> \in R)
  BY NatLessThanWellFounded, WFMin
<1>2. ASSUME NEW x \in Nat, NEW y \in Nat, y < x
      PROVE  <<y, x>> \in R
  BY <1>2 DEF OpToRel
<1> HIDE DEF R
<1>3. \E x \in T : \A y \in T : x <= y
  <2>1. PICK x \in T : \A y \in T : ~ (<<y, x>> \in R)
    BY <1>1
  <2>2. ASSUME NEW y \in T PROVE x <= y
    <3>1. x \in Nat /\ y \in Nat /\ <<y, x>> \notin R
      BY <2>1
    <3>2. ~ (y < x)
      BY <3>1, <1>2
    <3> QED BY <3>1, <3>2
  <2> QED BY <2>2
<1> QED BY <1>3 DEF Min

\* A set of naturals with an upper bound that is not empty has a greatest one.
LEMMA GreatestNat ==
  ASSUME NEW T, T \subseteq Nat, T # {}, NEW N \in Nat, \A y \in T : y <= N
  PROVE  Max(T) \in T /\ \A y \in T : y <= Max(T)
<1> DEFINE D == {N - y : y \in T}
<1>1. D \subseteq Nat /\ D # {}
  <2>1. \A y \in T : N - y \in Nat
    OBVIOUS
  <2> QED BY <2>1
<1>2. Min(D) \in D /\ \A d \in D : Min(D) <= d
  BY <1>1, LeastNat
<1>3. PICK m \in T : Min(D) = N - m
  BY <1>2
<1>4. \A y \in T : m >= y
  BY <1>2, <1>3
<1> QED BY <1>4 DEF Max

-----------------------------------------------------------------------------
\* A sequence without its m-th element.
LEMMA RemoveAtFacts ==
  ASSUME NEW S, NEW s \in Seq(S), NEW m \in 1 .. Len(s)
  PROVE  /\ RemoveAt(s, m) \in Seq(S)
         /\ Len(RemoveAt(s, m)) = Len(s) - 1
         /\ \A i \in 1 .. (Len(s) - 1) : RemoveAt(s, m)[i] = IF i < m THEN s[i] ELSE s[i + 1]
<1> DEFINE l == SubSeq(s, 1, m - 1)
           r == SubSeq(s, m + 1, Len(s))
<1>1. Len(s) \in Nat /\ m \in Int /\ \A i \in 1 .. Len(s) : s[i] \in S
  OBVIOUS
<1>2. /\ l \in Seq(S) /\ Len(l) = m - 1
      /\ \A i \in 1 .. (m - 1) : l[i] = s[i]
  <2>1. \A i \in 1 .. (m - 1) : s[i] \in S
    BY <1>1
  <2>2. /\ l \in Seq(S) /\ Len(l) = IF 1 <= m - 1 THEN m - 1 - 1 + 1 ELSE 0
        /\ \A i \in 1 .. (m - 1 - 1 + 1) : l[i] = s[1 + i - 1]
    BY ONLY <1>1, <2>1, m - 1 \in Int, 1 \in Int, SubSeqProperties
  <2> QED BY <1>1, <2>2
<1>3. /\ r \in Seq(S) /\ Len(r) = Len(s) - m
      /\ \A i \in 1 .. (Len(s) - m) : r[i] = s[m + i]
  <2>1. \A i \in (m + 1) .. Len(s) : s[i] \in S
    BY <1>1
  <2>2. /\ r \in Seq(S) /\ Len(r) = IF m + 1 <= Len(s) THEN Len(s) - (m + 1) + 1 ELSE 0
        /\ \A i \in 1 .. (Len(s) - (m + 1) + 1) : r[i] = s[m + 1 + i - 1]
    BY ONLY <1>1, <2>1, m + 1 \in Int, Len(s) \in Int, SubSeqProperties
  <2> QED BY <1>1, <2>2
<1> HIDE DEF l, r
<1>4. /\ l \o r \in Seq(S) /\ Len(l \o r) = Len(l) + Len(r)
      /\ \A i \in 1 .. (Len(l) + Len(r)) :
           (l \o r)[i] = IF i <= Len(l) THEN l[i] ELSE r[i - Len(l)]
  BY ONLY <1>2, <1>3, ConcatProperties
<1>5. RemoveAt(s, m) = l \o r
  BY DEF RemoveAt, l, r
<1>6. ASSUME NEW i \in 1 .. (Len(s) - 1)
      PROVE  (l \o r)[i] = IF i < m THEN s[i] ELSE s[i + 1]
  <2>1. CASE i < m
    BY <2>1, <1>1, <1>2, <1>3, <1>4
  <2>2. CASE i >= m
    <3>1. (l \o r)[i] = r[i - (m - 1)] /\ i - (m - 1) \in 1 .. (Len(s) - m)
      BY <2>2, <1>1, <1>2, <1>3, <1>4
    <3>2. r[i - (m - 1)] = s[m + (i - (m - 1))]
      BY <3>1, <1>3
    <3>3. m + (i - (m - 1)) = i + 1
      BY <1>1
    <3>4. ~ (i < m)
      BY <2>2, <1>1
    <3> QED BY ONLY <3>1, <3>2, <3>3, <3>4
  <2>3. i < m \/ i >= m
    BY <1>1
  <2> QED BY ONLY <2>1, <2>2, <2>3
<1>7. Len(l) + Len(r) = Len(s) - 1
  BY <1>1, <1>2, <1>3
<1>8. Len(l \o r) = Len(s) - 1
  BY ONLY <1>4, <1>7
<1> QED BY ONLY <1>4, <1>5, <1>6, <1>8

\* A sequence with one more element at position m.
LEMMA InsertAtFacts ==
  ASSUME NEW S, NEW s \in Seq(S), NEW m \in 1 .. (Len(s) + 1), NEW e \in S
  PROVE  /\ InsertAt(s, m, e) \in Seq(S)
         /\ Len(InsertAt(s, m, e)) = Len(s) + 1
         /\ \A i \in 1 .. (Len(s) + 1) :
              InsertAt(s, m, e)[i] = IF i < m THEN s[i] ELSE IF i = m THEN e ELSE s[i - 1]
<1> DEFINE l == SubSeq(s, 1, m - 1)
           r == SubSeq(s, m, Len(s))
           h == <<e>>
           t == InsertAt(s, m, e)
<1>1. Len(s) \in Nat /\ m \in Int /\ \A i \in 1 .. Len(s) : s[i] \in S
  OBVIOUS
<1>2. /\ l \in Seq(S) /\ Len(l) = m - 1
      /\ \A i \in 1 .. (m - 1) : l[i] = s[i]
  <2>1. \A i \in 1 .. (m - 1) : s[i] \in S
    BY <1>1
  <2>2. /\ l \in Seq(S) /\ Len(l) = IF 1 <= m - 1 THEN m - 1 - 1 + 1 ELSE 0
        /\ \A i \in 1 .. (m - 1 - 1 + 1) : l[i] = s[1 + i - 1]
    BY ONLY <1>1, <2>1, m - 1 \in Int, 1 \in Int, SubSeqProperties
  <2> QED BY <1>1, <2>2
<1>3. /\ r \in Seq(S) /\ Len(r) = Len(s) - m + 1
      /\ \A i \in 1 .. (Len(s) - m + 1) : r[i] = s[m + i - 1]
  <2>1. \A i \in m .. Len(s) : s[i] \in S
    BY <1>1
  <2>2. /\ r \in Seq(S) /\ Len(r) = IF m <= Len(s) THEN Len(s) - m + 1 ELSE 0
        /\ \A i \in 1 .. (Len(s) - m + 1) : r[i] = s[m + i - 1]
    BY ONLY <1>1, <2>1, Len(s) \in Int, SubSeqProperties
  <2> QED BY <1>1, <2>2
<1>4. h \in Seq(S) /\ Len(h) = 1 /\ h[1] = e
  OBVIOUS
<1>5. t = (l \o h) \o r
  BY DEF InsertAt
<1> HIDE DEF l, r, h, t
<1>6. /\ l \o h \in Seq(S) /\ Len(l \o h) = Len(l) + Len(h)
      /\ \A i \in 1 .. (Len(l) + Len(h)) :
           (l \o h)[i] = IF i <= Len(l) THEN l[i] ELSE h[i - Len(l)]
  BY ONLY <1>2, <1>4, ConcatProperties
<1> DEFINE lh == l \o h
<1>7. /\ lh \in Seq(S) /\ Len(lh) = m
      /\ \A i \in 1 .. (m - 1) : lh[i] = s[i]
      /\ lh[m] = e
  <2>1. lh \in Seq(S) /\ Len(lh) = m
    BY <1>1, <1>2, <1>4, <1>6
  <2>2. ASSUME NEW i \in 1 .. (m - 1) PROVE lh[i] = s[i]
    <3>1. i \in 1 .. (Len(l) + Len(h)) /\ i <= Len(l)
      BY <1>1, <1>2, <1>4
    <3> QED BY <3>1, <1>2, <1>6
  <2>3. lh[m] = e
    <3>1. m \in 1 .. (Len(l) + Len(h)) /\ ~ (m <= Len(l)) /\ m - Len(l) = 1
      BY <1>1, <1>2, <1>4
    <3> QED BY <3>1, <1>4, <1>6
  <2> QED BY <2>1, <2>2, <2>3
<1> HIDE DEF lh
<1>8. /\ lh \o r \in Seq(S) /\ Len(lh \o r) = Len(lh) + Len(r)
      /\ \A i \in 1 .. (Len(lh) + Len(r)) :
           (lh \o r)[i] = IF i <= Len(lh) THEN lh[i] ELSE r[i - Len(lh)]
  BY ONLY <1>3, <1>7, ConcatProperties
<1>9. t = lh \o r
  BY <1>5 DEF lh
<1>10. Len(lh) + Len(r) = Len(s) + 1
  BY <1>1, <1>3, <1>7
<1>11. ASSUME NEW i \in 1 .. (Len(s) + 1)
       PROVE  t[i] = IF i < m THEN s[i] ELSE IF i = m THEN e ELSE s[i - 1]
  <2>1. CASE i <= m
    <3>1. t[i] = lh[i]
      BY <2>1, <1>7, <1>8, <1>9, <1>10
    <3> QED BY <2>1, <3>1, <1>1, <1>7
  <2>2. CASE i > m
    <3>1. t[i] = r[i - m] /\ i - m \in 1 .. (Len(s) - m + 1)
      BY <2>2, <1>1, <1>7, <1>8, <1>9, <1>10
    <3>2. r[i - m] = s[m + (i - m) - 1]
      BY <3>1, <1>3
    <3>3. m + (i - m) - 1 = i - 1 /\ ~ (i < m) /\ i # m
      BY <2>2, <1>1
    <3> QED BY ONLY <3>1, <3>2, <3>3
  <2>3. i <= m \/ i > m
    BY <1>1
  <2> QED BY ONLY <2>1, <2>2, <2>3
<1>12. t \in Seq(S) /\ Len(t) = Len(s) + 1
  BY ONLY <1>8, <1>9, <1>10
<1> QED BY <1>11, <1>12 DEF t

\* A sequence with one more element in front.
LEMMA ConsAt ==
  ASSUME NEW S, NEW s \in Seq(S), NEW f \in S
  PROVE  /\ Cons(f, s) \in Seq(S)
         /\ Len(Cons(f, s)) = Len(s) + 1
         /\ Cons(f, s)[1] = f
         /\ \A i \in 1 .. Len(s) : Cons(f, s)[i + 1] = s[i]
<1> DEFINE h == <<f>>
           c == Cons(f, s)
<1>1. h \in Seq(S) /\ Len(h) = 1 /\ h[1] = f
  OBVIOUS
<1>2. c = h \o s
  BY DEF Cons
<1> HIDE DEF h, c
<1>3. /\ c \in Seq(S) /\ Len(c) = Len(h) + Len(s)
      /\ \A i \in 1 .. (Len(h) + Len(s)) : c[i] = IF i <= Len(h) THEN h[i] ELSE s[i - Len(h)]
  BY ONLY <1>1, <1>2, s \in Seq(S), ConcatProperties
<1>4. Len(s) \in Nat
  OBVIOUS
<1>5. c[1] = f /\ Len(c) = Len(s) + 1
  BY <1>1, <1>3, <1>4
<1>6. ASSUME NEW i \in 1 .. Len(s) PROVE c[i + 1] = s[i]
  <2>1. i + 1 \in 1 .. (Len(h) + Len(s)) /\ ~ (i + 1 <= Len(h)) /\ (i + 1) - Len(h) = i
    BY <1>1, <1>4
  <2> QED BY <2>1, <1>3
<1> QED BY <1>3, <1>5, <1>6 DEF c

-----------------------------------------------------------------------------
\* f starts with x and takes N steps, the k-th by step[k].
Iterates(f, S, N, x, step) ==
  /\ f \in [0 .. N -> S]
  /\ f[0] = x
  /\ \A k \in 1 .. N : f[k] = step[k][f[k - 1]]

Iteration(S, N, x, step) == CHOOSE f : Iterates(f, S, N, x, step)

\* There is such a function.
LEMMA IterationExists ==
  ASSUME NEW S, NEW N \in Nat, NEW x \in S, NEW step \in [1 .. N -> [S -> S]]
  PROVE  Iterates(Iteration(S, N, x, step), S, N, x, step)
<1> SUFFICES \E f : Iterates(f, S, N, x, step)
  BY DEF Iteration
<1> USE DEF Iterates
<1> DEFINE Upto(n, f) == Iterates(f, S, n, x, step)
           Bad == {n \in 0 .. N : ~ \E f : Upto(n, f)}
<1>1. CASE Bad = {}
  BY <1>1
<1>2. CASE Bad # {}
  <2> DEFINE n == Min(Bad)
  <2>1. n \in Bad /\ \A y \in Bad : n <= y
    <3>1. Bad \subseteq Nat
      OBVIOUS
    <3> HIDE DEF Bad
    <3> QED BY <3>1, <1>2, LeastNat
  <2>2. n # 0
    <3>1. Upto(0, [k \in 0 .. 0 |-> x])
      OBVIOUS
    <3> QED BY <3>1, <2>1
  <2>3. n \in 1 .. N /\ n - 1 \in 0 .. N /\ n - 1 \notin Bad
    <3>1. n \in 0 .. N
      BY <2>1
    <3> HIDE DEF n, Bad
    <3>2. n \in 1 .. N /\ n - 1 \in 0 .. N /\ ~ (n <= n - 1)
      BY <3>1, <2>2
    <3> QED BY ONLY <3>2, <2>1
  <2>4. PICK f : Upto(n - 1, f)
    BY <2>3
  <2> HIDE DEF n
  <2> DEFINE g == [k \in 0 .. n |-> IF k = n THEN step[n][f[n - 1]] ELSE f[k]]
  <2>5. f[n - 1] \in S
    BY <2>3, <2>4
  <2>6. step[n][f[n - 1]] \in S
    BY <2>3, <2>5
  <2>7. Upto(n, g)
    <3>1. g \in [0 .. n -> S]
      BY <2>3, <2>4, <2>6
    <3>2. g[0] = x
      BY <2>3, <2>4
    <3>3. ASSUME NEW k \in 1 .. n PROVE g[k] = step[k][g[k - 1]]
      BY <2>3, <2>4
    <3> QED BY <3>1, <3>2, <3>3
  <2> QED BY <2>7, <2>1 DEF n
<1> QED BY <1>1, <1>2

-----------------------------------------------------------------------------
\* What holds of 1 and passes from each level to the next holds up to N.
LEMMA Upward ==
  ASSUME NEW N \in Nat, NEW T, N > 0 => 1 \in T, \A l \in 1 .. (N - 1) : l \in T => l + 1 \in T
  PROVE  1 .. N \subseteq T
<1> DEFINE Bad == {l \in 1 .. N : l \notin T}
           b == Min(Bad)
<1>1. SUFFICES ASSUME Bad # {} PROVE FALSE
  OBVIOUS
<1>2. b \in Bad /\ \A y \in Bad : b <= y
  <2>1. Bad \subseteq Nat
    OBVIOUS
  <2> HIDE DEF Bad
  <2> QED BY <1>1, <2>1, LeastNat
<1> HIDE DEF b
<1>3. b \in 1 .. N /\ b \notin T /\ b # 1
  BY <1>2
<1>4. b - 1 \in 1 .. (N - 1) /\ ~ (b <= b - 1) /\ (b - 1) + 1 = b /\ b - 1 \in 1 .. N
  BY <1>3
<1>5. b - 1 \in T
  BY <1>2, <1>4
<1> QED BY <1>3, <1>4, <1>5

\* The same from N down.
LEMMA Downward ==
  ASSUME NEW N \in Nat, NEW T, N > 0 => N \in T, \A l \in 1 .. (N - 1) : l + 1 \in T => l \in T
  PROVE  1 .. N \subseteq T
<1> DEFINE U == {l \in 1 .. N : (N + 1) - l \in T}
<1>1. N > 0 => 1 \in U
  OBVIOUS
<1>2. ASSUME NEW l \in 1 .. (N - 1), l \in U PROVE l + 1 \in U
  <2>1. N - l \in 1 .. (N - 1) /\ (N - l) + 1 = (N + 1) - l /\ (N + 1) - (l + 1) = N - l /\ l + 1 \in 1 .. N
    OBVIOUS
  <2> QED BY <2>1, <1>2
<1> HIDE DEF U
<1>3. 1 .. N \subseteq U
  BY <1>1, <1>2, Upward
<1>4. ASSUME NEW l \in 1 .. N PROVE l \in T
  <2>1. (N + 1) - l \in 1 .. N /\ (N + 1) - ((N + 1) - l) = l
    OBVIOUS
  <2>2. (N + 1) - l \in U
    BY <2>1, <1>3
  <2> QED BY <2>1, <2>2 DEF U
<1> QED BY <1>4

\* A function defined from level 1 up, each value from the one before: the
\* values of level l are in G[l].
Rises(N, S, G, x, step) ==
  /\ N \in Nat /\ x \in S /\ \A l \in 1 .. N : G[l] \subseteq S
  /\ N > 0 => x \in G[1]
  /\ \A l \in 2 .. N : \A s \in G[l - 1] : step[l][s] \in G[l]

LEMMA Ascent ==
  ASSUME NEW N, NEW S, NEW G, NEW x, NEW step, Rises(N, S, G, x, step)
  PROVE  \E f \in [1 .. N -> S] :
           \A l \in 1 .. N : f[l] = (IF l = 1 THEN x ELSE step[l][f[l - 1]]) /\ f[l] \in G[l]
<1> USE DEF Rises
<1> DEFINE M == IF N = 0 THEN 0 ELSE N - 1
           next == [j \in 1 .. M |-> [s \in S |-> IF s \in G[j] THEN step[j + 1][s] ELSE s]]
           g == Iteration(S, M, x, next)
           f == [l \in 1 .. N |-> g[l - 1]]
<1>1. M \in Nat /\ (N > 0 => M = N - 1)
  OBVIOUS
<1> HIDE DEF M
<1>2. ASSUME NEW j \in 1 .. M, NEW s \in S PROVE (IF s \in G[j] THEN step[j + 1][s] ELSE s) \in S
  <2>1. j + 1 \in 2 .. N /\ (j + 1) - 1 = j /\ j + 1 \in 1 .. N
    BY <1>1 DEF M
  <2>2. s \in G[j] => step[j + 1][s] \in G[j + 1]
    BY <2>1
  <2> QED BY <2>1, <2>2
<1>3. next \in [1 .. M -> [S -> S]]
  BY <1>2
<1> HIDE DEF next
<1>4. Iterates(g, S, M, x, next)
  BY ONLY <1>1, <1>3, x \in S, IterationExists
<1>5. g \in [0 .. M -> S] /\ g[0] = x /\ \A j \in 1 .. M : g[j] = next[j][g[j - 1]]
  BY <1>4 DEF Iterates
<1> HIDE DEF g
<1>6. ASSUME NEW j \in 1 .. M, g[j - 1] \in G[j] PROVE g[j] = step[j + 1][g[j - 1]] /\ g[j] \in G[j + 1]
  <2>1. j + 1 \in 2 .. N /\ (j + 1) - 1 = j /\ j - 1 \in 0 .. M
    BY <1>1 DEF M
  <2>2. g[j - 1] \in S
    BY <2>1, <1>5
  <2>3. g[j] = step[j + 1][g[j - 1]]
    BY <2>2, <1>5, <1>6 DEF next
  <2> QED BY <2>1, <2>3, <1>6
<1> DEFINE T == {l \in 1 .. N : f[l] \in G[l]}
<1>7. 1 .. N \subseteq T
  <2>1. N > 0 => 1 \in T
    BY <1>5
  <2>2. ASSUME NEW l \in 1 .. (N - 1), l \in T PROVE l + 1 \in T
    <3>1. l \in 1 .. M /\ l + 1 \in 1 .. N /\ (l + 1) - 1 = l /\ f[l + 1] = g[l] /\ f[l] = g[l - 1]
      BY <1>1
    <3> QED BY <3>1, <1>6, <2>2
  <2> HIDE DEF T
  <2> QED BY <2>1, <2>2, Upward
<1>8. \A l \in 1 .. N : f[l] \in G[l]
  BY <1>7
<1>9. ASSUME NEW l \in 1 .. N PROVE f[l] = IF l = 1 THEN x ELSE step[l][f[l - 1]]
  <2>1. CASE l = 1
    BY <2>1, <1>5
  <2>2. CASE l # 1
    <3>1. l - 1 \in 1 .. M /\ l - 1 \in 1 .. N /\ (l - 1) + 1 = l /\ f[l - 1] = g[(l - 1) - 1] /\ f[l] = g[l - 1]
      BY <2>2, <1>1
    <3>2. g[(l - 1) - 1] \in G[l - 1]
      BY <3>1, <1>8
    <3> HIDE DEF f
    <3>3. g[l - 1] = step[(l - 1) + 1][g[(l - 1) - 1]]
      BY <3>1, <3>2, <1>6
    <3> QED BY <2>2, <3>1, <3>3
  <2> QED BY <2>1, <2>2
<1>10. f \in [1 .. N -> S]
  BY <1>8
<1> HIDE DEF f
<1> QED BY <1>8, <1>9, <1>10

\* The same from level N down.
Falls(N, S, G, x, step) ==
  /\ N \in Nat /\ x \in S /\ \A l \in 1 .. N : G[l] \subseteq S
  /\ N > 0 => x \in G[N]
  /\ \A l \in 1 .. (N - 1) : \A s \in G[l + 1] : step[l][s] \in G[l]

LEMMA Descent ==
  ASSUME NEW N, NEW S, NEW G, NEW x, NEW step, Falls(N, S, G, x, step)
  PROVE  \E f \in [1 .. N -> S] :
           \A l \in 1 .. N : f[l] = (IF l = N THEN x ELSE step[l][f[l + 1]]) /\ f[l] \in G[l]
<1> USE DEF Falls
<1> DEFINE H == [l \in 1 .. N |-> G[(N + 1) - l]]
           up == [l \in 1 .. N |-> step[(N + 1) - l]]
<1>1. \A l \in 1 .. N : (N + 1) - l \in 1 .. N /\ (N + 1) - ((N + 1) - l) = l
  OBVIOUS
<1>2. \A l \in 1 .. N : H[l] \subseteq S
  BY <1>1
<1>3. N > 0 => x \in H[1]
  OBVIOUS
<1>4. ASSUME NEW l \in 2 .. N, NEW s \in H[l - 1] PROVE up[l][s] \in H[l]
  <2>1. l \in 1 .. N /\ l - 1 \in 1 .. N /\ (N + 1) - l \in 1 .. (N - 1) /\ ((N + 1) - l) + 1 = (N + 1) - (l - 1)
    OBVIOUS
  <2>2. s \in G[((N + 1) - l) + 1]
    BY <2>1, <1>4
  <2> QED BY <2>1, <2>2
<1>5. \E g \in [1 .. N -> S] :
         \A l \in 1 .. N : g[l] = (IF l = 1 THEN x ELSE up[l][g[l - 1]]) /\ g[l] \in H[l]
  <2>1. Rises(N, S, H, x, up)
    <3> HIDE DEF H, up
    <3> QED BY <1>2, <1>3, <1>4 DEF Rises
  <2> HIDE DEF H, up
  <2> QED BY ONLY <2>1, Ascent
<1>6. PICK g \in [1 .. N -> S] :
         \A l \in 1 .. N : g[l] = (IF l = 1 THEN x ELSE up[l][g[l - 1]]) /\ g[l] \in H[l]
  BY <1>5
<1> DEFINE f == [l \in 1 .. N |-> g[(N + 1) - l]]
<1>7. \A l \in 1 .. N : f[l] \in G[l]
  BY <1>1, <1>6
<1>8. ASSUME NEW l \in 1 .. N PROVE f[l] = IF l = N THEN x ELSE step[l][f[l + 1]]
  <2> DEFINE j == (N + 1) - l
  <2>1. j \in 1 .. N /\ (N + 1) - j = l /\ (j = 1 <=> l = N) /\ f[l] = g[j]
    OBVIOUS
  <2>2. g[j] = IF j = 1 THEN x ELSE up[j][g[j - 1]]
    BY <2>1, <1>6
  <2>3. up[j] = step[l]
    BY <2>1
  <2>4. l # N => f[l + 1] = g[j - 1]
    <3>1. l # N => l + 1 \in 1 .. N /\ (N + 1) - (l + 1) = j - 1
      OBVIOUS
    <3> QED BY <3>1
  <2> HIDE DEF f, j, up
  <2> QED BY <2>1, <2>2, <2>3, <2>4
<1>9. f \in [1 .. N -> S]
  BY <1>7
<1> HIDE DEF f
<1> QED BY <1>7, <1>8, <1>9

-----------------------------------------------------------------------------
\* The same two facts about loops that start with level 0.
LEMMA Throughout ==
  ASSUME NEW N \in Nat, NEW T, 0 \in T, \A l \in 1 .. N : l - 1 \in T => l \in T
  PROVE  \A l \in 0 .. N : l \in T
<1>1. N > 0 => 1 \in T
  OBVIOUS
<1>2. ASSUME NEW l \in 1 .. (N - 1), l \in T PROVE l + 1 \in T
  <2>1. l + 1 \in 1 .. N /\ (l + 1) - 1 = l
    OBVIOUS
  <2> QED BY <2>1, <1>2
<1>3. 1 .. N \subseteq T
  BY <1>1, <1>2, Upward
<1>4. \A l \in 0 .. N : l = 0 \/ l \in 1 .. N
  OBVIOUS
<1> QED BY <1>3, <1>4

Stays(N, S, G, x, step) ==
  /\ N \in Nat /\ \A l \in 0 .. N : G[l] \subseteq S
  /\ x \in G[0]
  /\ \A l \in 1 .. N : \A s \in G[l - 1] : step[l][s] \in G[l]

LEMMA Stages ==
  ASSUME NEW N, NEW S, NEW G, NEW x, NEW step, Stays(N, S, G, x, step)
  PROVE  \E f \in [0 .. N -> S] :
           \A l \in 0 .. N : f[l] = (IF l = 0 THEN x ELSE step[l][f[l - 1]]) /\ f[l] \in G[l]
<1> DEFINE next == [l \in 1 .. N |-> [s \in S |-> IF s \in G[l - 1] THEN step[l][s] ELSE s]]
           f == Iteration(S, N, x, next)
           T == {l \in 0 .. N : f[l] \in G[l]}
<1>1. /\ N \in Nat /\ \A l \in 0 .. N : G[l] \subseteq S
      /\ x \in G[0] /\ 0 \in 0 .. N
      /\ \A l \in 1 .. N : l \in 0 .. N /\ l - 1 \in 0 .. N
      /\ \A l \in 1 .. N : \A s \in G[l - 1] : step[l][s] \in G[l]
  BY DEF Stays
<1>2. ASSUME NEW l \in 1 .. N, NEW s \in S PROVE (IF s \in G[l - 1] THEN step[l][s] ELSE s) \in S
  BY <1>1
<1>3. next \in [1 .. N -> [S -> S]]
  BY <1>2
<1>4. \A l \in 1 .. N : \A s \in G[l - 1] : next[l][s] = step[l][s]
  BY <1>1
<1> HIDE DEF next
<1>5. Iterates(f, S, N, x, next)
  BY <1>1, <1>3, IterationExists
<1>6. f \in [0 .. N -> S] /\ f[0] = x /\ \A l \in 1 .. N : f[l] = next[l][f[l - 1]]
  BY <1>5 DEF Iterates
<1> HIDE DEF f
<1>7. ASSUME NEW l \in 1 .. N, f[l - 1] \in G[l - 1] PROVE f[l] = step[l][f[l - 1]] /\ f[l] \in G[l]
  BY <1>1, <1>4, <1>6, <1>7
<1>8. \A l \in 0 .. N : l \in T
  <2>1. 0 \in T
    BY <1>1, <1>6
  <2>2. \A l \in 1 .. N : l - 1 \in T => l \in T
    BY <1>1, <1>7
  <2> HIDE DEF T
  <2> QED BY <1>1, <2>1, <2>2, Throughout
<1>9. \A l \in 0 .. N : f[l] \in G[l]
  BY <1>8
<1>10. ASSUME NEW l \in 0 .. N PROVE f[l] = IF l = 0 THEN x ELSE step[l][f[l - 1]]
  <2>1. CASE l = 0
    BY <2>1, <1>6
  <2>2. CASE l # 0
    <3>1. l \in 1 .. N
      BY <2>2, <1>1
    <3> QED BY <2>2, <3>1, <1>1, <1>7, <1>9
  <2> QED BY <2>1, <2>2
<1> QED BY <1>6, <1>9, <1>10

-----------------------------------------------------------------------------
\* Two sequences, neither of them empty, one after the other; t's elements are
\* those of X, the first and the last of them a and b.
Spans(t, S, X, a, b) ==
  t \in Seq(S) /\ Len(t) > 0 /\ ToSet(t) = X /\ t[1] = a /\ t[Len(t)] = b

LEMMA SpansBoth ==
  ASSUME NEW S, NEW s, NEW t, NEW X, NEW Y, NEW a, NEW b, NEW c, NEW d,
         Spans(s, S, X, a, b), Spans(t, S, Y, c, d)
  PROVE  Spans(s \o t, S, X \cup Y, a, d)
<1> DEFINE u == s \o t
<1>1. /\ s \in Seq(S) /\ t \in Seq(S) /\ Len(s) \in Nat /\ Len(t) \in Nat /\ Len(s) > 0 /\ Len(t) > 0
      /\ DOMAIN s = 1 .. Len(s) /\ DOMAIN t = 1 .. Len(t)
      /\ X = {s[i] : i \in 1 .. Len(s)} /\ Y = {t[i] : i \in 1 .. Len(t)}
      /\ s[1] = a /\ t[Len(t)] = d
  <2>1. s \in Seq(S) /\ t \in Seq(S)
    BY DEF Spans
  <2>2. /\ Len(s) \in Nat /\ Len(t) \in Nat
        /\ DOMAIN s = 1 .. Len(s) /\ DOMAIN t = 1 .. Len(t)
    BY <2>1, LenProperties
  <2> QED BY <2>1, <2>2 DEF Spans, ToSet
<1>2. /\ u \in Seq(S) /\ Len(u) = Len(s) + Len(t)
      /\ \A i \in 1 .. (Len(s) + Len(t)) : u[i] = IF i <= Len(s) THEN s[i] ELSE t[i - Len(s)]
  BY <1>1, ConcatProperties
<1> HIDE DEF u
<1>3. DOMAIN u = 1 .. (Len(s) + Len(t))
  BY <1>2, LenProperties
<1>4. ASSUME NEW i \in 1 .. (Len(s) + Len(t)) PROVE u[i] \in X \cup Y
  <2>1. CASE i <= Len(s)
    BY <2>1, <1>1, <1>2
  <2>2. CASE ~(i <= Len(s))
    <3>1. i - Len(s) \in 1 .. Len(t) /\ u[i] = t[i - Len(s)]
      BY <2>2, <1>1, <1>2
    <3> QED BY <3>1, <1>1
  <2> QED BY <2>1, <2>2
<1>5. ASSUME NEW i \in 1 .. Len(s) PROVE i \in 1 .. (Len(s) + Len(t)) /\ u[i] = s[i]
  BY <1>1, <1>2
<1>6. ASSUME NEW i \in 1 .. Len(t)
      PROVE  Len(s) + i \in 1 .. (Len(s) + Len(t)) /\ u[Len(s) + i] = t[i]
  <2>1. Len(s) + i \in 1 .. (Len(s) + Len(t)) /\ ~(Len(s) + i <= Len(s)) /\ (Len(s) + i) - Len(s) = i
    BY <1>1
  <2> QED BY <2>1, <1>2
<1>7. ToSet(u) = X \cup Y
  <2>1. ToSet(u) = {u[i] : i \in 1 .. (Len(s) + Len(t))}
    BY <1>3 DEF ToSet
  <2>2. X \subseteq ToSet(u)
    BY <2>1, <1>1, <1>5
  <2>3. Y \subseteq ToSet(u)
    BY <2>1, <1>1, <1>6
  <2>4. ToSet(u) \subseteq X \cup Y
    BY <2>1, <1>4
  <2> QED BY <2>2, <2>3, <2>4
<1>8. u[1] = a /\ u[Len(s) + Len(t)] = d /\ Len(s) + Len(t) > 0
  <2>1. 1 \in 1 .. Len(s) /\ Len(t) \in 1 .. Len(t)
    BY <1>1
  <2> QED BY <2>1, <1>1, <1>5, <1>6
<1> QED BY <1>2, <1>7, <1>8 DEF Spans, u

\* A sequence of sequences, none of them empty, as one.
LEMMA FlattenIs ==
  ASSUME NEW S, NEW ss, NEW X, ss \in Seq(Seq(S)), Len(ss) > 0,
         \A j \in 1 .. Len(ss) : Len(ss[j]) > 0,
         X = UNION {ToSet(ss[j]) : j \in 1 .. Len(ss)}
  PROVE  Spans(FlattenSeq(ss), S, X, ss[1][1], ss[Len(ss)][Len(ss[Len(ss)])])
<1> DEFINE N == Len(ss)
           last(j) == ss[j][Len(ss[j])]
           Of(j) == UNION {ToSet(ss[i]) : i \in 1 .. j}
           G == [j \in 1 .. N |-> {t \in Seq(S) : Spans(t, S, Of(j), ss[1][1], last(j))}]
           step == [j \in 1 .. N |-> [t \in Seq(S) |-> t \o ss[j]]]
<1>1. N \in Nat /\ N > 0 /\ 1 \in 1 .. N /\ N \in 1 .. N /\ \A j \in 1 .. N : ss[j] \in Seq(S)
  BY LenProperties
<1>2. \A j \in 1 .. N : Spans(ss[j], S, ToSet(ss[j]), ss[j][1], last(j))
  BY <1>1 DEF Spans
<1>3. Of(1) = ToSet(ss[1])
  OBVIOUS
<1>4. ASSUME NEW j \in 2 .. N PROVE Of(j) = Of(j - 1) \cup ToSet(ss[j]) /\ j \in 1 .. N /\ j - 1 \in 1 .. N
  <2>1. 1 .. j = 1 .. (j - 1) \cup {j}
    BY <1>1
  <2>2. ASSUME NEW I
        PROVE  UNION {ToSet(ss[i]) : i \in I \cup {j}} = (UNION {ToSet(ss[i]) : i \in I}) \cup ToSet(ss[j])
    OBVIOUS
  <2>3. Of(j) = Of(j - 1) \cup ToSet(ss[j])
    BY <2>1, <2>2
  <2> QED BY <2>3, <1>1
<1> HIDE DEF last, Of, N
<1>5. Rises(N, Seq(S), G, ss[1], step)
  <2>1. ss[1] \in Seq(S) /\ ss[1] \in G[1]
    BY <1>1, <1>2, <1>3
  <2>2. ASSUME NEW j \in 2 .. N, NEW t \in G[j - 1] PROVE step[j][t] \in G[j]
    <3>1. t \in Seq(S) /\ Spans(t, S, Of(j - 1), ss[1][1], last(j - 1))
      BY <1>4
    <3>2. Spans(ss[j], S, ToSet(ss[j]), ss[j][1], last(j))
      BY <1>2, <1>4
    <3>3. Spans(t \o ss[j], S, Of(j), ss[1][1], last(j))
      <4>1. Spans(t \o ss[j], S, Of(j - 1) \cup ToSet(ss[j]), ss[1][1], last(j))
        BY ONLY <3>1, <3>2, SpansBoth
      <4> QED BY <4>1, <1>4
    <3>4. step[j][t] = t \o ss[j]
      BY <3>1, <1>4
    <3>5. t \o ss[j] \in Seq(S)
      BY <3>3 DEF Spans
    <3> QED BY <3>3, <3>4, <3>5, <1>4
  <2>3. \A j \in 1 .. N : G[j] \subseteq Seq(S)
    OBVIOUS
  <2> HIDE DEF G, step
  <2> QED BY <2>1, <2>2, <2>3, <1>1 DEF Rises
<1>6. PICK f \in [1 .. N -> Seq(S)] :
        \A j \in 1 .. N : f[j] = (IF j = 1 THEN ss[1] ELSE step[j][f[j - 1]]) /\ f[j] \in G[j]
  <2> HIDE DEF G, step
  <2> QED BY ONLY <1>5, Ascent
<1>7. f = [i \in 1 .. Len(ss) |-> IF i = 1 THEN ss[i] ELSE f[i - 1] \o ss[i]]
  <2>1. ASSUME NEW j \in 1 .. N, j # 1 PROVE step[j][f[j - 1]] = f[j - 1] \o ss[j]
    <3>1. j - 1 \in 1 .. N
      BY <2>1, <1>1
    <3> QED BY <3>1
  <2> HIDE DEF step, G
  <2> QED BY <2>1, <1>6 DEF N
<1> DEFINE flatten[i \in 1 .. Len(ss)] == IF i = 1 THEN ss[i] ELSE flatten[i - 1] \o ss[i]
<1>8. flatten = [i \in 1 .. Len(ss) |-> IF i = 1 THEN ss[i] ELSE flatten[i - 1] \o ss[i]]
  BY <1>7
<1>9. FlattenSeq(ss) = flatten[N]
  <2>1. Len(ss) # 0
    BY <1>1 DEF N
  <2> QED BY <2>1 DEF FlattenSeq, N
<1> HIDE DEF flatten
<1> DEFINE T == {j \in 1 .. N : flatten[j] \in G[j]}
<1>10. 1 .. N \subseteq T
  <2>1. 1 \in T
    BY <1>1, <1>2, <1>3, <1>8 DEF N
  <2>2. ASSUME NEW j \in 1 .. (N - 1), j \in T PROVE j + 1 \in T
    <3>1. j + 1 \in 2 .. N /\ (j + 1) - 1 = j /\ j + 1 \in 1 .. N /\ j + 1 # 1 /\ j \in 1 .. N
      BY <1>1
    <3>2. flatten[j + 1] = flatten[j] \o ss[j + 1]
      BY <3>1, <1>8 DEF N
    <3>3. flatten[j] \in G[j] /\ flatten[j] \in Seq(S)
      BY <3>1, <2>2
    <3>4. step[j + 1][flatten[j]] = flatten[j] \o ss[j + 1]
      BY <3>1, <3>3
    <3> HIDE DEF G, step
    <3>5. step[j + 1][flatten[j]] \in G[j + 1]
      BY <3>1, <3>3, <1>5 DEF Rises
    <3> QED BY <3>1, <3>2, <3>4, <3>5
  <2> HIDE DEF T
  <2> QED BY <2>1, <2>2, <1>1, Upward
<1>11. Spans(flatten[N], S, Of(N), ss[1][1], last(N))
  BY <1>1, <1>10
<1> QED BY <1>9, <1>11 DEF Of, N, last
=============================================================================
